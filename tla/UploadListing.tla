--------------------------- MODULE UploadListing ---------------------------
(***************************************************************************)
(* A client that lists the uploads in progress page by page,               *)
(* ListMultipartUploads of src/uploader.go, while others initiate,         *)
(* complete and abort uploads.  A page holds u.mu and is one action; the   *)
(* client's marker is all that is kept from one page to the next.          *)
(*                                                                         *)
(* The prefix and delimiter of the request are fixed and given by what     *)
(* Prefix.Match says of each key.  Common prefixes are not collected: a    *)
(* key under one matters because its uploads count for the search of the   *)
(* marker and not for the limit.                                           *)
(***************************************************************************)
EXTENDS Uploader

CONSTANTS
    KeyOrder,   \* the keys in the order of the skip list
    Match,      \* what Prefix.Match says of a key
    Content, UnderPrefix, NoMatch,
    NoMarker,   \* the request has no key-marker
    MaxLimit,   \* bound on max-uploads
    MaxPages    \* bound on the pages of the listing

VARIABLE
    listing  \* the client: its bucket, what it was given so far and its next marker

listingVars == <<vars, listing>>

\* An upload as a page names it.
Entry == [key : Keys, id : UploadIDs]

ASSUME ListingAssumption ==
    /\ KeyOrder \in Seq(Keys) /\ {KeyOrder[i] : i \in DOMAIN KeyOrder} = Keys
    /\ \A i, j \in DOMAIN KeyOrder : KeyOrder[i] = KeyOrder[j] => i = j
    /\ Match \in [Keys -> {Content, UnderPrefix, NoMatch}]
    /\ Content # NoMatch /\ UnderPrefix \notin {Content, NoMatch}
    /\ NoMarker \notin Entry

Position(k) == CHOOSE i \in DOMAIN KeyOrder : KeyOrder[i] = k

Before(e, f) == \/ Position(e.key) < Position(f.key)
                \/ e.key = f.key /\ e.id < f.id

\* The upload is among a bucket's uploads.
LiveIn(us, e) == us[e.id] # NoUpload /\ us[e.id].object = e.key

ContentOf(b) == {e \in Entry : Match[e.key] = Content /\ LiveIn(uploads[b], e)}

\* since: the uploads that were in progress in every state from the first page on.
\* markerEnded: history, an upload ended while the client held it as its marker.
ListingTypeOK ==
    /\ listing.bucket \in Buckets
    /\ listing.phase \in {"idle", "paging", "done"}
    /\ listing.marker \in Entry \cup {NoMarker}
    /\ listing.listed \in Seq({e \in Entry : Match[e.key] = Content})
    /\ listing.since \subseteq Entry
    /\ listing.markerEnded \in BOOLEAN
    /\ listing.pages \in 0..MaxPages

-----------------------------------------------------------------------------
(* A page.                                                                 *)

IDs(b, k) == objectIndex[b][k]

Entries(k, ids) == [i \in DOMAIN ids |-> [key |-> k, id |-> ids[i]]]

\* The uploads of a key, if it is listed and not under a common prefix.
ListedOf(b, k) ==
    IF IDs(b, k) # NoEntry /\ Match[k] = Content THEN Entries(k, IDs(b, k)) ELSE <<>>

\* What the iteration finds from a position of the key order on.
ListedFrom(b, position) ==
    LET upTo[i \in 0 .. Len(KeyOrder)] ==
            IF i < position THEN <<>> ELSE upTo[i - 1] \o ListedOf(b, KeyOrder[i])
    IN  upTo[Len(KeyOrder)]

IndexOf(id, ids) == CHOOSE i \in DOMAIN ids : ids[i] = id

\* Bug: start after the marker.
AfterMarker(b, k, id) ==
    LET listed == ListedOf(b, k) IN SubSeq(listed, IndexOf(id, IDs(b, k)) + 1, Len(listed))

\* The marker is where the page begins, itself included.
FromMarker(b, k, id) ==
    LET listed == ListedOf(b, k) IN SubSeq(listed, IndexOf(id, IDs(b, k)), Len(listed))

\* The key that has the marker's ID is in the index, and matches.
HasMarker(b, k, id) ==
    /\ IDs(b, k) # NoEntry /\ Match[k] # NoMatch
    /\ \E i \in DOMAIN IDs(b, k) : IDs(b, k)[i] = id

\* The uploads a page draws from, of which it takes up to its limit.  The search for
\* the marker takes its ID in whatever key it turns up; nothing is listed if it turns
\* up in none that matches.
Candidates(b, marker) ==
    IF marker = NoMarker THEN ListedFrom(b, 1)
    ELSE LET at == {i \in DOMAIN KeyOrder : /\ i >= Position(marker.key)
                                            /\ HasMarker(b, KeyOrder[i], marker.id)}
             first == CHOOSE i \in at : \A j \in at : i <= j
         IN  IF at = {} THEN <<>>
             ELSE FromMarker(b, KeyOrder[first], marker.id) \o ListedFrom(b, first + 1)

\* A Seek past the last key leaves the iterator before the first one.
SeekFails(b, marker) ==
    /\ marker # NoMarker
    /\ \A i \in DOMAIN KeyOrder : i >= Position(marker.key) => IDs(b, KeyOrder[i]) = NoEntry

\* Bug: the last upload of a page is the marker of the next one.
NextMarkerLast(b, marker, limit) ==
    LET candidates == Candidates(b, marker) IN
    IF Len(candidates) > limit THEN candidates[limit] ELSE NoMarker

\* What is left for a next page begins at its marker.  After a failed Seek the
\* search for more begins at the first key.
NextMarker(b, marker, limit) ==
    LET candidates == Candidates(b, marker)
        all == ListedFrom(b, 1) IN
    CASE SeekFails(b, marker) -> IF all = <<>> THEN NoMarker ELSE Head(all)
      [] Len(candidates) > limit -> candidates[limit + 1]
      [] OTHER -> NoMarker

-----------------------------------------------------------------------------

Truncate(s, n) == SubSeq(s, 1, IF n < Len(s) THEN n ELSE Len(s))

\* A bucket without uploads has nothing to page through (and answers
\* NoSuchUpload if it never had one).
ListMultipartUploads(b, limit) ==
    LET marker == listing.marker
        next == NextMarker(b, marker, limit) IN
    /\ Unlocked /\ storage[b] # NoBucket
    /\ \/ listing.phase = "idle" /\ \E k \in Keys : objectIndex[b][k] # NoEntry
       \/ listing.phase = "paging" /\ listing.bucket = b
    /\ listing.pages < MaxPages
    /\ listing' = [listing EXCEPT
           !.bucket = b,
           !.phase = IF next = NoMarker THEN "done" ELSE "paging",
           !.marker = next,
           !.listed = @ \o Truncate(Candidates(b, marker), limit),
           !.since = IF listing.phase = "idle" THEN ContentOf(b) ELSE @,
           !.pages = @ + 1]
    /\ UNCHANGED vars

\* A step of the uploader or of the buckets, observed for the history.
Observe ==
    LET Survives(e) == LiveIn(uploads'[listing.bucket], e) IN
    /\ Next
    /\ listing' = [listing EXCEPT
           !.since = {e \in @ : Survives(e)},
           !.markerEnded = @ \/ (listing.marker # NoMarker /\ ~Survives(listing.marker))]

ListingInit ==
    /\ Init
    /\ listing = [bucket |-> CHOOSE b \in Buckets : TRUE, phase |-> "idle", marker |-> NoMarker,
                  listed |-> <<>>, since |-> {}, markerEnded |-> FALSE, pages |-> 0]

ListingNext ==
    \/ Observe
    \/ \E b \in Buckets, limit \in 1..MaxLimit : ListMultipartUploads(b, limit)

ListingSpec == ListingInit /\ [][ListingNext]_listingVars

-----------------------------------------------------------------------------
(* Safety.                                                                 *)

Ordered(listed) == \A i \in 1..(Len(listed) - 1) : Before(listed[i], listed[i + 1])

\* Across pages of any size, and whatever is initiated, completed or aborted
\* between them, a listing is sorted by key and then by age, and so names no
\* upload twice; unless the upload that a page begins at ended before that page.
OrderedWhileMarked == ~listing.markerEnded => Ordered(listing.listed)

\* A listing that ended named every upload that was in progress all along; again
\* unless the upload that a page begins at ended before that page.
CompleteWhileMarked ==
    listing.phase = "done" /\ ~listing.markerEnded =>
        \A e \in listing.since : \E i \in DOMAIN listing.listed : listing.listed[i] = e

-----------------------------------------------------------------------------
(* Documented behaviour that the code does not have.                       *)

\* "the sorting applies across the full pagination set" (src/uploader.go:60),
\* also when an upload ends that a page would have begun at.
OrderedAcrossPages == Ordered(listing.listed)

=============================================================================
