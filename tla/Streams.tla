------------------------------ MODULE Streams -------------------------------
(***************************************************************************)
(* A body on its way into a store and out again.                           *)
(*                                                                         *)
(* In: the handlers createObject, createObjectBrowserUpload and            *)
(* putMultipartUploadPart of src/gofakes3.go stack readers on the body of  *)
(* the request, chunkedReader of src/chunk.go and hashingReader of         *)
(* src/hash.go, and the store drains the stack: the memory and bolt        *)
(* backends with ReadAll of src/util.go, the disk backends with io.Copy,   *)
(* an upload's part with io.ReadAll.  The network hands over bytes in      *)
(* pieces of any size, and may end early or break.                         *)
(*                                                                         *)
(* Out: getObject of src/gofakes3.go serves the stored body, or a range of *)
(* it (module Ranges).                                                     *)
(*                                                                         *)
(* A byte is its position in the content, two contents have one digest     *)
(* only when they are equal, and the 82 bytes "chunk-signature=...CRLF"    *)
(* are one.  A chunk header read where there is none is refused: the bytes *)
(* of a content that spell one are not modelled.                           *)
(***************************************************************************)
EXTENDS Ranges, Sequences

CONSTANTS
    Uploads,     \* the requests a client may send
    CopyBuffer,  \* how much io.Copy asks for at a time
    ReadBuffer   \* how much io.ReadAll asks for at a time

VARIABLES
    upload,         \* the request
    stage,          \* how far its handler has got
    wire,           \* the bytes of the body that have not been read
    chunkRemain,    \* chunkedReader: what is left of the chunk, and
    notFirstChunk,  \* whether it has read a chunk header before
    read,           \* the Read call under way, if any
    out,            \* what the store has got
    served          \* the answer to a GetObject

vars == <<upload, stage, wire, chunkRemain, notFirstChunk, read, out, served>>

-----------------------------------------------------------------------------
(* Bodies.                                                                 *)

Byte(i) == [is |-> "data", n |-> i]
Header(n) == [is |-> "header", n |-> n]
Signature == [is |-> "signature", n |-> 0]
CR == [is |-> "cr", n |-> 0]
LF == [is |-> "lf", n |-> 0]

Content(n) == [i \in 1 .. n |-> Byte(i)]

Total(sizes) ==
    LET sum[j \in 0 .. Len(sizes)] == IF j = 0 THEN 0 ELSE sum[j - 1] + sizes[j]
    IN  sum[Len(sizes)]

\* The content as an SDK signs it, in chunks of the given sizes and an empty one.
Chunks(sizes) ==
    LET Chunk(first, n) == <<Header(n), Signature>>
                           \o [i \in 1 .. n |-> Byte(first + i)] \o <<CR, LF>>
        upTo[j \in 0 .. Len(sizes)] ==
            IF j = 0 THEN <<>>
            ELSE upTo[j - 1] \o Chunk(Total(SubSeq(sizes, 1, j - 1)), sizes[j])
    IN  upTo[Len(sizes)] \o Chunk(0, 0)

\* The content bytes of a body, in order.
Data(bytes) ==
    LET upTo[i \in 0 .. Len(bytes)] ==
            IF i = 0 THEN <<>>
            ELSE IF bytes[i].is = "data" THEN Append(upTo[i - 1], bytes[i])
            ELSE upTo[i - 1]
    IN  upTo[Len(bytes)]

\* The whole of a request's body, the part of it that arrives, and what a
\* handler that decodes chunks is to find in that part.
Body(u) == IF u.signed THEN Chunks(u.sizes) ELSE Content(Total(u.sizes))

Sent(u) == SubSeq(Body(u), 1, Len(Body(u)) - u.missing)

\* Only createObject decodes chunks, when X-Amz-Content-Sha256 announces them.
Decodes(u) == u.via = "object" /\ u.signed

Payload(u) == IF Decodes(u) THEN Data(Sent(u)) ELSE Sent(u)

-----------------------------------------------------------------------------
(* Requests.  `declared` is the length that the handler reads from         *)
(* Content-Length, from X-Amz-Decoded-Content-Length when it decodes, and  *)
(* from the form; NoLength when there is none or it is not a number.       *)
(* `digest` is Content-MD5, "none" also when the integrity check is off.   *)

NoLength == -2

Upload(sizes, missing, declared) ==
    [via      : {"object", "browser", "part"},
     signed   : BOOLEAN,
     sizes    : sizes,
     missing  : missing,    \* how many of the last bytes never arrive
     ending   : {"eof", "broken"},
     declared : declared,
     digest   : {"none", "right", "wrong", "invalid"},
     store    : {"memory", "disk", "part"}]

\* A part goes to the uploader, an object to a backend; a form has no digest
\* and no signed chunks, and has the length of its file.
WellFormed(u) ==
    /\ (u.via = "part") <=> (u.store = "part")
    /\ u.missing <= Len(Body(u))
    /\ u.via = "browser" => /\ ~u.signed /\ u.digest = "none"
                            /\ u.declared = Total(u.sizes)
    /\ u.via = "part" /\ u.signed => u.digest \in {"none", "invalid"}

\* Lengths are int64, on the wire and in a store, and a buffer holds a byte.
ASSUME StreamsAssumption ==
    /\ \A u \in Uploads :
          /\ u \in Upload(Seq(Nat), Nat, Int)
          /\ WellFormed(u)
          /\ u.declared <= MaxInt
          /\ Total(u.sizes) <= MaxInt
    /\ CopyBuffer \in Nat \ {0}
    /\ ReadBuffer \in Nat \ {0}

\* A client that means what it says, over a connection that holds.
Honest(u) ==
    /\ u.missing = 0 /\ u.ending = "eof"
    /\ u.declared = Len(Payload(u))
    /\ u.digest \in {"none", "right"}
    /\ u.via = "part" => u.declared > 0

-----------------------------------------------------------------------------

NoRead == [left |-> 0, got |-> <<>>, err |-> "idle"]
Nothing == [header |-> "none"]

Init ==
    /\ upload \in Uploads
    /\ stage = "request"
    /\ wire = Sent(upload)
    /\ chunkRemain = 0
    /\ notFirstChunk = FALSE
    /\ read = NoRead
    /\ out = <<>>
    /\ served = Nothing

-----------------------------------------------------------------------------
(* The handlers, up to the call of the store.                              *)

\* The tests of the three handlers on the headers.  A form is read to its end
\* before there is a file to store.
Refuses(u) ==
    CASE u.via = "object"  -> \/ u.declared = NoLength
                              \/ u.declared < 0 /\ ~u.signed
                              \/ u.digest = "invalid"
      [] u.via = "browser" -> u.missing > 0 \/ u.ending = "broken"
      [] u.via = "part"    -> u.declared <= 0 \/ u.digest = "invalid"

\* ReadAll makes a slice of the declared size first.
Handle ==
    /\ stage = "request"
    /\ stage' = IF Refuses(upload) THEN "refused"
                ELSE IF upload.store # "memory" THEN "reading"
                ELSE IF upload.declared < 0 THEN "panicked"
                ELSE IF upload.declared = 0 THEN "extra"
                ELSE "reading"
    /\ UNCHANGED <<upload, wire, chunkRemain, notFirstChunk, read, out, served>>

-----------------------------------------------------------------------------
(* Read calls, from the store down to the network.                         *)

\* The store asks for more: io.ReadFull for what the slice has left.
Ask ==
    /\ stage \in {"reading", "extra"}
    /\ read = NoRead
    /\ read' = [left |-> IF stage = "extra" \/ upload.store = "part" THEN ReadBuffer
                         ELSE IF upload.store = "disk" THEN CopyBuffer
                         ELSE upload.declared - Len(out),
                got |-> <<>>, err |-> "none"]
    /\ UNCHANGED <<upload, stage, wire, chunkRemain, notFirstChunk, out, served>>

Reading == read.err = "none" /\ read.left > 0

\* What a Read of m bytes of the network may return: fewer, or the last of
\* them together with the end.
NetworkReads(m) ==
    {[n |-> n, err |-> "none"] : n \in {i \in 1 .. m : i <= Len(wire)}}
    \cup {[n |-> n, err |-> upload.ending] : n \in {i \in 0 .. m : i = Len(wire)}}

\* The Read call takes r from the network.
Take(r, left) ==
    /\ wire' = SubSeq(wire, r.n + 1, Len(wire))
    /\ read' = [left |-> left, got |-> read.got \o SubSeq(wire, 1, r.n), err |-> r.err]

\* No chunkedReader: the call returns what the network returned.
PlainRead ==
    /\ Reading /\ ~Decodes(upload)
    /\ \E r \in NetworkReads(read.left) : Take(r, 0)
    /\ UNCHANGED <<upload, stage, chunkRemain, notFirstChunk, out, served>>

\* chunkedReader.Read inside a chunk longer than what is asked for.  What
\* remains of the chunk is reckoned before the network has answered.
ReadInChunk ==
    /\ Reading /\ Decodes(upload)
    /\ chunkRemain > read.left
    /\ chunkRemain' = chunkRemain - read.left
    /\ \E r \in NetworkReads(read.left) : Take(r, read.left - r.n)
    /\ UNCHANGED <<upload, stage, notFirstChunk, out, served>>

\* Bug: the rest of a chunk is taken as read however much of it was.
ReadRestAsAsked ==
    /\ Reading /\ Decodes(upload)
    /\ chunkRemain > 0 /\ chunkRemain <= read.left
    /\ chunkRemain' = 0
    /\ \E r \in NetworkReads(chunkRemain) : Take(r, read.left - r.n)
    /\ UNCHANGED <<upload, stage, notFirstChunk, out, served>>

\* ... up to the end of the chunk.
ReadRestOfChunk ==
    /\ Reading /\ Decodes(upload)
    /\ chunkRemain > 0 /\ chunkRemain <= read.left
    /\ \E r \in NetworkReads(chunkRemain) :
          /\ Take(r, read.left - r.n)
          /\ chunkRemain' = chunkRemain - r.n
    /\ UNCHANGED <<upload, stage, notFirstChunk, out, served>>

\* ... between two chunks: skip the CRLF of the last one, unless there is none,
\* and read the next header.  io.CopyN and Fscanf report the end of the body,
\* wherever it comes, as it is.
ReadChunkHeader ==
    /\ Reading /\ Decodes(upload)
    /\ chunkRemain = 0
    /\ LET at == IF notFirstChunk THEN 3 ELSE 1
           bad == at <= Len(wire) /\ wire[at].is # "header"
           short == Len(wire) < at + 1
       IN  /\ read' = [read EXCEPT !.err = IF bad THEN "expected integer"
                                           ELSE IF short THEN upload.ending ELSE "none"]
           /\ chunkRemain' = IF at <= Len(wire) /\ ~bad THEN wire[at].n ELSE 0
           /\ wire' = IF short THEN <<>> ELSE SubSeq(wire, at + 2, Len(wire))
    /\ notFirstChunk' = TRUE
    /\ UNCHANGED <<upload, stage, out, served>>

-----------------------------------------------------------------------------
(* What the store does with the bytes that a Read call returns.            *)

Returned == read.err # "idle" /\ ~Reading

\* hashingReader, for which the last byte is followed by a digest: what it
\* says of an end of the body that the readers below report.
Hashed(all) ==
    IF read.err = "eof" /\ ( \/ upload.digest = "wrong"
                             \/ upload.digest = "right" /\ all # Content(Total(upload.sizes)))
    THEN "BadDigest" ELSE read.err

Store(next, all) ==
    /\ stage' = next
    /\ out' = all
    /\ read' = NoRead
    /\ UNCHANGED <<upload, wire, chunkRemain, notFirstChunk, served>>

\* Bug: ReadAll takes a full slice for the whole body.
FillWithoutExtra ==
    /\ Returned /\ stage = "reading" /\ upload.store = "memory"
    /\ LET all == out \o read.got
       IN  Store(IF Len(all) = upload.declared THEN "stored"
                 ELSE IF Hashed(all) = "none" THEN "reading" ELSE "refused", all)

\* ReadAll, with io.ReadFull: an error that comes with the last byte is dropped.
Fill ==
    /\ Returned /\ stage = "reading" /\ upload.store = "memory"
    /\ LET all == out \o read.got
       IN  Store(IF Len(all) = upload.declared THEN "extra"
                 ELSE IF Hashed(all) = "none" THEN "reading" ELSE "refused", all)

\* The rest of ReadAll, and io.ReadAll of UploadPart: everything up to the end,
\* which must not be more, or other, than declared.
Drain ==
    /\ Returned /\ (stage = "extra" \/ upload.store = "part")
    /\ LET all == out \o read.got
       IN  Store(CASE Hashed(all) = "none" -> stage
                   [] Hashed(all) = "eof" /\ Len(all) = upload.declared -> "stored"
                   [] OTHER -> "refused", all)

\* io.Copy of the disk backends: the declared length is not looked at.
Copy ==
    /\ Returned /\ upload.store = "disk"
    /\ LET all == out \o read.got
       IN  Store(CASE Hashed(all) = "none" -> stage
                   [] Hashed(all) = "eof" -> "stored"
                   [] OTHER -> "refused", all)

-----------------------------------------------------------------------------
(* The stored object is read.                                              *)

Least(i, j) == IF i >= 0 /\ i < j THEN i ELSE j

\* The bytes of a range.  A slice of memory that does not lie in the object
\* panics; a file is read from its start for its length or to its end.
Contents(r) ==
    IF r = Whole THEN [status |-> "ok", length |-> Len(out), body |-> out]
    ELSE IF /\ upload.store = "memory"
            /\ Wrap(r.Start + r.Length) \notin r.Start .. Len(out)
    THEN [status |-> "panicked"]
    ELSE [status |-> "ok", length |-> r.Length,
          body |-> SubSeq(out, r.Start + 1, Least(Wrap(r.Start + r.Length), Len(out)))]

Refusals == {InvalidRange, NotImplemented}

\* getObject: the header is parsed before the backend is asked; the object,
\* when it is the one that the client has, is opened and not sent.
GetObject(header, unmodified) ==
    LET request == parseRangeHeader(header)
        r == IF request \in Refusals \cup {Whole} THEN request
             ELSE RangeOf(request, Len(out))
        contents == Contents(r)
    IN  /\ stage = "stored" /\ upload.via # "part"
        /\ served = Nothing
        /\ served' = [header |-> header,
                      answer |-> IF r \in Refusals THEN [status |-> r.no]
                                 ELSE IF contents.status = "ok" /\ unmodified
                                 THEN [status |-> "NotModified"]
                                 ELSE contents]
        /\ UNCHANGED <<upload, stage, wire, chunkRemain, notFirstChunk, read, out>>

-----------------------------------------------------------------------------

Next ==
    \/ Handle \/ Ask
    \/ PlainRead \/ ReadInChunk \/ ReadRestOfChunk \/ ReadChunkHeader
    \/ Fill \/ Drain \/ Copy
    \/ \E header \in RangeHeader, unmodified \in BOOLEAN : GetObject(header, unmodified)

Spec == Init /\ [][Next]_vars

-----------------------------------------------------------------------------
(* Properties.                                                             *)

\* How much a store asks for to begin with.
Room(u) == IF u.store = "memory" THEN u.declared ELSE CopyBuffer

\* A content that is decoded fits what the store asks for, so that chunkedReader
\* is never asked for less than is left of a chunk.  Memory and bolt ask for the
\* declared length, io.Copy of the disk backends for a buffer at a time.  Left out
\* are contents longer than they declare and, on a disk, longer than that buffer:
\* the reader loses its place in them after a short read, so that a disk refuses
\* an honest client (DiskTakesChunks), and a body that ends early is accepted
\* without the last bytes that did arrive.
ChunksFit(u) == Decodes(u) => Total(u.sizes) <= Room(u)

\* What a store accepts is all of what arrived, in order, and nothing else,
\* however the network cut it up: a body that broke off is never accepted, nor
\* one whose digest is not the announced one; memory, bolt and parts also hold
\* it against the declared length.  (Of the contents that ChunksFit leaves out
\* this is not so.)
AcceptedIsWhole ==
    stage = "stored" /\ ChunksFit(upload) =>
        /\ out = Payload(upload)
        /\ upload.ending = "eof"
        /\ \/ upload.digest = "none"
           \/ upload.digest = "right" /\ out = Content(Total(upload.sizes))
        /\ upload.store # "disk" => Len(out) = upload.declared

\* The body of an honest client is never refused and never panics, whatever
\* pieces the network hands it over in: reading the end of the body together
\* with the last bytes, or a chunk in several pieces, loses nothing.
HonestIsAccepted ==
    Honest(upload) /\ ChunksFit(upload) =>
        stage \notin {"refused", "panicked"}

\* chunkedReader fills the buffer it is given: the disk backends, whose buffer
\* is shorter than a chunk, take an honest client's chunks too.
DiskTakesChunks ==
    Honest(upload) /\ upload.store = "disk" /\ Decodes(upload) => stage # "refused"

\* The body is the object's bytes at these positions, each once and in order.
AreTheBytes(body, positions) ==
    \E at \in [1 .. Len(body) -> positions] :
        /\ {at[j] : j \in DOMAIN at} = positions
        /\ \A i, j \in DOMAIN at : i < j => at[i] < at[j]
        /\ \A j \in DOMAIN at : body[j] = out[at[j] + 1]

\* A GetObject sends the bytes that its Range header names, announces as many
\* as it sends, and is refused only when it names none.  The one header left
\* out ends at the last int64.
RangeIsServed ==
    served # Nothing =>
        LET request == parseRangeHeader(served.header)
            named == IF request = Whole THEN 0 .. Len(out) - 1 ELSE Named(request, Len(out))
            answer == served.answer
        IN  request = Whole \/ (request \notin Refusals /\ ~EndsAtMaxInt(request)) =>
                  /\ answer.status \in {"ok", "NotModified", "InvalidRange"}
                  /\ (answer.status = "InvalidRange") <=> (request # Whole /\ named = {})
                  /\ answer.status = "ok" =>
                        /\ AreTheBytes(answer.body, named)
                        /\ answer.length = Len(answer.body)

=============================================================================
