--------------------------- MODULE StreamsProofs ----------------------------
(***************************************************************************)
(* A store gets the whole of a body, and a reader the bytes it names, for  *)
(* bodies, chunks, buffers and reads of every size.                        *)
(*                                                                         *)
(* The invariant says where the reader stands in the body: p symbols of    *)
(* what arrives have been read, the rest is on the wire, and the store has *)
(* the content among the p (PlainAt, DecodedAt).  The lemmas about bodies  *)
(* come before it: sums, the content of a sequence, and the chunks that    *)
(* Chunks builds, each by induction over the recursive function that       *)
(* defines it.  Ranges, which need no induction, are the first section.    *)
(***************************************************************************)
EXTENDS Streams, RecursionProofs, SequenceTheorems, TLAPS

-----------------------------------------------------------------------------
(* Ranges: what a request names of an object, for every int64.             *)

\* Wrap is the identity on an int64.
LEMMA WrapIsExact ==
    ASSUME NEW x \in Int64
    PROVE  Wrap(x) = x
BY RangesAssumption DEF Int64, Wrap

\* Where and how long a range is, when its request comes out of
\* parseRangeHeader and does not end at the last int64.
LEMMA Bounds ==
    ASSUME NEW o \in ObjectRangeRequest, NEW size \in 0 .. MaxInt,
           ParsedRequest(o), ~EndsAtMaxInt(o)
    PROVE  /\ Start(o, size) \in Int64
           /\ Length(o, size) \in Int64
           /\ o.FromEnd => /\ Start(o, size) >= 0 /\ Start(o, size) < size <=> o.End \in 1 .. size
                           /\ o.End \in 1 .. size => /\ Start(o, size) = size - o.End
                                                     /\ Length(o, size) = o.End
           /\ ~o.FromEnd /\ o.End = RangeNoEnd =>
                  Start(o, size) = o.Start /\ Length(o, size) = size - o.Start
           /\ ~o.FromEnd /\ o.End # RangeNoEnd =>
                  Start(o, size) = o.Start /\ Length(o, size) = o.End - o.Start + 1
<1>1. o.Start \in Int64 /\ o.End \in Int64 /\ o.FromEnd \in BOOLEAN
  BY DEF ObjectRangeRequest
<1>2. CASE o.FromEnd
  BY <1>1, <1>2, RangesAssumption DEF Start, Length, Wrap, Int64
<1>3. CASE ~o.FromEnd
  BY <1>1, <1>3, RangesAssumption
     DEF Start, Length, Wrap, Int64, ParsedRequest, EndsAtMaxInt, RangeNoEnd
<1> QED  BY <1>1, <1>2, <1>3

-----------------------------------------------------------------------------
(* The two cases of RangeOf.                                               *)

\* A range is refused exactly when it does not start in the object.
LEMMA Refusal ==
    ASSUME NEW o \in ObjectRangeRequest, NEW size \in 0 .. MaxInt,
           ParsedRequest(o), ~EndsAtMaxInt(o)
    PROVE  \/ Start(o, size) < 0
           \/ Length(o, size) < 0
           \/ Start(o, size) >= size
           <=> Named(o, size) = {}
<1>1. o.Start \in Int64 /\ o.End \in Int64 /\ o.FromEnd \in BOOLEAN
  BY DEF ObjectRangeRequest
<1>2. CASE o.FromEnd
  <2>1. ASSUME o.End \in 1 .. size
        PROVE  size - 1 \in Named(o, size)
    BY <1>1, <1>2, <2>1, RangesAssumption DEF Named, Int64
  <2>2. ASSUME o.End \notin 1 .. size
        PROVE  Named(o, size) = {}
    BY <1>1, <1>2, <2>2, RangesAssumption DEF Named, Int64
  <2> QED  BY <1>1, <1>2, <2>1, <2>2, Bounds DEF Int64
<1>3. CASE ~o.FromEnd
  <2>1. Start(o, size) = o.Start /\ o.Start >= 0
    BY <1>3, Bounds DEF ParsedRequest
  <2>2. ASSUME o.Start < size
        PROVE  o.Start \in Named(o, size) /\ Length(o, size) >= 0
    BY <1>1, <1>3, <2>1, <2>2, Bounds DEF Named, Int64, ParsedRequest
  <2>3. ASSUME o.Start >= size
        PROVE  Named(o, size) = {}
    BY <1>1, <1>3, <2>3 DEF Named, Int64
  <2>4. CASE o.Start < size
    <3>1. Length(o, size) \in Int64
      BY Bounds
    <3> QED  BY <1>1, <2>1, <2>2, <2>4, <3>1, RangesAssumption DEF Int64
  <2>5. CASE ~(o.Start < size)
    <3>1. o.Start >= size
      BY <1>1, <2>5, RangesAssumption DEF Int64
    <3>2. Start(o, size) >= size
      BY <2>1, <3>1
    <3> QED  BY <2>3, <3>1, <3>2
  <2> QED  BY <2>4, <2>5
<1> QED  BY <1>1, <1>2, <1>3

\* A range that is not refused is cut off at the end of the object, whatever
\* the sum of its start and its length wraps to.
LEMMA Clamp ==
    ASSUME NEW o \in ObjectRangeRequest, NEW size \in 0 .. MaxInt,
           ParsedRequest(o), ~EndsAtMaxInt(o), Named(o, size) # {}
    PROVE  LET r == RangeOf(o, size)
           IN  /\ r.Start = Start(o, size)
               /\ r.Length = IF Start(o, size) + Length(o, size) > size
                             THEN size - Start(o, size) ELSE Length(o, size)
<1> DEFINE start  == Start(o, size)
           length == Length(o, size)
<1>1. start \in Int64 /\ length \in Int64 /\ start >= 0 /\ length >= 0 /\ start < size
  BY Refusal, Bounds DEF Int64
<1>2. start + length <= MaxInt
  <2>1. o.Start \in Int64 /\ o.End \in Int64 /\ o.FromEnd \in BOOLEAN
    BY DEF ObjectRangeRequest
  <2>2. CASE o.FromEnd
    BY <1>1, <2>1, <2>2, Bounds DEF Int64
  <2>3. CASE ~o.FromEnd /\ o.End = RangeNoEnd
    BY <1>1, <2>1, <2>3, Bounds DEF Int64
  <2>4. CASE ~o.FromEnd /\ o.End # RangeNoEnd
    <3>1. start + length = o.End + 1
      BY <1>1, <2>1, <2>4, Bounds DEF Int64
    <3>2. o.End < MaxInt
      BY <2>1, <2>4, RangesAssumption DEF Int64, EndsAtMaxInt
    <3> QED  BY <2>1, <3>1, <3>2, RangesAssumption DEF Int64
  <2> QED  BY <2>1, <2>2, <2>3, <2>4
<1>3. Wrap(start + length) = start + length
  BY <1>1, <1>2, WrapIsExact, RangesAssumption DEF Int64
<1> HIDE DEF start, length
<1>4. RangeOf(o, size) = [Start  |-> start,
                        Length |-> IF Wrap(start + length) > size THEN size - start ELSE length]
  BY <1>1 DEF RangeOf, start, length, Int64
<1> QED  BY <1>3, <1>4 DEF start, length

-----------------------------------------------------------------------------

\* An object of any size, asked for any range that parseRangeHeader lets
\* through and that does not end at the last int64: the answer is refused
\* exactly when the request names no byte of it, and otherwise is a range that
\* lies inside the object, so that data[Start : Start+Length] of the memory
\* and bolt backends cannot panic, and that has the bytes the request names.
THEOREM RangeIsNamed ==
    ASSUME NEW o \in ObjectRangeRequest, NEW size \in 0 .. MaxInt,
           ParsedRequest(o), ~EndsAtMaxInt(o)
    PROVE  LET r == RangeOf(o, size)
           IN  IF Named(o, size) = {} THEN r = InvalidRange
               ELSE /\ r.Start >= 0 /\ r.Length >= 1
                    /\ r.Start + r.Length <= size
                    /\ BytesOf(r) = Named(o, size)
<1>1. o.Start \in Int64 /\ o.End \in Int64 /\ o.FromEnd \in BOOLEAN
  BY DEF ObjectRangeRequest
<1>2. CASE Named(o, size) = {}
  BY <1>2, Refusal DEF RangeOf
<1>3. CASE Named(o, size) # {}
  <2> DEFINE r == RangeOf(o, size)
  <2>1. Start(o, size) >= 0 /\ Start(o, size) < size
    BY <1>3, Refusal, Bounds DEF Int64
  <2>2. CASE o.FromEnd
    <3>1. o.End \in 1 .. size /\ r.Start = size - o.End /\ r.Length = o.End
      BY <1>1, <1>3, <2>1, <2>2, Bounds, Clamp DEF Int64
    <3> QED  BY <1>1, <1>3, <2>2, <3>1 DEF BytesOf, Named, Int64
  <2>3. CASE ~o.FromEnd /\ o.End = RangeNoEnd
    <3>1. r.Start = o.Start /\ r.Length = size - o.Start /\ o.Start \in 0 .. size - 1
      BY <1>1, <1>3, <2>1, <2>3, Bounds, Clamp DEF Int64
    <3> QED  BY <1>1, <1>3, <2>3, <3>1 DEF BytesOf, Named, Int64
  <2>4. CASE ~o.FromEnd /\ o.End # RangeNoEnd
    <3>1. /\ r.Start = o.Start /\ o.Start \in 0 .. size - 1 /\ o.End >= o.Start
          /\ r.Length = IF o.End + 1 > size THEN size - o.Start ELSE o.End - o.Start + 1
      BY <1>1, <1>3, <2>1, <2>4, Bounds, Clamp DEF Int64, ParsedRequest
    <3> QED  BY <1>1, <1>3, <2>4, <3>1 DEF BytesOf, Named, Int64
  <2> QED  BY <1>1, <1>3, <2>2, <2>3, <2>4
<1> QED  BY <1>2, <1>3

\* What parseRangeHeader does not refuse has the form that the other theorem
\* asks for: a suffix, or a start that is not negative and an end not before it.
THEOREM ParsedRequestsAreSound ==
    ASSUME NEW h \in RangeHeader,
           h.is = "bytes",
           parseRangeHeader(h) # InvalidRange
    PROVE  /\ parseRangeHeader(h) \in ObjectRangeRequest
           /\ ParsedRequest(parseRangeHeader(h))
<1>1. h.first \in Bound /\ h.last \in Bound
  BY DEF RangeHeader, Bound
<1>2. \A b \in Bound : b.n \in Int64 /\ b.is \in {"blank", "junk", "number"}
                       /\ (b.is = "blank" => b = Blank)
  BY RangesAssumption DEF Bound, Blank, Junk, Number, Int64
<1>3. CASE h.first = Blank
  <2>1. parseRangeHeader(h) = [Start |-> 0, End |-> h.last.n, FromEnd |-> TRUE]
    BY <1>3 DEF parseRangeHeader
  <2> QED  BY <1>1, <1>2, <2>1, RangesAssumption DEF ObjectRangeRequest, ParsedRequest, Int64
<1>4. CASE h.first # Blank
  <2>1. /\ parseRangeHeader(h) = [Start |-> h.first.n,
                                  End |-> IF h.last = Blank THEN RangeNoEnd ELSE h.last.n,
                                  FromEnd |-> FALSE]
        /\ h.first.n >= 0
        /\ h.last.is # "junk"
        /\ h.last.is = "number" => h.first.n <= h.last.n
    BY <1>1, <1>2, <1>4 DEF parseRangeHeader, Int64
  <2> QED  BY <1>1, <1>2, <2>1, RangesAssumption
           DEF ObjectRangeRequest, ParsedRequest, Int64, RangeNoEnd
<1> QED  BY <1>3, <1>4

-----------------------------------------------------------------------------
(* The inductive invariant.                                                *)

Symbol == [is : {"data", "header", "signature", "cr", "lf"}, n : Nat]

ReadCall == [left : Nat, got : Seq(Symbol),
             err : {"idle", "none", "eof", "broken", "expected integer"}]

Stages == {"request", "refused", "panicked", "reading", "extra", "stored"}

StreamsTypeOK ==
    /\ upload \in Uploads
    /\ stage \in Stages
    /\ wire \in Seq(Symbol)
    /\ chunkRemain \in Nat
    /\ notFirstChunk \in BOOLEAN
    /\ read \in ReadCall
    /\ out \in Seq(Symbol)

\* An upload whose chunks are read as they are (ChunksFit), when it decodes.
Fits(u) == u.store \in {"memory", "disk"} /\ Total(u.sizes) <= Room(u)

\* The r symbols behind the first p of a body end a chunk.
EndOfChunk(b, p, r) ==
    /\ p + r + 2 <= Len(b)
    /\ \A j \in 1 .. r : b[p + j].is = "data"
    /\ b[p + r + 1].is = "cr" /\ b[p + r + 2].is = "lf"
    /\ p + r + 2 = Len(b) \/ b[p + r + 3].is = "header"

\* What the store has got, with what the Read call under way will add.
Taken == out \o read.got

\* p symbols of a body have been read, w is left of what arrived, and t is what
\* has been taken: all of them.
PlainAt(u, p, w, t) ==
    /\ w = SubSeq(Sent(u), p + 1, Len(Sent(u)))
    /\ t = SubSeq(Sent(u), 1, p)

\* The same for a body that is decoded: their data.  The reader is at the
\* start, or inside a chunk that has as many bytes left as it believes, or more
\* when it took a short read for a full one.
DecodedAt(u, p, w, t, remain, notFirst) ==
    /\ w = SubSeq(Sent(u), p + 1, Len(Sent(u)))
    /\ t = Data(SubSeq(Sent(u), 1, p))
    /\ \/ p = 0 /\ remain = 0 /\ ~notFirst
       \/ /\ notFirst
          /\ \E r \in Nat : /\ r >= remain
                            /\ Fits(u) => r = remain
                            /\ EndOfChunk(Body(u), p, r)

\* The body has come to its end, between two headers or inside of one.
AtItsEnd(u, w, t) ==
    /\ w = <<>>
    /\ IF Fits(u) THEN t = Data(Sent(u)) ELSE Len(t) <= Len(Data(Sent(u)))

PlainInStep(u, w, t) == \E p \in 0 .. Len(Sent(u)) : PlainAt(u, p, w, t)

DecodedInStep(u, w, t, remain, notFirst) ==
    \/ AtItsEnd(u, w, t)
    \/ \E p \in 0 .. Len(Sent(u)) : DecodedAt(u, p, w, t, remain, notFirst)

Active == stage \in {"request", "reading", "extra"}

\* What has been read is what has been taken.
InStep ==
    Active =>
        /\ ~Decodes(upload) => /\ read.err # "expected integer"
                               /\ PlainInStep(upload, wire, Taken)
        /\ Decodes(upload) /\ Fits(upload) => read.err # "expected integer"
        /\ Decodes(upload) /\ (Fits(upload) \/ upload.store = "disk")
             /\ read.err # "expected integer" =>
                DecodedInStep(upload, wire, Taken, chunkRemain, notFirstChunk)

\* An end that was reported is the body's.
EndsAreTrue ==
    read.err \in {"eof", "broken"} => read.err = upload.ending /\ wire = <<>>

\* How much the store has asked for.
LengthsAgree ==
    /\ stage = "request" => out = <<>> /\ read = NoRead
    /\ stage = "extra" => upload.store = "memory" /\ upload.declared <= Len(out)
    /\ stage = "reading" /\ upload.store = "memory" =>
          /\ Len(out) < upload.declared
          /\ read # NoRead => Len(Taken) + read.left <= upload.declared
          /\ read # NoRead /\ Decodes(upload) => Len(Taken) + read.left = upload.declared
    /\ stage = "reading" /\ upload.store = "disk" /\ read # NoRead /\ Decodes(upload) =>
          Len(Taken) + read.left = Len(out) + CopyBuffer
    /\ read.err = "idle" => read = NoRead
    /\ ~Active => read = NoRead

\* A store is called for no request that its handler refuses.
Admitted == stage \in {"reading", "extra"} => ~Refuses(upload)

\* What can be served, and when.
FitsInt64 ==
    /\ stage = "stored" /\ upload.via # "part" => Len(out) <= MaxInt
    /\ served # Nothing => stage = "stored"

StreamsInv ==
    /\ StreamsTypeOK
    /\ InStep
    /\ EndsAreTrue
    /\ LengthsAgree
    /\ Admitted
    /\ AcceptedIsWhole
    /\ HonestIsAccepted
    /\ FitsInt64

-----------------------------------------------------------------------------
(* The recursive functions of the module, by their equations.              *)

\* The sums of the first sizes.
Sums(f, sizes) ==
    /\ f \in [0 .. Len(sizes) -> Nat]
    /\ f[0] = 0
    /\ \A i \in 1 .. Len(sizes) : f[i] = f[i - 1] + sizes[i]

LEMMA SumsExist ==
    ASSUME NEW s \in Seq(Nat)
    PROVE  \E f : Sums(f, s)
<1> DEFINE step == [x \in Nat \X Nat |-> IF x[1] \in 1 .. Len(s) THEN x[2] + s[x[1]] ELSE x[2]]
<1>1. Len(s) \in Nat /\ \A i \in 1 .. Len(s) : s[i] \in Nat
  OBVIOUS
<1>2. step \in [Nat \X Nat -> Nat]
  BY <1>1
<1>3. \A i \in 1 .. Len(s) : \A v \in Nat : step[<<i, v>>] = v + s[i]
  BY <1>1
<1> HIDE DEF step
<1>4. PICK f : Steps(f, Nat, 0, step, Len(s))
  BY <1>1, <1>2, Recursion
<1>5. \A i \in 1 .. Len(s) : f[i - 1] \in Nat
  <2>1. \A i \in 1 .. Len(s) : i - 1 \in 0 .. Len(s)
    BY <1>1
  <2>2. f \in [0 .. Len(s) -> Nat]
    BY <1>4 DEF Steps
  <2> QED  BY <2>1, <2>2
<1>6. Sums(f, s)
  BY <1>1, <1>3, <1>4, <1>5 DEF Steps, Sums
<1> QED  BY <1>6

LEMMA TotalIs ==
    ASSUME NEW s \in Seq(Nat), NEW f, Sums(f, s)
    PROVE  Total(s) = f[Len(s)]
<1> DEFINE sum[j \in 0 .. Len(s)] == IF j = 0 THEN 0 ELSE sum[j - 1] + s[j]
<1>1. f = [j \in 0 .. Len(s) |-> IF j = 0 THEN 0 ELSE f[j - 1] + s[j]]
  BY DEF Sums
<1>2. sum = [j \in 0 .. Len(s) |-> IF j = 0 THEN 0 ELSE sum[j - 1] + s[j]]
  BY <1>1
<1>3. Total(s) = sum[Len(s)]
  BY DEF Total
<1> HIDE DEF sum
<1> DEFINE T == {m \in Nat : m <= Len(s) => sum[m] = f[m]}
<1>4. 0 \in T
  BY <1>2 DEF Sums
<1>5. ASSUME NEW m \in Nat, m \in T
      PROVE  m + 1 \in T
  <2>1. CASE m + 1 <= Len(s)
    <3>1. sum[m] = f[m] /\ m + 1 \in 1 .. Len(s) /\ (m + 1) - 1 = m
      BY <1>5, <2>1
    <3>2. sum[m + 1] = sum[m] + s[m + 1] /\ f[m + 1] = f[m] + s[m + 1]
      BY <1>2, <3>1 DEF Sums
    <3> QED  BY <3>1, <3>2
  <2> QED  BY <2>1
<1> HIDE DEF T
<1>6. Nat \subseteq T
  BY <1>4, <1>5, Induction
<1>7. Len(s) \in T
  BY <1>6
<1> QED  BY <1>3, <1>7 DEF T

LEMMA TotalEmpty == Total(<<>>) = 0
<1> DEFINE f == [i \in 0 .. 0 |-> 0]
<1>1. Sums(f, <<>>) /\ f[0] = 0
  BY DEF Sums
<1>2. <<>> \in Seq(Nat) /\ Len(<<>>) = 0
  OBVIOUS
<1> HIDE DEF f
<1>3. Total(<<>>) = f[Len(<<>>)]
  BY <1>1, <1>2, TotalIs
<1> QED  BY <1>1, <1>2, <1>3

LEMMA TotalAppend ==
    ASSUME NEW s \in Seq(Nat), NEW n \in Nat
    PROVE  /\ Total(s) \in Nat
           /\ Total(Append(s, n)) = Total(s) + n
<1> DEFINE t == Append(s, n)
<1>1. PICK f : Sums(f, s)
  BY SumsExist
<1>2. /\ t \in Seq(Nat) /\ Len(s) \in Nat /\ Len(t) = Len(s) + 1
      /\ \A i \in 1 .. Len(s) : t[i] = s[i]
      /\ t[Len(s) + 1] = n
      /\ \A i \in 1 .. Len(s) : s[i] \in Nat
  OBVIOUS
<1> HIDE DEF t
<1>3. Total(s) = f[Len(s)] /\ f[Len(s)] \in Nat
  <2>1. Total(s) = f[Len(s)]
    BY <1>1, TotalIs
  <2>2. f \in [0 .. Len(s) -> Nat] /\ Len(s) \in 0 .. Len(s)
    BY <1>1, <1>2 DEF Sums
  <2>3. f[Len(s)] \in Nat
    BY <2>2
  <2> QED  BY <2>1, <2>3
<1> DEFINE g == [i \in 0 .. Len(s) + 1 |-> IF i <= Len(s) THEN f[i] ELSE f[Len(s)] + n]
<1>4. g \in [0 .. Len(t) -> Nat] /\ g[0] = 0
  BY <1>1, <1>2, <1>3 DEF Sums
<1>5. ASSUME NEW i \in 1 .. Len(t)
      PROVE  g[i] = g[i - 1] + t[i]
  <2>1. CASE i <= Len(s)
    BY <1>1, <1>2, <2>1 DEF Sums
  <2>2. CASE i = Len(s) + 1
    BY <1>2, <1>3, <2>2
  <2> QED  BY <1>2, <2>1, <2>2
<1>6. g[Len(t)] = f[Len(s)] + n
  BY <1>2
<1> HIDE DEF g
<1>7. Sums(g, t)
  BY <1>4, <1>5 DEF Sums
<1>8. Total(t) = f[Len(s)] + n
  BY <1>2, <1>6, <1>7, TotalIs
<1> QED  BY <1>3, <1>8 DEF t

\* The contents of the first bytes.
Collects(f, bytes) ==
    /\ f \in [0 .. Len(bytes) -> Seq(Symbol)]
    /\ f[0] = <<>>
    /\ \A i \in 1 .. Len(bytes) :
          f[i] = IF bytes[i].is = "data" THEN Append(f[i - 1], bytes[i]) ELSE f[i - 1]

LEMMA CollectsExist ==
    ASSUME NEW s \in Seq(Symbol)
    PROVE  \E f : Collects(f, s)
<1> DEFINE step == [x \in Nat \X Seq(Symbol) |->
                       IF x[1] \in 1 .. Len(s) /\ s[x[1]].is = "data" THEN Append(x[2], s[x[1]])
                       ELSE x[2]]
<1>1. Len(s) \in Nat /\ \A i \in 1 .. Len(s) : s[i] \in Symbol
  OBVIOUS
<1>2. step \in [Nat \X Seq(Symbol) -> Seq(Symbol)]
  <2>1. ASSUME NEW i \in Nat, NEW v \in Seq(Symbol)
        PROVE  IF i \in 1 .. Len(s) /\ s[i].is = "data" THEN Append(v, s[i]) \in Seq(Symbol)
               ELSE v \in Seq(Symbol)
    BY <1>1
  <2> QED  BY <2>1
<1>3. \A i \in 1 .. Len(s) : \A v \in Seq(Symbol) :
         step[<<i, v>>] = IF s[i].is = "data" THEN Append(v, s[i]) ELSE v
  BY <1>1
<1> HIDE DEF step
<1>4. PICK f : Steps(f, Seq(Symbol), <<>>, step, Len(s))
  <2> DEFINE empty == <<>>
             V == Seq(Symbol)
  <2>1. empty \in V /\ Len(s) \in Nat /\ step \in [Nat \X V -> V]
    BY <1>1, <1>2
  <2> HIDE DEF empty, V
  <2>2. \E f : Steps(f, V, empty, step, Len(s))
    BY <2>1, Recursion
  <2> QED  BY <2>2 DEF empty, V
<1>5. \A i \in 1 .. Len(s) : f[i - 1] \in Seq(Symbol)
  BY <1>1, <1>4 DEF Steps
<1>6. /\ f \in [0 .. Len(s) -> Seq(Symbol)] /\ f[0] = <<>>
      /\ \A i \in 1 .. Len(s) : f[i] = step[<<i, f[i - 1]>>]
  BY <1>4 DEF Steps
<1>7. \A i \in 1 .. Len(s) :
         f[i] = IF s[i].is = "data" THEN Append(f[i - 1], s[i]) ELSE f[i - 1]
  BY <1>3, <1>5, <1>6
<1>8. Collects(f, s)
  BY <1>6, <1>7 DEF Collects
<1> QED  BY <1>8

LEMMA DataIs ==
    ASSUME NEW s \in Seq(Symbol), NEW f, Collects(f, s)
    PROVE  Data(s) = f[Len(s)]
<1> DEFINE upTo[i \in 0 .. Len(s)] ==
               IF i = 0 THEN <<>>
               ELSE IF s[i].is = "data" THEN Append(upTo[i - 1], s[i])
               ELSE upTo[i - 1]
<1>1. f = [i \in 0 .. Len(s) |->
              IF i = 0 THEN <<>>
              ELSE IF s[i].is = "data" THEN Append(f[i - 1], s[i])
              ELSE f[i - 1]]
  <2> DEFINE g == [i \in 0 .. Len(s) |->
                      IF i = 0 THEN <<>>
                      ELSE IF s[i].is = "data" THEN Append(f[i - 1], s[i])
                      ELSE f[i - 1]]
  <2>1. ASSUME NEW i \in 0 .. Len(s)
        PROVE  f[i] = g[i]
    <3>1. CASE i = 0
      BY <3>1 DEF Collects
    <3>2. CASE i # 0
      <4>1. i \in 1 .. Len(s)
        BY <3>2
      <4>2. f[i] = IF s[i].is = "data" THEN Append(f[i - 1], s[i]) ELSE f[i - 1]
        BY <4>1 DEF Collects
      <4> QED  BY <3>2, <4>2
    <3> QED  BY <3>1, <3>2
  <2>2. f \in [0 .. Len(s) -> Seq(Symbol)]
    BY DEF Collects
  <2>3. DOMAIN f = 0 .. Len(s) /\ f = [i \in 0 .. Len(s) |-> f[i]]
    BY <2>2
  <2> QED  BY <2>1, <2>3
<1>2. upTo = [i \in 0 .. Len(s) |->
                 IF i = 0 THEN <<>>
                 ELSE IF s[i].is = "data" THEN Append(upTo[i - 1], s[i])
                 ELSE upTo[i - 1]]
  BY <1>1
<1>3. Data(s) = upTo[Len(s)]
  BY DEF Data
<1> HIDE DEF upTo
<1> DEFINE T == {m \in Nat : m <= Len(s) => upTo[m] = f[m]}
<1>4. 0 \in T
  BY <1>2 DEF Collects
<1>5. ASSUME NEW m \in Nat, m \in T
      PROVE  m + 1 \in T
  <2>1. CASE m + 1 <= Len(s)
    <3>1. upTo[m] = f[m] /\ m + 1 \in 1 .. Len(s) /\ (m + 1) - 1 = m
      BY <1>5, <2>1
    <3>2. upTo[m + 1] = IF s[m + 1].is = "data" THEN Append(upTo[m], s[m + 1]) ELSE upTo[m]
      <4>1. m + 1 \in 0 .. Len(s) /\ m + 1 # 0
        BY <3>1
      <4> QED  BY <1>2, <3>1, <4>1
    <3>3. f[m + 1] = IF s[m + 1].is = "data" THEN Append(f[m], s[m + 1]) ELSE f[m]
      BY <3>1 DEF Collects
    <3> QED  BY <3>1, <3>2, <3>3
  <2> QED  BY <2>1
<1> HIDE DEF T
<1>6. Nat \subseteq T
  BY <1>4, <1>5, Induction
<1>7. Len(s) \in T
  BY <1>6
<1> QED  BY <1>3, <1>7 DEF T

LEMMA DataEmpty == Data(<<>>) = <<>>
<1> DEFINE f == [i \in 0 .. 0 |-> <<>>]
<1>1. Collects(f, <<>>) /\ f[0] = <<>>
  BY DEF Collects
<1>2. <<>> \in Seq(Symbol) /\ Len(<<>>) = 0
  OBVIOUS
<1> HIDE DEF f
<1>3. Data(<<>>) = f[Len(<<>>)]
  BY <1>1, <1>2, DataIs
<1> QED  BY <1>1, <1>2, <1>3

LEMMA DataAppend ==
    ASSUME NEW s \in Seq(Symbol), NEW x \in Symbol
    PROVE  /\ Data(s) \in Seq(Symbol)
           /\ Data(Append(s, x)) = IF x.is = "data" THEN Append(Data(s), x) ELSE Data(s)
<1> DEFINE t == Append(s, x)
           last(v) == IF x.is = "data" THEN Append(v, x) ELSE v
<1>1. PICK f : Collects(f, s)
  BY CollectsExist
<1>2. /\ t \in Seq(Symbol) /\ Len(s) \in Nat /\ Len(t) = Len(s) + 1
      /\ \A i \in 1 .. Len(s) : t[i] = s[i]
      /\ t[Len(s) + 1] = x
      /\ \A i \in 1 .. Len(s) : s[i] \in Symbol
  OBVIOUS
<1> HIDE DEF t
<1>3. Data(s) = f[Len(s)] /\ f[Len(s)] \in Seq(Symbol)
  <2>1. Data(s) = f[Len(s)]
    BY <1>1, DataIs
  <2> QED  BY <1>1, <1>2, <2>1 DEF Collects
<1> DEFINE g == [i \in 0 .. Len(s) + 1 |-> IF i <= Len(s) THEN f[i] ELSE last(f[Len(s)])]
<1>4. g \in [0 .. Len(t) -> Seq(Symbol)] /\ g[0] = <<>>
  BY <1>1, <1>2, <1>3 DEF Collects
<1>5. ASSUME NEW i \in 1 .. Len(t)
      PROVE  g[i] = IF t[i].is = "data" THEN Append(g[i - 1], t[i]) ELSE g[i - 1]
  <2>1. CASE i <= Len(s)
    BY <1>1, <1>2, <2>1 DEF Collects
  <2>2. CASE i = Len(s) + 1
    BY <1>2, <1>3, <2>2
  <2> QED  BY <1>2, <2>1, <2>2
<1>6. g[Len(t)] = last(f[Len(s)])
  BY <1>2
<1> HIDE DEF g
<1>7. Collects(g, t)
  BY <1>4, <1>5 DEF Collects
<1>8. Data(t) = last(f[Len(s)])
  BY <1>2, <1>6, <1>7, DataIs
<1> QED  BY <1>3, <1>8 DEF t

-----------------------------------------------------------------------------
(* Sequences.                                                              *)

LEMMA AppendConcat ==
    ASSUME NEW S, NEW s \in Seq(S), NEW t \in Seq(S), NEW x \in S
    PROVE  s \o Append(t, x) = Append(s \o t, x)
<1>1. <<x>> \in Seq(S) /\ s \o t \in Seq(S)
  OBVIOUS
<1>2. Append(t, x) = t \o <<x>> /\ Append(s \o t, x) = (s \o t) \o <<x>>
  BY <1>1, AppendIsConcat
<1>3. (s \o t) \o <<x>> = s \o (t \o <<x>>)
  BY <1>1, ConcatAssociative
<1> QED  BY <1>2, <1>3

LEMMA LastOf ==
    ASSUME NEW S, NEW n \in Nat, NEW t \in Seq(S), Len(t) = n + 1
    PROVE  \E r \in Seq(S), x \in S :
              /\ t = Append(r, x) /\ Len(r) = n /\ x = t[n + 1]
              /\ \A i \in 1 .. n : r[i] = t[i]
<1>1. t # <<>>
  OBVIOUS
<1>2. PICK r \in Seq(S), x \in S : t = Append(r, x)
  BY <1>1, SequenceEmptyOrAppend
<1>3. Len(r) = n
  BY <1>2
<1> QED  BY <1>2, <1>3

LEMMA DataType ==
    ASSUME NEW s \in Seq(Symbol)
    PROVE  Data(s) \in Seq(Symbol)
<1>1. [is |-> "cr", n |-> 0] \in Symbol
  BY DEF Symbol
<1> QED  BY <1>1, DataAppend

LEMMA DataConcat ==
    ASSUME NEW s \in Seq(Symbol), NEW t \in Seq(Symbol)
    PROVE  Data(s \o t) = Data(s) \o Data(t)
<1> DEFINE T == {n \in Nat : \A v \in Seq(Symbol) :
                                Len(v) = n => Data(s \o v) = Data(s) \o Data(v)}
<1>1. 0 \in T
  <2>1. ASSUME NEW v \in Seq(Symbol), Len(v) = 0
        PROVE  Data(s \o v) = Data(s) \o Data(v)
    <3>1. v = <<>> /\ Data(s) \in Seq(Symbol)
      BY <2>1, DataType
    <3>2. s \o v = s /\ Data(s) \o <<>> = Data(s)
      BY <3>1, ConcatEmptySeq
    <3> QED  BY <3>1, <3>2, DataEmpty
  <2> QED  BY <2>1
<1>2. ASSUME NEW n \in Nat, n \in T
      PROVE  n + 1 \in T
  <2>1. ASSUME NEW v \in Seq(Symbol), Len(v) = n + 1
        PROVE  Data(s \o v) = Data(s) \o Data(v)
    <3>1. PICK r \in Seq(Symbol), x \in Symbol :
             v = Append(r, x) /\ Len(r) = n /\ x = v[n + 1] /\ \A i \in 1 .. n : r[i] = v[i]
      BY <2>1, LastOf
    <3>2. Data(s \o r) = Data(s) \o Data(r)
      BY <1>2, <3>1
    <3>3. s \o v = Append(s \o r, x) /\ s \o r \in Seq(Symbol)
      BY <3>1, AppendConcat
    <3>4. Data(s) \in Seq(Symbol) /\ Data(r) \in Seq(Symbol)
      BY <3>1, DataAppend
    <3>5. CASE x.is = "data"
      <4>1. /\ Data(s \o v) = Append(Data(s \o r), x)
            /\ Data(v) = Append(Data(r), x)
        <5>1. Data(s \o v) = Append(Data(s \o r), x)
          BY <3>3, <3>5, DataAppend
        <5>2. Data(v) = Append(Data(r), x)
          BY <3>1, <3>5, DataAppend
        <5> QED  BY <5>1, <5>2
      <4>2. Data(s) \o Append(Data(r), x) = Append(Data(s) \o Data(r), x)
        BY <3>4, AppendConcat
      <4> QED  BY <3>2, <4>1, <4>2
    <3>6. CASE x.is # "data"
      <4>1. Data(s \o v) = Data(s \o r)
        BY <3>3, <3>6, DataAppend
      <4>2. Data(v) = Data(r)
        BY <3>1, <3>6, DataAppend
      <4> QED  BY <3>2, <4>1, <4>2
    <3> QED  BY <3>5, <3>6
  <2> QED  BY <2>1
<1> HIDE DEF T
<1>3. Nat \subseteq T
  BY <1>1, <1>2, Induction
<1>4. Len(t) \in T
  BY <1>3
<1> QED  BY <1>4 DEF T

\* Data is data, and nothing else is.
LEMMA DataOfData ==
    ASSUME NEW s \in Seq(Symbol), \A i \in 1 .. Len(s) : s[i].is = "data"
    PROVE  Data(s) = s
<1> DEFINE T == {n \in Nat : \A v \in Seq(Symbol) :
                   Len(v) = n /\ (\A i \in 1 .. n : v[i].is = "data") => Data(v) = v}
<1>1. 0 \in T
  <2>1. ASSUME NEW v \in Seq(Symbol), Len(v) = 0
        PROVE  Data(v) = v
    <3>1. v = <<>>
      BY <2>1
    <3> QED  BY <3>1, DataEmpty
  <2> QED  BY <2>1
<1>2. ASSUME NEW n \in Nat, n \in T
      PROVE  n + 1 \in T
  <2>1. ASSUME NEW v \in Seq(Symbol), Len(v) = n + 1, \A i \in 1 .. n + 1 : v[i].is = "data"
        PROVE  Data(v) = v
    <3>1. PICK r \in Seq(Symbol), x \in Symbol :
             v = Append(r, x) /\ Len(r) = n /\ x = v[n + 1] /\ \A i \in 1 .. n : r[i] = v[i]
      BY <2>1, LastOf
    <3>2. Data(r) = r
      BY <1>2, <2>1, <3>1
    <3>3. x.is = "data"
      BY <2>1, <3>1
    <3> QED  BY <3>1, <3>2, <3>3, DataAppend
  <2> QED  BY <2>1
<1> HIDE DEF T
<1>3. Nat \subseteq T
  BY <1>1, <1>2, Induction
<1>4. Len(s) \in T
  BY <1>3
<1> QED  BY <1>4 DEF T

-----------------------------------------------------------------------------
(* A body in signed chunks.                                                *)

LEMMA IsSequence ==
    ASSUME NEW S, NEW n \in Nat, NEW f \in [1 .. n -> S]
    PROVE  f \in Seq(S) /\ Len(f) = n /\ \A i \in 1 .. n : f[i] \in S
OBVIOUS

Bytes(first, n) == [i \in 1 .. n |-> Byte(first + i)]

ChunkOf(first, n) == <<Header(n), Signature>> \o Bytes(first, n) \o <<CR, LF>>

LEMMA SymbolTypes ==
    /\ \A i \in Nat : Byte(i) \in Symbol /\ Byte(i).is = "data"
    /\ \A i \in Nat : Header(i) \in Symbol /\ Header(i).is = "header" /\ Header(i).n = i
    /\ Signature \in Symbol /\ Signature.is = "signature"
    /\ CR \in Symbol /\ CR.is = "cr"
    /\ LF \in Symbol /\ LF.is = "lf"
BY DEF Symbol, Byte, Header, Signature, CR, LF

LEMMA BytesType ==
    ASSUME NEW first \in Nat, NEW n \in Nat
    PROVE  /\ Bytes(first, n) \in Seq(Symbol)
           /\ Len(Bytes(first, n)) = n
           /\ \A i \in 1 .. n : Bytes(first, n)[i] = Byte(first + i)
           /\ \A i \in 1 .. n : Bytes(first, n)[i].is = "data"
<1>1. \A i \in 1 .. n : Byte(first + i) \in Symbol /\ Byte(first + i).is = "data"
  BY SymbolTypes
<1>2. Bytes(first, n) \in [1 .. n -> Symbol]
  BY <1>1 DEF Bytes
<1>3. \A i \in 1 .. n : Bytes(first, n)[i] = Byte(first + i)
  BY DEF Bytes
<1> HIDE DEF Bytes
<1> QED  BY <1>1, <1>2, <1>3, IsSequence

LEMMA ContentGrows ==
    ASSUME NEW first \in Nat, NEW n \in Nat
    PROVE  /\ Content(first) \in Seq(Symbol) /\ Len(Content(first)) = first
           /\ Content(first) \o Bytes(first, n) = Content(first + n)
<1>1. ASSUME NEW m \in Nat
      PROVE  /\ Content(m) \in Seq(Symbol) /\ Len(Content(m)) = m
             /\ \A i \in 1 .. m : Content(m)[i] = Byte(i)
  <2>1. Content(m) \in [1 .. m -> Symbol] /\ \A i \in 1 .. m : Content(m)[i] = Byte(i)
    BY SymbolTypes DEF Content
  <2> QED  BY <2>1, IsSequence
<1> DEFINE s == Content(first)
           t == Bytes(first, n)
           u == Content(first + n)
<1>2. /\ s \in Seq(Symbol) /\ Len(s) = first /\ \A i \in 1 .. first : s[i] = Byte(i)
      /\ u \in Seq(Symbol) /\ Len(u) = first + n /\ \A i \in 1 .. first + n : u[i] = Byte(i)
  BY <1>1
<1>3. /\ t \in Seq(Symbol) /\ Len(t) = n
      /\ \A i \in 1 .. n : t[i] = Byte(first + i)
  BY BytesType
<1> HIDE DEF s, t, u
<1>4. /\ s \o t \in Seq(Symbol) /\ Len(s \o t) = first + n
      /\ \A i \in 1 .. first + n : (s \o t)[i] = IF i <= first THEN s[i] ELSE t[i - first]
  BY <1>2, <1>3, ConcatProperties
<1>5. ASSUME NEW i \in 1 .. first + n
      PROVE  (s \o t)[i] = u[i]
  <2>1. CASE i <= first
    BY <1>2, <1>4, <2>1
  <2>2. CASE ~(i <= first)
    <3>1. (s \o t)[i] = t[i - first] /\ i - first \in 1 .. n
      BY <1>4, <2>2
    <3>2. t[i - first] = Byte(first + (i - first)) /\ first + (i - first) = i
      BY <1>3, <3>1
    <3>3. t[i - first] = Byte(i) /\ u[i] = Byte(i)
      BY <1>2, <3>2
    <3> QED  BY <3>1, <3>3
  <2> QED  BY <2>1, <2>2
<1>6. s \o t = u
  BY <1>2, <1>4, <1>5, SeqEqual
<1> QED  BY <1>2, <1>6 DEF s, t, u

LEMMA ChunkSymbols ==
    ASSUME NEW first \in Nat, NEW n \in Nat
    PROVE  LET c == ChunkOf(first, n)
           IN  /\ c \in Seq(Symbol) /\ Len(c) = n + 4
               /\ c[1] = Header(n) /\ c[2] = Signature
               /\ \A j \in 1 .. n : c[2 + j].is = "data"
               /\ c[n + 3] = CR /\ c[n + 4] = LF
               /\ Data(c) = Bytes(first, n)
<1> DEFINE h == <<Header(n), Signature>>
           t == Bytes(first, n)
           e == <<CR, LF>>
<1>1. h \in Seq(Symbol) /\ Len(h) = 2 /\ h[1] = Header(n) /\ h[2] = Signature
  BY SymbolTypes
<1>2. e \in Seq(Symbol) /\ Len(e) = 2 /\ e[1] = CR /\ e[2] = LF
  BY SymbolTypes
<1>3. t \in Seq(Symbol) /\ Len(t) = n /\ \A i \in 1 .. n : t[i].is = "data"
  BY BytesType
<1>4. Data(h) = <<>>
  <2>1. h = Append(Append(<<>>, Header(n)), Signature)
    OBVIOUS
  <2>2. Append(<<>>, Header(n)) \in Seq(Symbol) /\ <<>> \in Seq(Symbol)
    BY SymbolTypes
  <2>3. Header(n) \in Symbol /\ Header(n).is # "data" /\ Signature \in Symbol /\ Signature.is # "data"
    BY SymbolTypes
  <2>4. Data(Append(<<>>, Header(n))) = <<>>
    BY <2>2, <2>3, DataAppend, DataEmpty
  <2> QED  BY <2>1, <2>2, <2>3, <2>4, DataAppend
<1>5. Data(e) = <<>>
  <2>1. e = Append(Append(<<>>, CR), LF)
    OBVIOUS
  <2>2. Append(<<>>, CR) \in Seq(Symbol) /\ <<>> \in Seq(Symbol)
    BY SymbolTypes
  <2>3. CR \in Symbol /\ CR.is # "data" /\ LF \in Symbol /\ LF.is # "data"
    BY SymbolTypes
  <2>4. Data(Append(<<>>, CR)) = <<>>
    BY <2>2, <2>3, DataAppend, DataEmpty
  <2> QED  BY <2>1, <2>2, <2>3, <2>4, DataAppend
<1>6. Data(t) = t
  BY <1>3, DataOfData
<1>7. ChunkOf(first, n) = (h \o t) \o e
  BY DEF ChunkOf
<1> HIDE DEF h, t, e
<1>8. h \o t \in Seq(Symbol) /\ Len(h \o t) = n + 2
      /\ \A i \in 1 .. n + 2 : (h \o t)[i] = IF i <= 2 THEN h[i] ELSE t[i - 2]
  <2>1. /\ h \o t \in Seq(Symbol) /\ Len(h \o t) = Len(h) + Len(t)
        /\ \A i \in 1 .. Len(h) + Len(t) :
              (h \o t)[i] = IF i <= Len(h) THEN h[i] ELSE t[i - Len(h)]
    BY <1>1, <1>3, ConcatProperties
  <2>2. Len(h) + Len(t) = n + 2
    BY <1>1, <1>3
  <2> QED  BY <1>1, <2>1, <2>2
<1>9. (h \o t) \o e \in Seq(Symbol) /\ Len((h \o t) \o e) = n + 4
      /\ \A i \in 1 .. n + 4 : ((h \o t) \o e)[i] = IF i <= n + 2 THEN (h \o t)[i] ELSE e[i - (n + 2)]
  <2> DEFINE a == h \o t
  <2>1. a \in Seq(Symbol) /\ Len(a) = n + 2
    BY <1>8
  <2> HIDE DEF a
  <2>2. /\ a \o e \in Seq(Symbol) /\ Len(a \o e) = Len(a) + Len(e)
        /\ \A i \in 1 .. Len(a) + Len(e) :
              (a \o e)[i] = IF i <= Len(a) THEN a[i] ELSE e[i - Len(a)]
    BY <1>2, <2>1, ConcatProperties
  <2>3. Len(a) + Len(e) = n + 4
    BY <1>2, <2>1
  <2>4. /\ a \o e \in Seq(Symbol) /\ Len(a \o e) = n + 4
        /\ \A i \in 1 .. n + 4 : (a \o e)[i] = IF i <= n + 2 THEN a[i] ELSE e[i - (n + 2)]
    BY <2>1, <2>2, <2>3
  <2> QED  BY <2>4 DEF a
<1>10. Data((h \o t) \o e) = t
  <2>1. Data(h \o t) = Data(h) \o Data(t)
    BY <1>1, <1>3, DataConcat
  <2>2. Data((h \o t) \o e) = Data(h \o t) \o Data(e)
    BY <1>2, <1>8, DataConcat
  <2>3. <<>> \o t = t /\ t \o <<>> = t
    BY <1>3, ConcatEmptySeq
  <2> QED  BY <1>4, <1>5, <1>6, <2>1, <2>2, <2>3
<1> DEFINE c == (h \o t) \o e
<1>11. /\ c[1] = Header(n) /\ c[2] = Signature
       /\ \A j \in 1 .. n : c[2 + j] = t[j]
       /\ c[n + 3] = CR /\ c[n + 4] = LF
  <2> DEFINE a == h \o t
  <2>4. /\ \A i \in 1 .. n + 2 : a[i] = IF i <= 2 THEN h[i] ELSE t[i - 2]
        /\ \A i \in 1 .. n + 4 : c[i] = IF i <= n + 2 THEN a[i] ELSE e[i - (n + 2)]
    BY <1>8, <1>9
  <2> HIDE DEF a, c
  <2>1. c[1] = h[1] /\ c[2] = h[2]
    BY <2>4
  <2>2. c[n + 3] = e[1] /\ c[n + 4] = e[2]
    BY <2>4
  <2>3. ASSUME NEW j \in 1 .. n
        PROVE  c[2 + j] = t[j]
    <3>1. 2 + j \in 1 .. n + 4 /\ 2 + j <= n + 2 /\ 2 + j \in 1 .. n + 2 /\ ~(2 + j <= 2)
      OBVIOUS
    <3>2. c[2 + j] = a[2 + j] /\ a[2 + j] = t[(2 + j) - 2]
      BY <2>4, <3>1
    <3> QED  BY <3>2
  <2> QED  BY <1>1, <1>2, <2>1, <2>2, <2>3
<1>12. \A j \in 1 .. n : c[2 + j].is = "data"
  BY <1>3, <1>11
<1> HIDE DEF c
<1>13. ChunkOf(first, n) = c /\ Data(c) = Bytes(first, n) /\ c \in Seq(Symbol) /\ Len(c) = n + 4
  BY <1>7, <1>9, <1>10 DEF c, t
<1> QED  BY <1>11, <1>12, <1>13

\* A sequence of chunks: a header is followed by a signature, as many bytes as
\* it says, and the end of a chunk.
Streamed(b) ==
    /\ b \in Seq(Symbol)
    /\ b # <<>> => b[1].is = "header"
    /\ \A i \in 1 .. Len(b) : b[i].is = "header" =>
          i + 1 <= Len(b) /\ b[i + 1].is = "signature" /\ EndOfChunk(b, i + 1, b[i].n)

LEMMA AddChunk ==
    ASSUME NEW b, Streamed(b), NEW first \in Nat, NEW n \in Nat
    PROVE  /\ Streamed(b \o ChunkOf(first, n))
           /\ b \o ChunkOf(first, n) # <<>>
           /\ Data(b \o ChunkOf(first, n)) = Data(b) \o Bytes(first, n)
<1> DEFINE c == ChunkOf(first, n)
           m == Len(b)
           d == b \o c
<1>1. /\ c \in Seq(Symbol) /\ Len(c) = n + 4
      /\ c[1].is = "header" /\ c[1].n = n /\ c[2].is = "signature"
      /\ \A j \in 1 .. n : c[2 + j].is = "data"
      /\ c[n + 3].is = "cr" /\ c[n + 4].is = "lf"
      /\ Data(c) = Bytes(first, n)
  <2>1. /\ c \in Seq(Symbol) /\ Len(c) = n + 4
        /\ c[1] = Header(n) /\ c[2] = Signature
        /\ \A j \in 1 .. n : c[2 + j].is = "data"
        /\ c[n + 3] = CR /\ c[n + 4] = LF
        /\ Data(c) = Bytes(first, n)
    BY ChunkSymbols
  <2> HIDE DEF c
  <2> QED  BY <2>1, SymbolTypes
<1>2. b \in Seq(Symbol) /\ m \in Nat /\ \A i \in 1 .. m : b[i] \in Symbol /\ b[i].n \in Nat
  <2>1. b \in Seq(Symbol)
    BY DEF Streamed
  <2>2. m \in Nat /\ \A i \in 1 .. m : b[i] \in Symbol
    BY <2>1
  <2>3. \A x \in Symbol : x.n \in Nat
    BY DEF Symbol
  <2> QED  BY <2>1, <2>2, <2>3
<1> HIDE DEF c
<1>3. Data(d) = Data(b) \o Bytes(first, n)
  BY <1>1, <1>2, DataConcat
<1>4. /\ d \in Seq(Symbol) /\ Len(d) = m + Len(c)
      /\ \A i \in 1 .. m + Len(c) : d[i] = IF i <= m THEN b[i] ELSE c[i - m]
  <2>1. b \in Seq(Symbol) /\ c \in Seq(Symbol)
    BY <1>1, <1>2
  <2> QED  BY <2>1, ConcatProperties
<1> HIDE DEF d
<1>5. Len(d) = m + n + 4 /\ \A i \in 1 .. m : d[i] = b[i]
  BY <1>1, <1>2, <1>4
<1>6. \A k \in 1 .. n + 4 : d[m + k] = c[k]
  <2>1. ASSUME NEW k \in 1 .. n + 4
        PROVE  d[m + k] = c[k]
    <3>1. m + k \in 1 .. m + Len(c) /\ ~(m + k <= m) /\ (m + k) - m = k
      BY <1>1, <1>2
    <3> QED  BY <1>4, <3>1
  <2> QED  BY <2>1
<1> HIDE DEF m
<1>7. d # <<>> /\ d[1].is = "header"
  <2>1. d # <<>>
    BY <1>2, <1>5
  <2>2. CASE m = 0
    <3>1. d[m + 1] = c[1] /\ m + 1 = 1
      BY <1>6, <2>2
    <3> QED  BY <1>1, <2>1, <3>1
  <2>3. CASE m # 0
    <3>1. d[1] = b[1] /\ b # <<>>
      BY <1>2, <1>5, <2>3 DEF m
    <3> QED  BY <2>1, <3>1 DEF Streamed
  <2> QED  BY <2>2, <2>3
<1>8. ASSUME NEW i \in 1 .. Len(d), d[i].is = "header"
      PROVE  i + 1 <= Len(d) /\ d[i + 1].is = "signature" /\ EndOfChunk(d, i + 1, d[i].n)
  <2>1. CASE i <= m
    <3>1. d[i] = b[i] /\ b[i].n \in Nat
      BY <1>2, <1>5, <2>1
    <3>2. i + 1 <= m /\ b[i + 1].is = "signature" /\ EndOfChunk(b, i + 1, b[i].n)
      BY <1>8, <2>1, <3>1 DEF Streamed, m
    <3>3. d[i + 1] = b[i + 1]
      BY <1>5, <3>2
    <3> DEFINE r == b[i].n
    <3>4. r \in Nat
      BY <3>1
    <3>5. /\ i + 1 + r + 2 <= m
          /\ \A j \in 1 .. r : b[i + 1 + j].is = "data"
          /\ b[i + 1 + r + 1].is = "cr" /\ b[i + 1 + r + 2].is = "lf"
          /\ i + 1 + r + 2 = m \/ b[i + 1 + r + 3].is = "header"
      BY <3>2 DEF EndOfChunk, m
    <3>10. d[i].n = r
      BY <3>1
    <3> HIDE DEF r
    <3>11. i \in Nat
      BY <1>2, <1>5
    <3>6. \A j \in 1 .. r + 2 : d[i + 1 + j] = b[i + 1 + j]
      BY <1>2, <1>5, <3>4, <3>5, <3>11
    <3>7. d[i + 1 + r + 1] = b[i + 1 + r + 1] /\ d[i + 1 + r + 2] = b[i + 1 + r + 2]
      <4>1. /\ i + 1 + r + 1 \in 1 .. m /\ i + 1 + r + 2 \in 1 .. m
        BY <1>2, <3>4, <3>5, <3>11
      <4> QED  BY <1>5, <4>1
    <3>8. i + 1 + r + 3 <= Len(d) /\ d[i + 1 + r + 3].is = "header"
      <4>1. CASE i + 1 + r + 2 = m
        <5>1. d[m + 1] = c[1] /\ i + 1 + r + 3 = m + 1
          BY <1>2, <1>6, <3>4, <4>1
        <5> QED  BY <1>1, <1>2, <1>5, <5>1
      <4>2. CASE i + 1 + r + 2 # m
        <5>1. i + 1 + r + 3 \in 1 .. m
          <6>1. i + 1 + r + 2 <= m /\ m \in Nat
            BY <1>2, <3>5
          <6> QED  BY <3>4, <3>11, <4>2, <6>1
        <5>2. d[i + 1 + r + 3] = b[i + 1 + r + 3]
          BY <1>5, <5>1
        <5> QED  BY <1>2, <1>5, <3>5, <4>2, <5>1, <5>2
      <4> QED  BY <4>1, <4>2
    <3>9. EndOfChunk(d, i + 1, r)
      <4>1. \A j \in 1 .. r : d[i + 1 + j].is = "data"
        <5>1. \A j \in 1 .. r : j \in 1 .. r + 2
          BY <3>4
        <5> QED  BY <3>5, <3>6, <5>1
      <4>2. i + 1 + r + 2 <= Len(d)
        BY <1>2, <1>5, <3>4, <3>5, <3>11
      <4> QED  BY <3>5, <3>7, <3>8, <4>1, <4>2 DEF EndOfChunk
    <3> QED  BY <1>2, <1>5, <3>2, <3>3, <3>9, <3>10
  <2>2. CASE ~(i <= m)
    <3>1. PICK k \in 1 .. n + 4 : i = m + k
      <4>1. i - m \in 1 .. n + 4 /\ i = m + (i - m)
        BY <1>2, <1>5, <2>2
      <4> QED  BY <4>1
    <3>2. c[k].is = "header"
      BY <1>6, <1>8, <3>1
    <3>3. k = 1
      <4>1. k # 2 /\ k # n + 3 /\ k # n + 4
        BY <1>1, <3>2
      <4>2. ASSUME k \in 3 .. n + 2
            PROVE  FALSE
        <5>1. k - 2 \in 1 .. n /\ 2 + (k - 2) = k
          BY <4>2
        <5>2. c[2 + (k - 2)].is = "data"
          BY <1>1, <5>1
        <5> QED  BY <3>2, <5>1, <5>2
      <4> QED  BY <4>1, <4>2
    <3>4. d[i] = c[1] /\ d[i].n = n
      BY <1>1, <1>6, <3>1, <3>3
    <3>5. d[i + 1] = c[2] /\ i + 1 = m + 2
      BY <1>2, <1>6, <3>1, <3>3
    <3>6. \A j \in 1 .. n : d[i + 1 + j].is = "data"
      <4>1. ASSUME NEW j \in 1 .. n
            PROVE  d[i + 1 + j].is = "data"
        <5>1. i + 1 + j = m + (2 + j) /\ 2 + j \in 1 .. n + 4
          BY <1>2, <3>1, <3>3
        <5> QED  BY <1>1, <1>6, <5>1
      <4> QED  BY <4>1
    <3>7. /\ i + 1 + n + 1 = m + (n + 3) /\ i + 1 + n + 2 = m + (n + 4)
          /\ n + 3 \in 1 .. n + 4 /\ n + 4 \in 1 .. n + 4
          /\ i + 1 + n + 2 = Len(d)
      BY <1>2, <1>5, <3>1, <3>3
    <3>8. d[i + 1 + n + 1] = c[n + 3] /\ d[i + 1 + n + 2] = c[n + 4]
      BY <1>6, <3>7
    <3>9. EndOfChunk(d, i + 1, n)
      BY <1>1, <1>2, <1>5, <3>1, <3>6, <3>7, <3>8 DEF EndOfChunk
    <3> QED  BY <1>1, <1>2, <1>5, <3>1, <3>3, <3>4, <3>5, <3>9
  <2> QED  BY <2>1, <2>2
<1>9. Streamed(d)
  BY <1>4, <1>7, <1>8 DEF Streamed
<1> QED  BY <1>3, <1>7, <1>9 DEF c, d

\* The chunks of the first sizes.
Joins(f, sizes) ==
    /\ f \in [0 .. Len(sizes) -> Seq(Symbol)]
    /\ f[0] = <<>>
    /\ \A j \in 1 .. Len(sizes) :
          f[j] = f[j - 1] \o ChunkOf(Total(SubSeq(sizes, 1, j - 1)), sizes[j])

LEMMA Prefixes ==
    ASSUME NEW s \in Seq(Nat)
    PROVE  /\ \A j \in 0 .. Len(s) : SubSeq(s, 1, j) \in Seq(Nat) /\ Total(SubSeq(s, 1, j)) \in Nat
           /\ \A j \in 1 .. Len(s) :
                 Total(SubSeq(s, 1, j)) = Total(SubSeq(s, 1, j - 1)) + s[j]
           /\ Total(SubSeq(s, 1, 0)) = 0
           /\ SubSeq(s, 1, Len(s)) = s
<1>1. Len(s) \in Nat /\ \A i \in 1 .. Len(s) : s[i] \in Nat
  OBVIOUS
<1>2. ASSUME NEW j \in 0 .. Len(s)
      PROVE  SubSeq(s, 1, j) \in Seq(Nat) /\ Total(SubSeq(s, 1, j)) \in Nat
  <2>1. SubSeq(s, 1, j) \in Seq(Nat) /\ 0 \in Nat
    BY <1>1, SubSeqProperties
  <2> QED  BY <2>1, TotalAppend
<1>3. ASSUME NEW j \in 1 .. Len(s)
      PROVE  Total(SubSeq(s, 1, j)) = Total(SubSeq(s, 1, j - 1)) + s[j]
  <2>1. j - 1 \in 0 .. Len(s) /\ s[j] \in Nat /\ 1 \in 1 .. Len(s) /\ j \in 1 .. Len(s)
    BY <1>1
  <2> DEFINE t == SubSeq(s, 1, j - 1)
  <2>2. t \in Seq(Nat)
    BY <1>2, <2>1
  <2>3. SubSeq(s, 1, j) = t \o <<s[j]>>
    BY <2>1, SubSeqRecursiveSecond
  <2> HIDE DEF t
  <2>4. t \o <<s[j]>> = Append(t, s[j])
    BY <2>1, <2>2, AppendIsConcat
  <2>5. Total(Append(t, s[j])) = Total(t) + s[j]
    BY <2>1, <2>2, TotalAppend
  <2> QED  BY <2>3, <2>4, <2>5 DEF t
<1>4. SubSeq(s, 1, 0) = <<>>
  BY SubSeqEmpty
<1>5. SubSeq(s, 1, Len(s)) = s
  BY SubSeqFull
<1> QED  BY <1>2, <1>3, <1>4, <1>5, TotalEmpty

LEMMA JoinsExist ==
    ASSUME NEW s \in Seq(Nat)
    PROVE  \E f : Joins(f, s)
<1> DEFINE V == Seq(Symbol)
           empty == <<>>
           c == [j \in 1 .. Len(s) |-> ChunkOf(Total(SubSeq(s, 1, j - 1)), s[j])]
           step == [x \in Nat \X V |-> IF x[1] \in 1 .. Len(s) THEN x[2] \o c[x[1]] ELSE x[2]]
<1>1. Len(s) \in Nat /\ empty \in V
  OBVIOUS
<1>2. \A j \in 1 .. Len(s) : c[j] \in V
  <2>1. ASSUME NEW j \in 1 .. Len(s)
        PROVE  c[j] \in V
    <3>1. j - 1 \in 0 .. Len(s) /\ s[j] \in Nat
      OBVIOUS
    <3>2. Total(SubSeq(s, 1, j - 1)) \in Nat
      BY <3>1, Prefixes
    <3> QED  BY <3>1, <3>2, ChunkSymbols
  <2> QED  BY <2>1
<1>3. \A v, w \in V : v \o w \in V
  OBVIOUS
<1>4. \A j \in 1 .. Len(s) : c[j] = ChunkOf(Total(SubSeq(s, 1, j - 1)), s[j])
  OBVIOUS
<1> HIDE DEF V, empty, c
<1>5. step \in [Nat \X V -> V]
  BY <1>2, <1>3
<1>6. \A j \in 1 .. Len(s) : \A v \in V : step[<<j, v>>] = v \o c[j]
  <2>1. ASSUME NEW j \in 1 .. Len(s), NEW v \in V
        PROVE  step[<<j, v>>] = v \o c[j]
    <3> DEFINE x == <<j, v>>
    <3>1. x \in Nat \X V /\ x[1] = j /\ x[2] = v
      BY <1>1
    <3> HIDE DEF x
    <3>2. step[x] = IF x[1] \in 1 .. Len(s) THEN x[2] \o c[x[1]] ELSE x[2]
      BY <3>1, Zenon
    <3>3. step[x] = x[2] \o c[x[1]]
      BY <3>1, <3>2, Zenon
    <3>4. step[x] = v \o c[j]
      BY <3>1, <3>3, Zenon
    <3> QED  BY <3>4 DEF x
  <2> QED  BY <2>1
<1> HIDE DEF step
<1>7. PICK f : Steps(f, V, empty, step, Len(s))
  BY <1>1, <1>5, Recursion
<1>8. /\ f \in [0 .. Len(s) -> V] /\ f[0] = empty
      /\ \A j \in 1 .. Len(s) : f[j] = step[<<j, f[j - 1]>>]
  BY <1>7 DEF Steps
<1>9. \A j \in 1 .. Len(s) : f[j - 1] \in V
  <2>1. f \in [0 .. Len(s) -> V] /\ \A j \in 1 .. Len(s) : j - 1 \in 0 .. Len(s)
    BY <1>1, <1>8
  <2> QED  BY <2>1
<1>10. \A j \in 1 .. Len(s) : f[j] = f[j - 1] \o c[j]
  BY <1>6, <1>8, <1>9
<1>11. Joins(f, s)
  BY <1>4, <1>8, <1>10 DEF Joins, V, empty
<1> QED  BY <1>11

LEMMA ChunksAre ==
    ASSUME NEW s \in Seq(Nat), NEW f, Joins(f, s)
    PROVE  Chunks(s) = f[Len(s)] \o ChunkOf(0, 0)
<1> DEFINE upTo[j \in 0 .. Len(s)] ==
               IF j = 0 THEN <<>>
               ELSE upTo[j - 1] \o ChunkOf(Total(SubSeq(s, 1, j - 1)), s[j])
           c == [j \in 1 .. Len(s) |-> ChunkOf(Total(SubSeq(s, 1, j - 1)), s[j])]
<1>1. Chunks(s) = upTo[Len(s)] \o ChunkOf(0, 0)
  BY DEF Chunks, ChunkOf, Bytes
<1>2. f = [j \in 0 .. Len(s) |->
              IF j = 0 THEN <<>>
              ELSE f[j - 1] \o ChunkOf(Total(SubSeq(s, 1, j - 1)), s[j])]
  <2> DEFINE g == [j \in 0 .. Len(s) |->
                      IF j = 0 THEN <<>>
                      ELSE f[j - 1] \o ChunkOf(Total(SubSeq(s, 1, j - 1)), s[j])]
  <2>1. ASSUME NEW i \in 0 .. Len(s)
        PROVE  f[i] = g[i]
    <3>1. CASE i = 0
      BY <3>1 DEF Joins
    <3>2. CASE i # 0
      <4>1. i \in 1 .. Len(s)
        BY <3>2
      <4>2. f[i] = f[i - 1] \o ChunkOf(Total(SubSeq(s, 1, i - 1)), s[i])
        BY <4>1 DEF Joins
      <4> QED  BY <3>2, <4>2
    <3> QED  BY <3>1, <3>2
  <2>2. f \in [0 .. Len(s) -> Seq(Symbol)] /\ g = [j \in 0 .. Len(s) |-> g[j]]
    BY DEF Joins
  <2>3. f = [j \in 0 .. Len(s) |-> f[j]]
    BY <2>2
  <2> HIDE DEF g
  <2>4. f = g
    BY <2>1, <2>2, <2>3
  <2> QED  BY <2>4 DEF g
<1>3. upTo = [j \in 0 .. Len(s) |->
                 IF j = 0 THEN <<>>
                 ELSE upTo[j - 1] \o ChunkOf(Total(SubSeq(s, 1, j - 1)), s[j])]
  BY <1>2
<1> HIDE DEF upTo
<1>4. f[0] = <<>> /\ upTo[0] = <<>>
  BY <1>2, <1>3
<1>5. \A j \in 1 .. Len(s) : f[j] = f[j - 1] \o c[j] /\ upTo[j] = upTo[j - 1] \o c[j]
  <2>1. ASSUME NEW j \in 1 .. Len(s)
        PROVE  f[j] = f[j - 1] \o c[j] /\ upTo[j] = upTo[j - 1] \o c[j]
    <3>1. j \in 0 .. Len(s) /\ j # 0
      OBVIOUS
    <3>2. c[j] = ChunkOf(Total(SubSeq(s, 1, j - 1)), s[j])
      OBVIOUS
    <3>3. f[j] = f[j - 1] \o ChunkOf(Total(SubSeq(s, 1, j - 1)), s[j])
      BY <1>2, <3>1, Zenon
    <3>4. upTo[j] = upTo[j - 1] \o ChunkOf(Total(SubSeq(s, 1, j - 1)), s[j])
      BY <1>3, <3>1, Zenon
    <3> HIDE DEF c
    <3> QED  BY <3>2, <3>3, <3>4, Zenon
  <2> QED  BY <2>1
<1> HIDE DEF c
<1> DEFINE T == {m \in Nat : m <= Len(s) => upTo[m] = f[m]}
<1>6. 0 \in T
  BY <1>4
<1>7. ASSUME NEW m \in Nat, m \in T
      PROVE  m + 1 \in T
  <2>1. CASE m + 1 <= Len(s)
    <3>1. upTo[m] = f[m] /\ m + 1 \in 1 .. Len(s) /\ (m + 1) - 1 = m
      BY <1>7, <2>1
    <3>2. f[m + 1] = f[m] \o c[m + 1] /\ upTo[m + 1] = upTo[m] \o c[m + 1]
      BY <1>5, <3>1
    <3>3. upTo[m + 1] = f[m + 1]
      BY <3>1, <3>2, Zenon
    <3> QED  BY <3>3
  <2> QED  BY <2>1
<1> HIDE DEF T
<1>8. Nat \subseteq T
  BY <1>6, <1>7, Induction
<1>9. Len(s) \in T
  BY <1>8
<1>10. upTo[Len(s)] = f[Len(s)]
  BY <1>9 DEF T
<1> QED  BY <1>1, <1>10, Zenon

\* A signed body is chunks, and its content is the content that was signed.
LEMMA ChunksFacts ==
    ASSUME NEW s \in Seq(Nat)
    PROVE  /\ Streamed(Chunks(s))
           /\ Chunks(s) # <<>>
           /\ Data(Chunks(s)) = Content(Total(s))
<1>1. PICK f : Joins(f, s)
  BY JoinsExist
<1> DEFINE T == {m \in Nat : m <= Len(s) =>
                    Streamed(f[m]) /\ Data(f[m]) = Content(Total(SubSeq(s, 1, m)))}
<1>2. 0 \in T
  <2>1. f[0] = <<>>
    BY <1>1 DEF Joins
  <2>2. Streamed(<<>>)
    BY DEF Streamed
  <2>3. Content(0) = <<>>
    <3>1. Content(0) \in Seq(Symbol) /\ Len(Content(0)) = 0
      BY ContentGrows
    <3> QED  BY <3>1
  <2>4. Total(SubSeq(s, 1, 0)) = 0
    BY Prefixes
  <2> QED  BY <2>1, <2>2, <2>3, <2>4, DataEmpty
<1>3. ASSUME NEW m \in Nat, m \in T
      PROVE  m + 1 \in T
  <2>1. CASE m + 1 <= Len(s)
    <3> DEFINE t == Total(SubSeq(s, 1, m))
               n == s[m + 1]
    <3>1. /\ m + 1 \in 1 .. Len(s) /\ m \in 0 .. Len(s) /\ (m + 1) - 1 = m
          /\ Streamed(f[m]) /\ Data(f[m]) = Content(t)
      BY <1>3, <2>1
    <3>2. t \in Nat /\ n \in Nat /\ Total(SubSeq(s, 1, m + 1)) = t + n
      BY <3>1, Prefixes
    <3>3. f[m + 1] = f[m] \o ChunkOf(t, n)
      BY <1>1, <3>1 DEF Joins
    <3> HIDE DEF t, n
    <3>4. Streamed(f[m + 1]) /\ Data(f[m + 1]) = Data(f[m]) \o Bytes(t, n)
      <4>1. /\ Streamed(f[m] \o ChunkOf(t, n))
            /\ Data(f[m] \o ChunkOf(t, n)) = Data(f[m]) \o Bytes(t, n)
        BY <3>1, <3>2, AddChunk
      <4> QED  BY <3>3, <4>1, Zenon
    <3>5. Content(t) \o Bytes(t, n) = Content(t + n)
      BY <3>2, ContentGrows
    <3>6. Data(f[m + 1]) = Content(Total(SubSeq(s, 1, m + 1)))
      BY <3>1, <3>2, <3>4, <3>5, Zenon
    <3> QED  BY <3>4, <3>6
  <2> QED  BY <2>1
<1> HIDE DEF T
<1>4. Nat \subseteq T
  BY <1>2, <1>3, Induction
<1>5. Len(s) \in T
  BY <1>4
<1> DEFINE b == f[Len(s)]
<1>6. Streamed(b) /\ Data(b) = Content(Total(s))
  <2>1. SubSeq(s, 1, Len(s)) = s
    BY Prefixes
  <2>2. Streamed(b) /\ Data(b) = Content(Total(SubSeq(s, 1, Len(s))))
    BY <1>5 DEF T
  <2> HIDE DEF b
  <2> QED  BY <2>1, <2>2, Zenon
<1>7. Chunks(s) = b \o ChunkOf(0, 0)
  BY <1>1, ChunksAre
<1> HIDE DEF b
<1>8. /\ Streamed(b \o ChunkOf(0, 0)) /\ b \o ChunkOf(0, 0) # <<>>
      /\ Data(b \o ChunkOf(0, 0)) = Data(b) \o Bytes(0, 0)
  BY <1>6, AddChunk
<1>9. Data(b) \o Bytes(0, 0) = Data(b)
  <2>1. Bytes(0, 0) \in Seq(Symbol) /\ Len(Bytes(0, 0)) = 0
    BY BytesType
  <2>2. Bytes(0, 0) = <<>>
    BY <2>1
  <2>3. Data(b) \in Seq(Symbol)
    BY <1>6, DataType DEF Streamed
  <2>4. Data(b) \o <<>> = Data(b)
    BY <2>3, ConcatEmptySeq
  <2> QED  BY <2>2, <2>4, Zenon
<1> QED  BY <1>6, <1>7, <1>8, <1>9, Zenon

-----------------------------------------------------------------------------
(* Bodies.                                                                 *)

LEMMA UploadFacts ==
    ASSUME NEW u \in Uploads
    PROVE  /\ u.sizes \in Seq(Nat) /\ u.missing \in Nat /\ u.declared \in Int
           /\ u.signed \in BOOLEAN
           /\ u.ending \in {"eof", "broken"} /\ u.store \in {"memory", "disk", "part"}
           /\ u.via \in {"object", "browser", "part"}
           /\ u.digest \in {"none", "right", "wrong", "invalid"}
           /\ WellFormed(u) /\ u.declared <= MaxInt
           /\ Total(u.sizes) \in Nat /\ Total(u.sizes) <= MaxInt
<1>1. u \in Upload(Seq(Nat), Nat, Int) /\ WellFormed(u) /\ u.declared <= MaxInt /\ Total(u.sizes) <= MaxInt
  BY StreamsAssumption
<1>2. u.sizes \in Seq(Nat)
  BY <1>1 DEF Upload
<1>3. Total(u.sizes) \in Nat
  BY <1>2, TotalAppend, 0 \in Nat
<1> QED  BY <1>1, <1>3 DEF Upload

LEMMA BodyFacts ==
    ASSUME NEW u \in Uploads
    PROVE  /\ Body(u) \in Seq(Symbol)
           /\ u.signed => /\ Streamed(Body(u)) /\ Body(u) # <<>>
                          /\ Data(Body(u)) = Content(Total(u.sizes))
           /\ ~u.signed => Body(u) = Content(Total(u.sizes))
           /\ Sent(u) \in Seq(Symbol)
           /\ Len(Sent(u)) = Len(Body(u)) - u.missing
           /\ Len(Sent(u)) \in 0 .. Len(Body(u))
           /\ \A i \in 1 .. Len(Sent(u)) : Sent(u)[i] = Body(u)[i]
           /\ u.missing = 0 => Sent(u) = Body(u)
<1>1. u.sizes \in Seq(Nat) /\ Total(u.sizes) \in Nat /\ u.missing \in Nat
      /\ u.missing <= Len(Body(u)) /\ u.signed \in BOOLEAN
  BY UploadFacts DEF WellFormed
<1> DEFINE b == Body(u)
<1>2. ASSUME u.signed
      PROVE  /\ b \in Seq(Symbol) /\ Streamed(b) /\ b # <<>>
             /\ Data(b) = Content(Total(u.sizes))
  <2>1. b = Chunks(u.sizes)
    BY <1>2 DEF Body
  <2> HIDE DEF b
  <2>2. Streamed(b) /\ b # <<>> /\ Data(b) = Content(Total(u.sizes))
    BY <1>1, <2>1, ChunksFacts
  <2> QED  BY <2>2 DEF Streamed
<1>3. ASSUME ~u.signed
      PROVE  b \in Seq(Symbol) /\ b = Content(Total(u.sizes))
  <2>1. b = Content(Total(u.sizes))
    BY <1>3 DEF Body
  <2> HIDE DEF b
  <2> QED  BY <1>1, <2>1, ContentGrows, 0 \in Nat
<1> HIDE DEF b
<1>4. /\ b \in Seq(Symbol)
      /\ u.signed => /\ Streamed(b) /\ b # <<>>
                     /\ Data(b) = Content(Total(u.sizes))
      /\ ~u.signed => b = Content(Total(u.sizes))
  BY <1>2, <1>3
<1>5. Sent(u) = SubSeq(b, 1, Len(b) - u.missing)
  BY DEF Sent, b
<1>6. u.missing <= Len(b)
  BY <1>1 DEF b
<1>7. Len(b) \in Nat /\ (\A i \in 1 .. Len(b) : b[i] \in Symbol) /\ SubSeq(b, 1, Len(b)) = b
  <2>1. b \in Seq(Symbol)
    BY <1>4
  <2>2. Len(b) \in Nat /\ (\A i \in 1 .. Len(b) : b[i] \in Symbol)
    BY <2>1
  <2> QED  BY <2>1, <2>2, SubSeqFull
<1> DEFINE n == Len(b) - u.missing
<1>8. n \in 0 .. Len(b) /\ n \in Int /\ 1 \in Int /\ \A i \in 1 .. n : b[i] \in Symbol
  BY <1>1, <1>6, <1>7
<1>9. u.missing = 0 => n = Len(b)
  BY <1>7
<1> HIDE DEF n
<1>10. /\ SubSeq(b, 1, n) \in Seq(Symbol)
       /\ Len(SubSeq(b, 1, n)) = IF 1 <= n THEN n - 1 + 1 ELSE 0
       /\ \A i \in 1 .. n - 1 + 1 : SubSeq(b, 1, n)[i] = b[1 + i - 1]
  BY <1>8, SubSeqProperties
<1>11. /\ SubSeq(b, 1, n) \in Seq(Symbol)
       /\ Len(SubSeq(b, 1, n)) = n
       /\ \A i \in 1 .. n : SubSeq(b, 1, n)[i] = b[i]
  BY <1>8, <1>10
<1>12. Sent(u) = SubSeq(b, 1, n)
  BY <1>5 DEF n
<1>13. u.missing = 0 => Sent(u) = b
  BY <1>7, <1>9, <1>12
<1>14. /\ Sent(u) \in Seq(Symbol) /\ Len(Sent(u)) = n
       /\ \A i \in 1 .. Len(Sent(u)) : Sent(u)[i] = b[i]
  BY <1>11, <1>12
<1> QED  BY <1>4, <1>8, <1>13, <1>14 DEF b, n

-----------------------------------------------------------------------------
(* What has been read of a sequence, and what is left of it.               *)

LEMMA Slice ==
    ASSUME NEW S, NEW s \in Seq(S), NEW p \in 1 .. Len(s) + 1, NEW q \in p - 1 .. Len(s)
    PROVE  /\ SubSeq(s, p, q) \in Seq(S)
           /\ Len(SubSeq(s, p, q)) = q - p + 1
           /\ \A i \in 1 .. q - p + 1 : SubSeq(s, p, q)[i] = s[p + i - 1]
<1>1. p \in Int /\ q \in Int /\ \A i \in p .. q : s[i] \in S
  OBVIOUS
<1>2. /\ SubSeq(s, p, q) \in Seq(S)
      /\ Len(SubSeq(s, p, q)) = IF p <= q THEN q - p + 1 ELSE 0
      /\ \A i \in 1 .. q - p + 1 : SubSeq(s, p, q)[i] = s[p + i - 1]
  BY <1>1, SubSeqProperties
<1> QED  BY <1>1, <1>2

LEMMA Rest ==
    ASSUME NEW S, NEW s \in Seq(S), NEW p \in 0 .. Len(s), NEW w, w = SubSeq(s, p + 1, Len(s))
    PROVE  /\ w \in Seq(S) /\ Len(w) = Len(s) - p
           /\ \A i \in 1 .. Len(s) - p : w[i] = s[p + i]
<1>1. Len(s) \in Nat /\ p + 1 \in 1 .. Len(s) + 1 /\ Len(s) \in (p + 1) - 1 .. Len(s)
  OBVIOUS
<1>2. /\ w \in Seq(S)
      /\ Len(w) = Len(s) - (p + 1) + 1
      /\ \A i \in 1 .. Len(s) - (p + 1) + 1 : w[i] = s[(p + 1) + i - 1]
  BY <1>1, Slice
<1>3. Len(s) - (p + 1) + 1 = Len(s) - p /\ \A i \in 1 .. Len(s) - p : (p + 1) + i - 1 = p + i
  BY <1>1
<1> QED  BY <1>2, <1>3

LEMMA First ==
    ASSUME NEW S, NEW s \in Seq(S), NEW p \in 0 .. Len(s), NEW f, f = SubSeq(s, 1, p)
    PROVE  f \in Seq(S) /\ Len(f) = p /\ \A i \in 1 .. p : f[i] = s[i]
<1>1. 1 \in 1 .. Len(s) + 1 /\ p \in 1 - 1 .. Len(s)
  OBVIOUS
<1>2. /\ f \in Seq(S)
      /\ Len(f) = p - 1 + 1
      /\ \A i \in 1 .. p - 1 + 1 : f[i] = s[1 + i - 1]
  BY <1>1, Slice
<1>3. p - 1 + 1 = p /\ \A i \in 1 .. p : 1 + i - 1 = i
  BY <1>1
<1> QED  BY <1>2, <1>3

\* n more symbols are taken.
LEMMA TakeMore ==
    ASSUME NEW S, NEW s \in Seq(S), NEW p \in 0 .. Len(s),
           NEW w, w = SubSeq(s, p + 1, Len(s)), NEW n \in 0 .. Len(s) - p
    PROVE  /\ SubSeq(w, n + 1, Len(w)) = SubSeq(s, p + n + 1, Len(s))
           /\ SubSeq(s, 1, p) \o SubSeq(w, 1, n) = SubSeq(s, 1, p + n)
           /\ SubSeq(w, 1, n) \in Seq(S) /\ Len(SubSeq(w, 1, n)) = n
           /\ \A i \in 1 .. n : SubSeq(w, 1, n)[i] = s[p + i]
<1>1. Len(s) \in Nat /\ p + n \in 0 .. Len(s) /\ p \in Nat /\ n \in Nat
  OBVIOUS
<1>2. /\ w \in Seq(S) /\ Len(w) = Len(s) - p
      /\ \A i \in 1 .. Len(s) - p : w[i] = s[p + i]
  BY Rest
<1> DEFINE a == SubSeq(w, n + 1, Len(w))
           b == SubSeq(s, p + n + 1, Len(s))
           f == SubSeq(s, 1, p)
           g == SubSeq(w, 1, n)
           h == SubSeq(s, 1, p + n)
<1>3. /\ a \in Seq(S) /\ Len(a) = Len(w) - n
      /\ \A i \in 1 .. Len(w) - n : a[i] = w[n + i]
  <2>1. n \in 0 .. Len(w)
    BY <1>1, <1>2
  <2> QED  BY <1>2, <2>1, Rest
<1>4. /\ b \in Seq(S) /\ Len(b) = Len(s) - (p + n)
      /\ \A i \in 1 .. Len(s) - (p + n) : b[i] = s[(p + n) + i]
  BY <1>1, Rest
<1>5. f \in Seq(S) /\ Len(f) = p /\ \A i \in 1 .. p : f[i] = s[i]
  BY <1>1, First
<1>6. g \in Seq(S) /\ Len(g) = n /\ \A i \in 1 .. n : g[i] = w[i]
  <2>1. n \in 0 .. Len(w)
    BY <1>1, <1>2
  <2> QED  BY <1>2, <2>1, First
<1>7. h \in Seq(S) /\ Len(h) = p + n /\ \A i \in 1 .. p + n : h[i] = s[i]
  BY <1>1, First
<1> HIDE DEF a, b, f, g, h
<1>8. a = b
  <2>1. Len(a) = Len(b)
    BY <1>1, <1>2, <1>3, <1>4
  <2>2. ASSUME NEW i \in 1 .. Len(a)
        PROVE  a[i] = b[i]
    <3>1. i \in 1 .. Len(w) - n /\ i \in 1 .. Len(s) - (p + n) /\ n + i \in 1 .. Len(s) - p
          /\ p + (n + i) = (p + n) + i
      BY <1>1, <1>2, <1>3
    <3>2. a[i] = w[n + i] /\ w[n + i] = s[p + (n + i)] /\ b[i] = s[(p + n) + i]
      BY <1>2, <1>3, <1>4, <3>1
    <3> QED  BY <3>1, <3>2
  <2> QED  BY <1>3, <1>4, <2>1, <2>2, SeqEqual
<1>9. \A i \in 1 .. n : g[i] = s[p + i]
  BY <1>1, <1>2, <1>6
<1>10. f \o g = h
  <2>1. /\ f \o g \in Seq(S) /\ Len(f \o g) = Len(f) + Len(g)
        /\ \A i \in 1 .. Len(f) + Len(g) : (f \o g)[i] = IF i <= Len(f) THEN f[i] ELSE g[i - Len(f)]
    BY <1>5, <1>6, ConcatProperties
  <2> DEFINE k == f \o g
  <2>2. /\ k \in Seq(S) /\ Len(k) = p + n
        /\ \A i \in 1 .. p + n : k[i] = IF i <= p THEN f[i] ELSE g[i - p]
    BY <1>5, <1>6, <2>1
  <2> HIDE DEF k
  <2>3. ASSUME NEW i \in 1 .. Len(k)
        PROVE  k[i] = h[i]
    <3>0. i \in 1 .. p + n
      BY <2>2
    <3>1. CASE i <= p
      BY <1>1, <1>5, <1>7, <2>2, <3>0, <3>1
    <3>2. CASE ~(i <= p)
      <4>1. i - p \in 1 .. n /\ p + (i - p) = i
        BY <1>1, <3>0, <3>2
      <4>2. k[i] = g[i - p] /\ g[i - p] = s[p + (i - p)] /\ h[i] = s[i]
        BY <1>7, <1>9, <2>2, <3>0, <3>2, <4>1
      <4> QED  BY <4>1, <4>2
    <3> QED  BY <3>1, <3>2
  <2>4. k = h
    BY <1>7, <2>2, <2>3, SeqEqual
  <2> QED  BY <2>4 DEF k
<1> QED  BY <1>6, <1>8, <1>9, <1>10 DEF a, b, f, g, h

\* The data among n more symbols, when they are all data.
LEMMA TakeData ==
    ASSUME NEW s \in Seq(Symbol), NEW p \in 0 .. Len(s),
           NEW w, w = SubSeq(s, p + 1, Len(s)), NEW n \in 0 .. Len(s) - p,
           \A j \in 1 .. n : s[p + j].is = "data"
    PROVE  Data(SubSeq(s, 1, p + n)) = Data(SubSeq(s, 1, p)) \o SubSeq(w, 1, n)
<1> DEFINE f == SubSeq(s, 1, p)
           g == SubSeq(w, 1, n)
           h == SubSeq(s, 1, p + n)
<1>1. f \o g = h /\ g \in Seq(Symbol) /\ Len(g) = n /\ \A i \in 1 .. n : g[i] = s[p + i]
  BY TakeMore
<1>2. f \in Seq(Symbol)
  BY First
<1> HIDE DEF f, g, h
<1>3. Data(f \o g) = Data(f) \o Data(g)
  BY <1>1, <1>2, DataConcat
<1>4. Data(g) = g
  BY <1>1, DataOfData
<1>5. Data(h) = Data(f) \o g
  BY <1>1, <1>3, <1>4, Zenon
<1> QED  BY <1>5 DEF f, g, h

\* One symbol that is no data.
LEMMA SkipOne ==
    ASSUME NEW s \in Seq(Symbol), NEW p \in Nat, p + 1 <= Len(s), s[p + 1].is # "data"
    PROVE  Data(SubSeq(s, 1, p + 1)) = Data(SubSeq(s, 1, p))
<1>1. 1 \in 1 .. Len(s) /\ p + 1 \in 1 .. Len(s) /\ p \in 0 .. Len(s) /\ (p + 1) - 1 = p
  OBVIOUS
<1> DEFINE f == SubSeq(s, 1, p)
           h == SubSeq(s, 1, p + 1)
<1>2. f \in Seq(Symbol) /\ s[p + 1] \in Symbol
  BY <1>1, First
<1>3. h = f \o <<s[p + 1]>>
  BY <1>1, SubSeqRecursiveSecond
<1> HIDE DEF f, h
<1>4. f \o <<s[p + 1]>> = Append(f, s[p + 1])
  BY <1>2, AppendIsConcat
<1>5. Data(Append(f, s[p + 1])) = Data(f)
  BY <1>2, DataAppend
<1>6. Data(h) = Data(f)
  BY <1>3, <1>4, <1>5, Zenon
<1> QED  BY <1>6 DEF f, h

\* What has been read has no more data than the whole.
LEMMA DataOfFirst ==
    ASSUME NEW s \in Seq(Symbol), NEW p \in 0 .. Len(s)
    PROVE  /\ Data(SubSeq(s, 1, p)) \in Seq(Symbol)
           /\ Len(Data(SubSeq(s, 1, p))) <= Len(Data(s))
           /\ p = Len(s) => Data(SubSeq(s, 1, p)) = Data(s)
<1> DEFINE f == SubSeq(s, 1, p)
           w == SubSeq(s, p + 1, Len(s))
<1>1. f \in Seq(Symbol)
  BY First
<1>2. w \in Seq(Symbol) /\ Len(w) = Len(s) - p
  BY Rest
<1>3. f \o w = s
  <2>1. 1 \in 1 .. Len(s) + 1 /\ p \in 1 - 1 .. Len(s) /\ Len(s) \in p .. Len(s)
    OBVIOUS
  <2>2. f \o w = SubSeq(s, 1, Len(s))
    BY <2>1, ConcatAdjacentSubSeq
  <2>3. SubSeq(s, 1, Len(s)) = s
    BY SubSeqFull
  <2> QED  BY <2>2, <2>3, Zenon
<1>4. p = Len(s) => f = s
  BY SubSeqFull
<1> HIDE DEF f, w
<1>5. Data(f \o w) = Data(f) \o Data(w)
  BY <1>1, <1>2, DataConcat
<1>6. Data(f) \in Seq(Symbol) /\ Data(w) \in Seq(Symbol)
  BY <1>1, <1>2, DataType
<1>7. Len(Data(f) \o Data(w)) = Len(Data(f)) + Len(Data(w))
  BY <1>6, ConcatProperties
<1>8. Data(s) = Data(f) \o Data(w)
  BY <1>3, <1>5, Zenon
<1>9. Len(Data(s)) = Len(Data(f)) + Len(Data(w))
  BY <1>7, <1>8, Zenon
<1>10. Len(Data(f)) <= Len(Data(s))
  BY <1>6, <1>9
<1> QED  BY <1>4, <1>6, <1>10 DEF f

\* What has arrived has no more data than was signed, and what has been read
\* of it is what has been read of the body.
LEMMA SentData ==
    ASSUME NEW u \in Uploads, u.signed
    PROVE  /\ Data(Sent(u)) \in Seq(Symbol)
           /\ Len(Data(Sent(u))) <= Total(u.sizes)
           /\ Len(Data(Body(u))) = Total(u.sizes)
           /\ \A p \in 0 .. Len(Sent(u)) : SubSeq(Sent(u), 1, p) = SubSeq(Body(u), 1, p)
<1> DEFINE b == Body(u)
           s == Sent(u)
           n == Len(Sent(u))
<1>1. /\ b \in Seq(Symbol) /\ s \in Seq(Symbol) /\ n \in 0 .. Len(b)
      /\ \A i \in 1 .. n : s[i] = b[i]
      /\ Data(b) = Content(Total(u.sizes))
  BY BodyFacts
<1>2. Len(Content(Total(u.sizes))) = Total(u.sizes)
  BY UploadFacts, ContentGrows, 0 \in Nat
<1>6. n = Len(s)
  OBVIOUS
<1> HIDE DEF b, s, n
<1>3. ASSUME NEW p \in 0 .. n
      PROVE  SubSeq(s, 1, p) = SubSeq(b, 1, p)
  <2> DEFINE f == SubSeq(s, 1, p)
             g == SubSeq(b, 1, p)
  <2>1. p \in 0 .. Len(s) /\ p \in 0 .. Len(b)
    BY <1>1, <1>6
  <2>2. f \in Seq(Symbol) /\ Len(f) = p /\ \A i \in 1 .. p : f[i] = s[i]
    BY <1>1, <2>1, First
  <2>3. g \in Seq(Symbol) /\ Len(g) = p /\ \A i \in 1 .. p : g[i] = b[i]
    BY <1>1, <2>1, First
  <2> HIDE DEF f, g
  <2>4. \A i \in 1 .. Len(f) : f[i] = g[i]
    BY <1>1, <2>2, <2>3
  <2>5. f = g
    BY <2>2, <2>3, <2>4, SeqEqual
  <2> QED  BY <2>5 DEF f, g
<1>4. Data(s) \in Seq(Symbol) /\ Len(Data(s)) <= Len(Data(b))
  <2>1. /\ Data(SubSeq(b, 1, n)) \in Seq(Symbol)
        /\ Len(Data(SubSeq(b, 1, n))) <= Len(Data(b))
    BY <1>1, DataOfFirst
  <2>2. SubSeq(b, 1, n) = SubSeq(s, 1, n) /\ SubSeq(s, 1, n) = s
    BY <1>1, <1>3, <1>6, SubSeqFull
  <2>3. SubSeq(b, 1, n) = s
    BY <2>2, Zenon
  <2> QED  BY <2>1, <2>3
<1>5. Len(Data(b)) = Total(u.sizes)
  BY <1>1, <1>2
<1> QED  BY <1>3, <1>4, <1>5 DEF b, s, n

-----------------------------------------------------------------------------
(* The reader stays in step.                                               *)

LEMMA EmptyIsNone ==
    ASSUME NEW S, NEW s \in Seq(S), NEW p \in 0 .. Len(s), <<>> = SubSeq(s, p + 1, Len(s))
    PROVE  p = Len(s)
<1>1. Len(<<>>) = Len(s) - p
  BY Rest
<1> QED  BY <1>1

LEMMA PlainStart ==
    ASSUME NEW u \in Uploads
    PROVE  PlainInStep(u, Sent(u), <<>>)
<1> DEFINE s == Sent(u)
<1>1. s \in Seq(Symbol)
  BY BodyFacts
<1> HIDE DEF s
<1>2. SubSeq(s, 0 + 1, Len(s)) = s
  BY <1>1, SubSeqFull
<1>3. SubSeq(s, 1, 0) = <<>>
  BY SubSeqEmpty
<1>4. 0 \in 0 .. Len(s)
  BY <1>1
<1> QED  BY <1>2, <1>3, <1>4 DEF PlainInStep, PlainAt, s

LEMMA PlainTake ==
    ASSUME NEW u \in Uploads, NEW w, NEW t, PlainInStep(u, w, t), NEW n \in 0 .. Len(w)
    PROVE  PlainInStep(u, SubSeq(w, n + 1, Len(w)), t \o SubSeq(w, 1, n))
<1> DEFINE s == Sent(u)
<1>1. s \in Seq(Symbol)
  BY BodyFacts
<1>2. PICK p \in 0 .. Len(s) : w = SubSeq(s, p + 1, Len(s)) /\ t = SubSeq(s, 1, p)
  BY DEF PlainInStep, PlainAt
<1> HIDE DEF s
<1>3. Len(w) = Len(s) - p
  BY <1>1, <1>2, Rest
<1>4. n \in 0 .. Len(s) - p /\ p + n \in 0 .. Len(s)
  BY <1>1, <1>3
<1>5. /\ SubSeq(w, n + 1, Len(w)) = SubSeq(s, p + n + 1, Len(s))
      /\ SubSeq(s, 1, p) \o SubSeq(w, 1, n) = SubSeq(s, 1, p + n)
  BY <1>1, <1>2, <1>4, TakeMore
<1>6. t \o SubSeq(w, 1, n) = SubSeq(s, 1, p + n)
  BY <1>2, <1>5, Zenon
<1> QED  BY <1>4, <1>5, <1>6, Zenon DEF PlainInStep, PlainAt, s

LEMMA PlainEnd ==
    ASSUME NEW u \in Uploads, NEW t, PlainInStep(u, <<>>, t)
    PROVE  t = Sent(u)
<1> DEFINE s == Sent(u)
<1>1. s \in Seq(Symbol)
  BY BodyFacts
<1>2. PICK p \in 0 .. Len(s) : <<>> = SubSeq(s, p + 1, Len(s)) /\ t = SubSeq(s, 1, p)
  BY DEF PlainInStep, PlainAt
<1> HIDE DEF s
<1>3. p = Len(s)
  BY <1>1, <1>2, EmptyIsNone
<1>4. SubSeq(s, 1, Len(s)) = s
  BY <1>1, SubSeqFull
<1>5. t = s
  BY <1>2, <1>3, <1>4, Zenon
<1> QED  BY <1>5 DEF s

LEMMA DecodedStart ==
    ASSUME NEW u \in Uploads
    PROVE  DecodedInStep(u, Sent(u), <<>>, 0, FALSE)
<1> DEFINE s == Sent(u)
<1>1. s \in Seq(Symbol)
  BY BodyFacts
<1> HIDE DEF s
<1>2. SubSeq(s, 0 + 1, Len(s)) = s
  BY <1>1, SubSeqFull
<1>3. Data(SubSeq(s, 1, 0)) = <<>>
  <2>1. SubSeq(s, 1, 0) = <<>>
    BY SubSeqEmpty
  <2> QED  BY <2>1, DataEmpty, Zenon
<1>4. 0 \in 0 .. Len(s)
  BY <1>1
<1>5. DecodedAt(u, 0, s, <<>>, 0, FALSE)
  BY <1>2, <1>3 DEF DecodedAt, s
<1> QED  BY <1>4, <1>5 DEF DecodedInStep, s

LEMMA DecodedEnd ==
    ASSUME NEW u \in Uploads, NEW t, NEW remain, NEW notFirst,
           DecodedInStep(u, <<>>, t, remain, notFirst)
    PROVE  /\ Fits(u) => t = Data(Sent(u))
           /\ Len(t) <= Len(Data(Sent(u)))
<1> DEFINE s == Sent(u)
<1>1. s \in Seq(Symbol) /\ Data(s) \in Seq(Symbol)
  BY BodyFacts, DataType
<1>2. CASE AtItsEnd(u, <<>>, t)
  <2>1. CASE Fits(u)
    BY <1>1, <1>2, <2>1 DEF AtItsEnd
  <2>2. CASE ~Fits(u)
    BY <1>2, <2>2 DEF AtItsEnd
  <2> QED  BY <2>1, <2>2
<1>3. ASSUME NEW p \in 0 .. Len(s), DecodedAt(u, p, <<>>, t, remain, notFirst)
      PROVE  t = Data(s)
  <2>1. <<>> = SubSeq(s, p + 1, Len(s)) /\ t = Data(SubSeq(s, 1, p))
    BY <1>3 DEF DecodedAt
  <2> HIDE DEF s
  <2>2. p = Len(s)
    BY <1>1, <2>1, EmptyIsNone
  <2>3. SubSeq(s, 1, Len(s)) = s
    BY <1>1, SubSeqFull
  <2> QED  BY <2>1, <2>2, <2>3, Zenon
<1>4. CASE ~AtItsEnd(u, <<>>, t)
  <2>1. t = Data(s)
    BY <1>3, <1>4 DEF DecodedInStep
  <2> HIDE DEF s
  <2>2. Len(Data(s)) <= Len(Data(s))
    BY <1>1
  <2> QED  BY <2>1, <2>2 DEF s
<1> QED  BY <1>2, <1>4

\* A chunk never has more left than there is room for.
LEMMA FitsRoom ==
    ASSUME NEW u \in Uploads, u.signed, Fits(u), NEW w, NEW t, NEW remain \in Nat, NEW notFirst,
           NEW p \in 0 .. Len(Sent(u)), DecodedAt(u, p, w, t, remain, notFirst)
    PROVE  t \in Seq(Symbol) /\ Len(t) + remain <= Total(u.sizes)
<1> DEFINE s == Sent(u)
           b == Body(u)
<1>1. /\ b \in Seq(Symbol) /\ s \in Seq(Symbol) /\ Len(s) \in 0 .. Len(b)
      /\ Len(Data(b)) = Total(u.sizes) /\ Total(u.sizes) \in Nat
      /\ SubSeq(s, 1, p) = SubSeq(b, 1, p)
  BY BodyFacts, SentData, UploadFacts
<1>2. /\ t = Data(SubSeq(s, 1, p))
      /\ remain = 0 \/ EndOfChunk(b, p, remain)
  BY DEF DecodedAt
<1>11. p \in 0 .. Len(s)
  OBVIOUS
<1> HIDE DEF b, s
<1>3. p \in 0 .. Len(b) /\ p \in Nat /\ Len(b) \in Nat
  BY <1>1, <1>11
<1>4. t = Data(SubSeq(b, 1, p))
  BY <1>1, <1>2, Zenon
<1>5. t \in Seq(Symbol) /\ Len(t) <= Len(Data(b)) /\ Len(t) \in Nat
  <2>1. t \in Seq(Symbol) /\ Len(t) <= Len(Data(b))
    BY <1>1, <1>3, <1>4, DataOfFirst
  <2> QED  BY <2>1
<1>6. CASE remain = 0
  BY <1>1, <1>5, <1>6
<1>7. CASE EndOfChunk(b, p, remain)
  <2>1. remain \in 0 .. Len(b) - p /\ p + remain \in 0 .. Len(b)
        /\ \A j \in 1 .. remain : b[p + j].is = "data"
    BY <1>3, <1>7 DEF EndOfChunk
  <2> DEFINE g == SubSeq(SubSeq(b, p + 1, Len(b)), 1, remain)
             h == SubSeq(b, 1, p + remain)
  <2>2. g \in Seq(Symbol) /\ Len(g) = remain
    BY <1>1, <1>3, <2>1, TakeMore
  <2>3. Data(h) = Data(SubSeq(b, 1, p)) \o g
    BY <1>1, <1>3, <2>1, TakeData
  <2>4. Len(Data(h)) <= Len(Data(b))
    BY <1>1, <2>1, DataOfFirst
  <2> HIDE DEF g, h
  <2>5. Len(t \o g) = Len(t) + remain
    BY <1>5, <2>2, ConcatProperties
  <2>6. Data(h) = t \o g
    BY <1>4, <2>3, Zenon
  <2>7. Len(Data(h)) = Len(t) + remain
    BY <2>5, <2>6, Zenon
  <2> QED  BY <1>1, <1>5, <2>4, <2>7
<1> QED  BY <1>2, <1>5, <1>6, <1>7

\* Reading bytes of a chunk, after which the reader may take fewer for left
\* than there are, but not when all chunks fit.
LEMMA DecodedTake ==
    ASSUME NEW u \in Uploads, u.signed, NEW w, NEW t \in Seq(Symbol), NEW remain \in Nat, NEW notFirst,
           DecodedInStep(u, w, t, remain, notFirst),
           NEW n \in 0 .. Len(w), n <= remain, remain > 0,
           NEW left \in Nat, left <= remain - n,
           Fits(u) /\ ~AtItsEnd(u, w, t) => left = remain - n
    PROVE  DecodedInStep(u, SubSeq(w, n + 1, Len(w)), t \o SubSeq(w, 1, n), left, notFirst)
<1> DEFINE s == Sent(u)
           b == Body(u)
<1>1. CASE AtItsEnd(u, w, t)
  <2>1. w = <<>>
    BY <1>1 DEF AtItsEnd
  <2>2. n = 0
    BY <2>1
  <2>3. SubSeq(w, n + 1, Len(w)) = <<>> /\ SubSeq(w, 1, n) = <<>>
    BY <2>1, <2>2
  <2>4. t \o <<>> = t
    BY ConcatEmptySeq
  <2>5. t \o SubSeq(w, 1, n) = t
    BY <2>3, <2>4, Zenon
  <2>6. SubSeq(w, n + 1, Len(w)) = w
    BY <2>1, <2>3, Zenon
  <2> QED  BY <1>1, <2>5, <2>6, Zenon DEF DecodedInStep
<1>2. ASSUME ~AtItsEnd(u, w, t), NEW p \in 0 .. Len(s), DecodedAt(u, p, w, t, remain, notFirst)
      PROVE  DecodedInStep(u, SubSeq(w, n + 1, Len(w)), t \o SubSeq(w, 1, n), left, notFirst)
  <2>1. /\ s \in Seq(Symbol) /\ b \in Seq(Symbol) /\ Len(s) \in 0 .. Len(b)
        /\ \A i \in 1 .. Len(s) : s[i] = b[i]
    BY BodyFacts
  <2>2. /\ w = SubSeq(s, p + 1, Len(s)) /\ t = Data(SubSeq(s, 1, p)) /\ notFirst
    BY <1>2 DEF DecodedAt
  <2>3. PICK r \in Nat : r >= remain /\ (Fits(u) => r = remain) /\ EndOfChunk(b, p, r)
    BY <1>2 DEF DecodedAt
  <2>4. p \in 0 .. Len(s)
    BY <1>2
  <2> HIDE DEF s, b
  <2>5. Len(w) = Len(s) - p
    BY <2>1, <2>2, <2>4, Rest
  <2>6. n \in 0 .. Len(s) - p /\ p + n \in 0 .. Len(s) /\ n \in Nat /\ p \in Nat /\ n <= r
    BY <2>1, <2>3, <2>4, <2>5
  <2>7. \A j \in 1 .. n : s[p + j].is = "data"
    <3>1. ASSUME NEW j \in 1 .. n
          PROVE  s[p + j].is = "data"
      <4>1. p + j \in 1 .. Len(s) /\ j \in 1 .. r
        BY <2>1, <2>3, <2>6
      <4>2. s[p + j] = b[p + j]
        BY <2>1, <4>1
      <4> QED  BY <2>3, <4>1, <4>2 DEF EndOfChunk
    <3> QED  BY <3>1
  <2>8. SubSeq(w, n + 1, Len(w)) = SubSeq(s, p + n + 1, Len(s))
    BY <2>1, <2>2, <2>4, <2>6, TakeMore
  <2>9. Data(SubSeq(s, 1, p + n)) = Data(SubSeq(s, 1, p)) \o SubSeq(w, 1, n)
    BY <2>1, <2>2, <2>4, <2>6, <2>7, TakeData
  <2>10. t \o SubSeq(w, 1, n) = Data(SubSeq(s, 1, p + n))
    BY <2>2, <2>9, Zenon
  <2>11. r - n \in Nat /\ r - n >= left /\ (Fits(u) => r - n = left)
    BY <1>2, <2>3, <2>6
  <2>12. EndOfChunk(b, p + n, r - n)
    <3>1. /\ p + r + 2 <= Len(b)
          /\ \A j \in 1 .. r : b[p + j].is = "data"
          /\ b[p + r + 1].is = "cr" /\ b[p + r + 2].is = "lf"
          /\ p + r + 2 = Len(b) \/ b[p + r + 3].is = "header"
      BY <2>3 DEF EndOfChunk
    <3>2. (p + n) + (r - n) = p + r
      BY <2>6
    <3>3. \A j \in 1 .. r - n : b[(p + n) + j].is = "data"
      <4>1. ASSUME NEW j \in 1 .. r - n
            PROVE  b[(p + n) + j].is = "data"
        <5>1. (p + n) + j = p + (n + j) /\ n + j \in 1 .. r
          BY <2>6
        <5> QED  BY <3>1, <5>1
      <4> QED  BY <4>1
    <3>4. /\ (p + n) + (r - n) + 1 = p + r + 1
          /\ (p + n) + (r - n) + 2 = p + r + 2
          /\ (p + n) + (r - n) + 3 = p + r + 3
      BY <3>2
    <3> QED  BY <3>1, <3>3, <3>4 DEF EndOfChunk
  <2> DEFINE q == p + n
             w2 == SubSeq(w, n + 1, Len(w))
             t2 == t \o SubSeq(w, 1, n)
  <2>13. q \in 0 .. Len(s) /\ w2 = SubSeq(s, q + 1, Len(s)) /\ t2 = Data(SubSeq(s, 1, q))
    BY <2>6, <2>8, <2>10
  <2>14. EndOfChunk(b, q, r - n)
    BY <2>12
  <2> HIDE DEF q, w2, t2
  <2>15. DecodedAt(u, q, w2, t2, left, notFirst)
    BY <2>2, <2>11, <2>13, <2>14 DEF DecodedAt, s, b
  <2> QED  BY <2>13, <2>15 DEF DecodedInStep, s, w2, t2
<1> QED  BY <1>1, <1>2 DEF DecodedInStep

LEMMA SkipMany ==
    ASSUME NEW s \in Seq(Symbol), NEW p \in 0 .. Len(s), NEW k \in 0 .. Len(s) - p,
           \A j \in 1 .. k : s[p + j].is # "data"
    PROVE  Data(SubSeq(s, 1, p + k)) = Data(SubSeq(s, 1, p))
<1> DEFINE T == {m \in Nat : m <= k => Data(SubSeq(s, 1, p + m)) = Data(SubSeq(s, 1, p))}
<1>1. 0 \in T
  <2>1. p + 0 = p
    OBVIOUS
  <2> QED  BY <2>1
<1>2. ASSUME NEW m \in Nat, m \in T
      PROVE  m + 1 \in T
  <2>1. CASE m + 1 <= k
    <3>1. /\ Data(SubSeq(s, 1, p + m)) = Data(SubSeq(s, 1, p))
          /\ p + m \in Nat /\ (p + m) + 1 <= Len(s) /\ (p + m) + 1 = p + (m + 1)
          /\ m + 1 \in 1 .. k
      BY <1>2, <2>1
    <3>2. s[(p + m) + 1].is # "data"
      BY <3>1
    <3>3. Data(SubSeq(s, 1, (p + m) + 1)) = Data(SubSeq(s, 1, p + m))
      BY <3>1, <3>2, SkipOne
    <3>4. Data(SubSeq(s, 1, p + (m + 1))) = Data(SubSeq(s, 1, p))
      BY <3>1, <3>3, Zenon
    <3> QED  BY <3>4
  <2> QED  BY <2>1
<1> HIDE DEF T
<1>3. Nat \subseteq T
  BY <1>1, <1>2, Induction
<1>4. k \in T /\ k <= k
  BY <1>3
<1> QED  BY <1>4 DEF T

\* What stands behind a chunk: three symbols to the next header, or two, none
\* of them data; and the chunk that it begins.
LEMMA NextHeader ==
    ASSUME NEW b, Streamed(b), b # <<>>, NEW p \in Nat, NEW at,
           \/ at = 1 /\ p = 0
           \/ at = 3 /\ EndOfChunk(b, p, 0)
    PROVE  /\ \A j \in 1 .. at + 1 : p + j <= Len(b) => b[p + j].is # "data"
           /\ p + at <= Len(b) =>
                 /\ b[p + at].is = "header" /\ b[p + at].n \in Nat
                 /\ EndOfChunk(b, p + at + 1, b[p + at].n)
<1>1. b \in Seq(Symbol) /\ Len(b) \in Nat /\ \A i \in 1 .. Len(b) : b[i] \in Symbol
  <2>1. b \in Seq(Symbol)
    BY DEF Streamed
  <2> QED  BY <2>1
<1>2. \A x \in Symbol : x.n \in Nat
  BY DEF Symbol
<1>3. ASSUME p + at <= Len(b), p + at \in 1 .. Len(b), b[p + at].is = "header"
      PROVE  /\ b[p + at].n \in Nat
             /\ b[p + at + 1].is = "signature"
             /\ EndOfChunk(b, p + at + 1, b[p + at].n)
  BY <1>1, <1>2, <1>3 DEF Streamed
<1>4. CASE at = 1 /\ p = 0
  <2>1. p + at = 1 /\ 1 \in 1 .. Len(b) /\ b[1].is = "header"
    BY <1>1, <1>4 DEF Streamed
  <2>2. b[1 + 1].is = "signature" /\ b[p + at].is = "header"
    BY <1>3, <2>1
  <2>3. ASSUME NEW j \in 1 .. at + 1
        PROVE  b[p + j].is # "data"
    <3>1. j = 1 \/ j = 2
      BY <1>4, <2>3
    <3>2. CASE j = 1
      BY <1>4, <2>1, <3>2
    <3>3. CASE j = 2
      BY <1>4, <2>2, <3>3
    <3> QED  BY <3>1, <3>2, <3>3
  <2> QED  BY <1>3, <2>1, <2>2, <2>3
<1>5. CASE at = 3 /\ EndOfChunk(b, p, 0)
  <2>1. /\ p + 2 <= Len(b) /\ b[p + 1].is = "cr" /\ b[p + 2].is = "lf"
        /\ p + 2 = Len(b) \/ b[p + 3].is = "header"
    <3>1. p + 0 + 1 = p + 1 /\ p + 0 + 2 = p + 2 /\ p + 0 + 3 = p + 3
      OBVIOUS
    <3> QED  BY <1>5, <3>1 DEF EndOfChunk
  <2>2. ASSUME p + at <= Len(b)
        PROVE  /\ b[p + at].is = "header" /\ b[p + at].n \in Nat
               /\ b[p + at + 1].is = "signature"
               /\ EndOfChunk(b, p + at + 1, b[p + at].n)
    <3>1. p + at \in 1 .. Len(b) /\ b[p + at].is = "header"
      BY <1>1, <1>5, <2>1, <2>2
    <3> QED  BY <1>3, <2>2, <3>1
  <2>3. ASSUME NEW j \in 1 .. at + 1, p + j <= Len(b)
        PROVE  b[p + j].is # "data"
    <3>1. j = 1 \/ j = 2 \/ j = at \/ j = at + 1
      BY <1>5, <2>3
    <3>2. CASE j = 1
      BY <2>1, <3>2
    <3>3. CASE j = 2
      BY <2>1, <3>3
    <3>4. CASE j = at
      BY <2>2, <2>3, <3>4
    <3>5. CASE j = at + 1
      <4>1. p + at <= Len(b) /\ p + at + 1 = p + (at + 1)
        BY <1>1, <1>5, <2>3, <3>5
      <4> QED  BY <2>2, <3>5, <4>1
    <3> QED  BY <3>1, <3>2, <3>3, <3>4, <3>5
  <2> QED  BY <2>2, <2>3
<1> QED  BY <1>4, <1>5

\* The body comes to its end before the next header has been read.
LEMMA EndOfHeader ==
    ASSUME NEW u \in Uploads, NEW p \in 0 .. Len(Sent(u)), NEW t,
           t = Data(SubSeq(Sent(u), 1, p)),
           Fits(u) => \A j \in 1 .. Len(Sent(u)) - p : Sent(u)[p + j].is # "data"
    PROVE  AtItsEnd(u, <<>>, t)
<1> DEFINE s == Sent(u)
<1>1. s \in Seq(Symbol) /\ p \in 0 .. Len(s)
  BY BodyFacts
<1>2. t = Data(SubSeq(s, 1, p))
  OBVIOUS
<1>3. Fits(u) => \A j \in 1 .. Len(s) - p : s[p + j].is # "data"
  OBVIOUS
<1> HIDE DEF s
<1>4. Len(t) <= Len(Data(s))
  BY <1>1, <1>2, DataOfFirst
<1>5. ASSUME Fits(u)
      PROVE  t = Data(s)
  <2>1. Len(s) - p \in 0 .. Len(s) - p /\ p + (Len(s) - p) = Len(s)
    BY <1>1
  <2>2. Data(SubSeq(s, 1, p + (Len(s) - p))) = Data(SubSeq(s, 1, p))
    BY <1>1, <1>3, <1>5, <2>1, SkipMany
  <2>3. SubSeq(s, 1, Len(s)) = s
    BY <1>1, SubSeqFull
  <2> QED  BY <1>2, <2>1, <2>2, <2>3, Zenon
<1> QED  BY <1>4, <1>5 DEF AtItsEnd, s

\* Reading a chunk header, which is refused only when the reader has lost step.
LEMMA DecodedHeader ==
    ASSUME NEW u \in Uploads, u.signed, NEW w, NEW t, NEW notFirst \in BOOLEAN,
           DecodedInStep(u, w, t, 0, notFirst),
           NEW at, at = IF notFirst THEN 3 ELSE 1,
           NEW bad \in BOOLEAN, bad <=> (at <= Len(w) /\ w[at].is # "header")
    PROVE  /\ Fits(u) => ~bad
           /\ ~bad => DecodedInStep(u, IF Len(w) < at + 1 THEN <<>> ELSE SubSeq(w, at + 2, Len(w)),
                                    t, IF at <= Len(w) THEN w[at].n ELSE 0, TRUE)
<1> DEFINE s == Sent(u)
           b == Body(u)
           w2 == IF Len(w) < at + 1 THEN <<>> ELSE SubSeq(w, at + 2, Len(w))
           n == IF at <= Len(w) THEN w[at].n ELSE 0
<1>1. at \in {1, 3}
  OBVIOUS
<1>2. CASE AtItsEnd(u, w, t)
  <2>1. w = <<>>
    BY <1>2 DEF AtItsEnd
  <2>2. Len(w) = 0
    BY <2>1
  <2>3. ~bad /\ w2 = <<>>
    BY <1>1, <2>2
  <2>4. AtItsEnd(u, w2, t)
    BY <1>2, <2>1, <2>3, Zenon
  <2> HIDE DEF w2, n
  <2>5. DecodedInStep(u, w2, t, n, TRUE)
    BY <2>4 DEF DecodedInStep
  <2> QED  BY <2>3, <2>5 DEF w2, n
<1>3. ASSUME NEW p \in 0 .. Len(s), DecodedAt(u, p, w, t, 0, notFirst)
      PROVE  (Fits(u) => ~bad) /\ (~bad => DecodedInStep(u, w2, t, n, TRUE))
  <2>1. /\ s \in Seq(Symbol) /\ b \in Seq(Symbol) /\ Len(s) \in 0 .. Len(b)
        /\ \A i \in 1 .. Len(s) : s[i] = b[i]
        /\ Streamed(b) /\ b # <<>>
    BY BodyFacts
  <2>2. w = SubSeq(s, p + 1, Len(s)) /\ t = Data(SubSeq(s, 1, p))
    BY <1>3 DEF DecodedAt
  <2>3. \/ p = 0 /\ ~notFirst
        \/ notFirst /\ \E r \in Nat : (Fits(u) => r = 0) /\ EndOfChunk(b, p, r)
    BY <1>3 DEF DecodedAt
  <2>4. p \in 0 .. Len(s) /\ p \in Nat /\ Len(s) \in Nat /\ Len(b) \in Nat
    BY <1>3, <2>1
  <2> HIDE DEF s, b
  <2>5. /\ w \in Seq(Symbol) /\ Len(w) = Len(s) - p
        /\ \A i \in 1 .. Len(s) - p : w[i] = s[p + i]
    BY <2>1, <2>2, <2>4, Rest
  <2>6. \A i \in 1 .. Len(w) : w[i] = b[p + i] /\ s[p + i] = b[p + i] /\ p + i <= Len(b)
    <3>1. ASSUME NEW i \in 1 .. Len(w)
          PROVE  w[i] = b[p + i] /\ s[p + i] = b[p + i] /\ p + i <= Len(b)
      <4>1. i \in 1 .. Len(s) - p /\ p + i \in 1 .. Len(s) /\ p + i <= Len(b)
        BY <2>1, <2>4, <2>5
      <4> QED  BY <2>1, <2>5, <4>1
    <3> QED  BY <3>1
  <2>7. Len(w) < at + 1 => w2 = <<>>
    OBVIOUS
  <2>8. CASE (at = 1 /\ p = 0) \/ (at = 3 /\ EndOfChunk(b, p, 0))
    <3>1. /\ \A j \in 1 .. at + 1 : p + j <= Len(b) => b[p + j].is # "data"
          /\ p + at <= Len(b) =>
                 /\ b[p + at].is = "header" /\ b[p + at].n \in Nat
                 /\ EndOfChunk(b, p + at + 1, b[p + at].n)
      <4>1. Streamed(b) /\ b # <<>> /\ p \in Nat
        BY <2>1, <2>4
      <4> HIDE DEF w2, n
      <4> QED  BY <2>8, <4>1, NextHeader, ZenonT(60)
    <3>2. ASSUME at <= Len(w)
          PROVE  /\ w[at].is = "header" /\ w[at].n \in Nat
                 /\ EndOfChunk(b, p + at + 1, w[at].n)
      <4>1. at \in 1 .. Len(w)
        BY <1>1, <2>5, <3>2
      <4>2. w[at] = b[p + at] /\ p + at <= Len(b)
        BY <2>6, <4>1
      <4> QED  BY <3>1, <4>2
    <3>3. ~bad
      BY <3>2
    <3>4. \A j \in 1 .. at + 1 : j <= Len(w) => s[p + j].is # "data"
      <4>1. ASSUME NEW j \in 1 .. at + 1, j <= Len(w)
            PROVE  s[p + j].is # "data"
        <5>1. j \in 1 .. Len(w)
          BY <2>4, <2>5, <4>1, <1>1
        <5>2. s[p + j] = b[p + j] /\ p + j <= Len(b)
          BY <2>6, <5>1
        <5> QED  BY <3>1, <5>2
      <4> QED  BY <4>1
    <3>5. CASE Len(w) < at + 1
      <4>1. \A j \in 1 .. Len(s) - p : s[p + j].is # "data"
        BY <1>1, <2>4, <2>5, <3>4, <3>5
      <4>2. AtItsEnd(u, <<>>, t)
        BY <2>2, <2>4, <4>1, EndOfHeader DEF s
      <4>3. AtItsEnd(u, w2, t)
        BY <2>7, <3>5, <4>2, Zenon
      <4> HIDE DEF w2, n
      <4>4. DecodedInStep(u, w2, t, n, TRUE)
        BY <4>3 DEF DecodedInStep
      <4> QED  BY <3>3, <4>4
    <3>6. CASE ~(Len(w) < at + 1)
      <4>1. at + 1 \in 0 .. Len(s) - p /\ at + 1 \in Nat /\ at \in Nat /\ at <= Len(w)
        BY <1>1, <2>4, <2>5, <3>6
      <4>2. w2 = SubSeq(w, at + 2, Len(w)) /\ n = w[at].n
        BY <3>6, <4>1, Zenon
      <4>3. SubSeq(w, (at + 1) + 1, Len(w)) = SubSeq(s, p + (at + 1) + 1, Len(s))
        <5> DEFINE k == at + 1
        <5>1. k \in 0 .. Len(s) - p
          BY <4>1
        <5> HIDE DEF k
        <5>2. SubSeq(w, k + 1, Len(w)) = SubSeq(s, p + k + 1, Len(s))
          BY <2>1, <2>2, <2>4, <5>1, TakeMore
        <5> QED  BY <5>2, Zenon DEF k
      <4>4. \A j \in 1 .. at + 1 : s[p + j].is # "data"
        BY <2>4, <2>5, <3>4, <4>1
      <4>5. Data(SubSeq(s, 1, p + (at + 1))) = Data(SubSeq(s, 1, p))
        BY <2>1, <2>4, <4>1, <4>4, SkipMany
      <4> DEFINE q == p + at + 1
      <4>6. q = p + (at + 1) /\ q + 1 = p + (at + 1) + 1 /\ (at + 1) + 1 = at + 2 /\ q \in 0 .. Len(s)
        BY <2>4, <4>1
      <4>7. n \in Nat /\ EndOfChunk(b, q, n)
        BY <3>2, <4>1, <4>2
      <4> HIDE DEF w2, n, q
      <4>8. w2 = SubSeq(s, q + 1, Len(s)) /\ t = Data(SubSeq(s, 1, q))
        BY <2>2, <4>2, <4>3, <4>5, <4>6, Zenon
      <4>9. n >= n
        BY <4>7
      <4>10. DecodedAt(u, q, w2, t, n, TRUE)
        BY <4>7, <4>8, <4>9 DEF DecodedAt, s, b
      <4>11. DecodedInStep(u, w2, t, n, TRUE)
        BY <4>6, <4>10 DEF DecodedInStep, s
      <4> QED  BY <3>3, <4>11
    <3> QED  BY <3>5, <3>6
  <2>9. ASSUME at = 3, ~Fits(u), NEW r \in Nat, r # 0, EndOfChunk(b, p, r)
        PROVE  (Fits(u) => ~bad) /\ (~bad => DecodedInStep(u, w2, t, n, TRUE))
    <3>1. b[p + 3].is # "header"
      <4>1. r = 1 \/ r = 2 \/ r >= 3
        BY <2>9
      <4>2. CASE r = 1
        <5>1. p + r + 2 = p + 3
          BY <2>4, <4>2
        <5> QED  BY <2>9, <5>1 DEF EndOfChunk
      <4>3. CASE r = 2
        <5>1. p + r + 1 = p + 3
          BY <2>4, <4>3
        <5> QED  BY <2>9, <5>1 DEF EndOfChunk
      <4>4. CASE r >= 3
        <5>1. 3 \in 1 .. r
          BY <4>4
        <5> QED  BY <2>9, <5>1 DEF EndOfChunk
      <4> QED  BY <4>1, <4>2, <4>3, <4>4
    <3>2. ASSUME ~bad
          PROVE  Len(w) < at + 1
      <4>1. CASE 3 <= Len(w)
        <5>1. 3 \in 1 .. Len(w)
          BY <2>4, <2>5, <4>1
        <5>2. w[3] = b[p + 3]
          BY <2>6, <5>1
        <5> QED  BY <2>9, <3>1, <3>2, <4>1, <5>2
      <4> QED  BY <2>4, <2>5, <2>9, <4>1
    <3>3. ASSUME ~bad
          PROVE  DecodedInStep(u, w2, t, n, TRUE)
      <4>1. AtItsEnd(u, <<>>, t)
        BY <2>2, <2>4, <2>9, EndOfHeader DEF s
      <4>2. AtItsEnd(u, w2, t)
        BY <2>7, <3>2, <3>3, <4>1, Zenon
      <4> HIDE DEF w2, n
      <4> QED  BY <4>2 DEF DecodedInStep
    <3> HIDE DEF w2, n
    <3> QED  BY <2>9, <3>3
  <2> HIDE DEF w2, n
  <2> QED  BY <2>3, <2>8, <2>9
<1>4. CASE ~AtItsEnd(u, w, t)
  <2> HIDE DEF w2, n
  <2>1. PICK p \in 0 .. Len(s) : DecodedAt(u, p, w, t, 0, notFirst)
    BY <1>4 DEF DecodedInStep
  <2>2. (Fits(u) => ~bad) /\ (~bad => DecodedInStep(u, w2, t, n, TRUE))
    BY <1>3, <2>1
  <2> QED  BY <2>2 DEF w2, n
<1> QED  BY <1>2, <1>4

-----------------------------------------------------------------------------
(* The steps.                                                              *)

LEMMA NoReadIs == NoRead.left = 0 /\ NoRead.got = <<>> /\ NoRead.err = "idle"
BY DEF NoRead

LEMMA NoReadType == NoRead \in ReadCall
BY DEF NoRead, ReadCall

LEMMA TakenType ==
    StreamsTypeOK =>
        /\ Taken \in Seq(Symbol) /\ Len(Taken) = Len(out) + Len(read.got)
        /\ Len(out) \in Nat /\ Len(read.got) \in Nat /\ Len(wire) \in Nat
        /\ read.got = <<>> => Taken = out
<1> SUFFICES ASSUME StreamsTypeOK
             PROVE  /\ Taken \in Seq(Symbol) /\ Len(Taken) = Len(out) + Len(read.got)
                    /\ Len(out) \in Nat /\ Len(read.got) \in Nat /\ Len(wire) \in Nat
                    /\ read.got = <<>> => Taken = out
  OBVIOUS
<1>1. out \in Seq(Symbol) /\ read.got \in Seq(Symbol) /\ wire \in Seq(Symbol)
  BY DEF StreamsTypeOK, ReadCall
<1>2. out \o read.got \in Seq(Symbol) /\ Len(out \o read.got) = Len(out) + Len(read.got)
  BY <1>1, ConcatProperties
<1>3. out \o <<>> = out
  BY <1>1, ConcatEmptySeq
<1> QED  BY <1>1, <1>2, <1>3 DEF Taken

LEMMA InitInv == Init => StreamsInv
<1> SUFFICES ASSUME Init
             PROVE  StreamsInv
  OBVIOUS
<1>1. /\ upload \in Uploads /\ stage = "request" /\ wire = Sent(upload) /\ chunkRemain = 0
      /\ notFirstChunk = FALSE /\ read = NoRead /\ out = <<>> /\ served = Nothing
  BY DEF Init
<1>2. wire \in Seq(Symbol)
  BY <1>1, BodyFacts
<1>3. StreamsTypeOK
  <2>1. read \in ReadCall
    BY <1>1, NoReadType
  <2>2. out \in Seq(Symbol) /\ chunkRemain \in Nat
    BY <1>1
  <2> QED  BY <1>1, <1>2, <2>1, <2>2 DEF StreamsTypeOK, Stages
<1>4. Taken = <<>>
  BY <1>1, <1>3, NoReadIs, TakenType
<1>5. InStep
  <2>1. PlainInStep(upload, wire, Taken)
    BY <1>1, <1>4, PlainStart
  <2>2. DecodedInStep(upload, wire, Taken, chunkRemain, notFirstChunk)
    BY <1>1, <1>4, DecodedStart
  <2>3. read.err # "expected integer"
    BY <1>1, NoReadIs
  <2> QED  BY <2>1, <2>2, <2>3 DEF InStep
<1>6. EndsAreTrue
  BY <1>1, NoReadIs DEF EndsAreTrue
<1>7. LengthsAgree
  BY <1>1 DEF LengthsAgree, Active
<1>8. Admitted /\ AcceptedIsWhole /\ HonestIsAccepted /\ FitsInt64
  BY <1>1 DEF Admitted, AcceptedIsWhole, HonestIsAccepted, FitsInt64
<1> QED  BY <1>3, <1>5, <1>6, <1>7, <1>8 DEF StreamsInv

\* Nothing has been read yet, or nothing more: InStep as it was.
LEMMA InStepKept ==
    ASSUME InStep, Active, upload' = upload, wire' = wire, chunkRemain' = chunkRemain,
           notFirstChunk' = notFirstChunk, Taken' = Taken,
           read.err # "expected integer", read'.err # "expected integer"
    PROVE  InStep'
BY DEF InStep

LEMMA PayloadType ==
    ASSUME NEW u \in Uploads
    PROVE  Payload(u) \in Seq(Symbol) /\ Len(Payload(u)) \in Nat
<1>1. Sent(u) \in Seq(Symbol)
  BY BodyFacts
<1>2. Data(Sent(u)) \in Seq(Symbol)
  BY <1>1, DataType
<1>3. Payload(u) \in Seq(Symbol)
  BY <1>1, <1>2 DEF Payload
<1> QED  BY <1>3

\* An honest request is not refused for its headers.
LEMMA HonestAdmitted ==
    ASSUME NEW u \in Uploads, Honest(u)
    PROVE  ~Refuses(u) /\ u.declared >= 0
<1>1. /\ u.via \in {"object", "browser", "part"} /\ u.declared \in Int
  BY UploadFacts
<1>2. u.declared = Len(Payload(u)) /\ u.missing = 0 /\ u.ending = "eof"
      /\ u.digest \in {"none", "right"} /\ (u.via = "part" => u.declared > 0)
  BY DEF Honest
<1>3. u.declared \in Nat
  BY <1>2, PayloadType
<1>4. u.declared # NoLength /\ ~(u.declared < 0) /\ u.declared >= 0
  BY <1>3 DEF NoLength
<1>5. CASE u.via = "object"
  BY <1>2, <1>4, <1>5 DEF Refuses
<1>6. CASE u.via = "browser"
  BY <1>2, <1>4, <1>6 DEF Refuses
<1>7. CASE u.via = "part"
  BY <1>2, <1>3, <1>4, <1>7 DEF Refuses
<1> QED  BY <1>1, <1>5, <1>6, <1>7

LEMMA HandleStep == StreamsInv /\ Handle => StreamsInv'
<1> SUFFICES ASSUME StreamsInv, Handle
             PROVE  StreamsInv'
  OBVIOUS
<1>1. StreamsTypeOK /\ InStep /\ LengthsAgree /\ HonestIsAccepted /\ FitsInt64
  BY DEF StreamsInv
<1>2. /\ stage = "request"
      /\ upload' = upload /\ wire' = wire /\ chunkRemain' = chunkRemain
      /\ notFirstChunk' = notFirstChunk /\ read' = read /\ out' = out /\ served' = served
  BY DEF Handle
<1>3. read = NoRead /\ out = <<>> /\ Active
  BY <1>1, <1>2 DEF LengthsAgree, Active
<1>4. /\ upload \in Uploads /\ upload.store \in {"memory", "disk", "part"}
      /\ upload.declared \in Int
  BY <1>1, UploadFacts DEF StreamsTypeOK
<1>5. \/ Refuses(upload) /\ stage' = "refused"
      \/ ~Refuses(upload) /\ upload.store # "memory" /\ stage' = "reading"
      \/ upload.declared < 0 /\ stage' = "panicked"
      \/ ~Refuses(upload) /\ upload.store = "memory" /\ upload.declared = 0 /\ stage' = "extra"
      \/ ~Refuses(upload) /\ upload.store = "memory" /\ upload.declared > 0 /\ stage' = "reading"
  BY <1>4 DEF Handle
<1>6. StreamsTypeOK'
  BY <1>1, <1>2, <1>5 DEF StreamsTypeOK, Stages
<1>7. InStep'
  <2>1. Taken' = Taken
    BY <1>2 DEF Taken
  <2> QED  BY <1>1, <1>2, <1>3, <2>1, NoReadIs, InStepKept
<1>8. EndsAreTrue'
  BY <1>2, <1>3, NoReadIs DEF EndsAreTrue
<1>9. LengthsAgree'
  <2>1. Len(out') = 0 /\ read' = NoRead
    BY <1>2, <1>3
  <2>2. (stage = "extra" => upload.store = "memory" /\ upload.declared <= Len(out))'
    BY <1>2, <1>4, <1>5, <2>1
  <2>3. (stage = "reading" /\ upload.store = "memory" => Len(out) < upload.declared)'
    BY <1>2, <1>4, <1>5, <2>1
  <2>4. stage' # "request"
    BY <1>5
  <2> QED  BY <2>1, <2>2, <2>3, <2>4 DEF LengthsAgree
<1>10. Admitted'
  BY <1>2, <1>5 DEF Admitted
<1>11. AcceptedIsWhole'
  BY <1>5 DEF AcceptedIsWhole
<1>12. HonestIsAccepted'
  <2>1. Honest(upload) => ~Refuses(upload) /\ ~(upload.declared < 0)
    BY <1>4, HonestAdmitted
  <2> QED  BY <1>2, <1>5, <2>1 DEF HonestIsAccepted
<1>13. FitsInt64'
  BY <1>1, <1>2, <1>5 DEF FitsInt64
<1> QED  BY <1>6, <1>7, <1>8, <1>9, <1>10, <1>11, <1>12, <1>13 DEF StreamsInv

LEMMA AskStep == StreamsInv /\ Ask => StreamsInv'
<1> SUFFICES ASSUME StreamsInv, Ask
             PROVE  StreamsInv'
  OBVIOUS
<1>1. StreamsTypeOK /\ InStep /\ LengthsAgree /\ Admitted /\ AcceptedIsWhole
      /\ HonestIsAccepted /\ FitsInt64
  BY DEF StreamsInv
<1>2. /\ stage \in {"reading", "extra"} /\ read = NoRead
      /\ upload' = upload /\ stage' = stage /\ wire' = wire /\ chunkRemain' = chunkRemain
      /\ notFirstChunk' = notFirstChunk /\ out' = out /\ served' = served
  BY DEF Ask
<1>3. /\ upload \in Uploads /\ upload.store \in {"memory", "disk", "part"}
      /\ upload.declared \in Int
  BY <1>1, UploadFacts DEF StreamsTypeOK
<1>4. Len(out) \in Nat
  BY <1>1, TakenType
<1>5. /\ read'.left \in Nat /\ read'.got = <<>> /\ read'.err = "none"
      /\ stage = "reading" /\ upload.store = "memory" => read'.left = upload.declared - Len(out)
      /\ stage = "reading" /\ upload.store = "disk" => read'.left = CopyBuffer
      /\ read' \in ReadCall
  <2> DEFINE left == IF stage = "extra" \/ upload.store = "part" THEN ReadBuffer
                     ELSE IF upload.store = "disk" THEN CopyBuffer
                     ELSE upload.declared - Len(out)
  <2>1. read' = [left |-> left, got |-> <<>>, err |-> "none"]
    BY DEF Ask
  <2>2. CopyBuffer \in Nat /\ ReadBuffer \in Nat
    BY StreamsAssumption
  <2>3. left \in Nat
    <3>1. CASE stage = "extra"
      BY <2>2, <3>1
    <3>2. CASE stage = "reading" /\ upload.store = "memory"
      <4>1. Len(out) < upload.declared
        BY <1>1, <3>2 DEF LengthsAgree
      <4>2. upload.declared - Len(out) \in Nat
        BY <1>3, <1>4, <4>1
      <4> QED  BY <3>2, <4>2
    <3>3. CASE stage = "reading" /\ upload.store = "disk"
      BY <2>2, <3>3
    <3>4. CASE stage = "reading" /\ upload.store = "part"
      BY <2>2, <3>4
    <3> QED  BY <1>2, <1>3, <3>1, <3>2, <3>3, <3>4
  <2>4. /\ stage = "reading" /\ upload.store = "memory" => left = upload.declared - Len(out)
        /\ stage = "reading" /\ upload.store = "disk" => left = CopyBuffer
    OBVIOUS
  <2> HIDE DEF left
  <2> QED  BY <2>1, <2>3, <2>4 DEF ReadCall
<1>6. StreamsTypeOK'
  BY <1>1, <1>2, <1>5 DEF StreamsTypeOK
<1>7. Taken' = Taken /\ Taken = out
  <2>1. Taken = out
    BY <1>1, <1>2, NoReadIs, TakenType
  <2>2. (read.got = <<>> => Taken = out)'
    BY <1>6, TakenType, PTL
  <2> QED  BY <1>2, <1>5, <2>1, <2>2
<1>8. InStep'
  <2>1. Active
    BY <1>2 DEF Active
  <2> QED  BY <1>1, <1>2, <1>5, <1>7, <2>1, NoReadIs, InStepKept
<1>9. EndsAreTrue'
  BY <1>5 DEF EndsAreTrue
<1>10. LengthsAgree'
  <2>1. (stage = "extra" => upload.store = "memory" /\ upload.declared <= Len(out))'
    BY <1>1, <1>2 DEF LengthsAgree
  <2>2. ASSUME stage = "reading", upload.store = "memory"
        PROVE  /\ Len(out') < upload.declared
               /\ Len(Taken') + read'.left = upload.declared
    <3>1. Len(out') < upload.declared
      BY <1>1, <1>2, <2>2 DEF LengthsAgree
    <3>2. Len(Taken') = Len(out)
      BY <1>7
    <3>3. Len(out) + (upload.declared - Len(out)) = upload.declared
      BY <1>3, <1>4
    <3> QED  BY <1>5, <2>2, <3>1, <3>2, <3>3
  <2>3. upload.declared <= upload.declared
    BY <1>3
  <2>4. stage' # "request" /\ Active' /\ read'.err # "idle"
    BY <1>2, <1>5 DEF Active
  <2>5. ASSUME stage = "reading", upload.store = "disk"
        PROVE  Len(Taken') + read'.left = Len(out') + CopyBuffer
    BY <1>2, <1>5, <1>7, <2>5
  <2> QED  BY <1>2, <2>1, <2>2, <2>3, <2>4, <2>5 DEF LengthsAgree
<1>11. Admitted' /\ AcceptedIsWhole' /\ HonestIsAccepted' /\ FitsInt64'
  BY <1>1, <1>2 DEF Admitted, AcceptedIsWhole, HonestIsAccepted, FitsInt64
<1> QED  BY <1>6, <1>8, <1>9, <1>10, <1>11 DEF StreamsInv

\* What a read from the network does to what has been taken.
LEMMA TakeFacts ==
    ASSUME StreamsTypeOK, NEW m \in Nat, NEW r \in NetworkReads(m), NEW left \in Nat,
           Take(r, left), out' = out
    PROVE  /\ r.n \in 0 .. Len(wire) /\ r.n <= m
           /\ wire' = SubSeq(wire, r.n + 1, Len(wire)) /\ wire' \in Seq(Symbol)
           /\ Taken' = Taken \o SubSeq(wire, 1, r.n)
           /\ Len(Taken') = Len(Taken) + r.n
           /\ read' \in ReadCall /\ read'.left = left
           /\ read'.err \in {"none", upload.ending}
           /\ read'.err # "none" => wire' = <<>>
<1> DEFINE n == r.n
           g == SubSeq(wire, 1, n)
<1>1. /\ upload \in Uploads /\ wire \in Seq(Symbol) /\ Len(wire) \in Nat
      /\ read \in ReadCall /\ out \in Seq(Symbol)
  BY DEF StreamsTypeOK
<1>2. upload.ending \in {"eof", "broken"}
  BY <1>1, UploadFacts
<1>3. /\ n \in 0 .. Len(wire) /\ n <= m
      /\ r.err \in {"none", upload.ending} /\ (r.err # "none" => n = Len(wire))
  <2>1. CASE r \in {[n |-> i, err |-> "none"] : i \in {i \in 1 .. m : i <= Len(wire)}}
    BY <1>1, <2>1
  <2>2. CASE r \in {[n |-> i, err |-> upload.ending] : i \in {i \in 0 .. m : i = Len(wire)}}
    BY <1>1, <2>2
  <2> QED  BY <2>1, <2>2 DEF NetworkReads
<1>4. wire' = SubSeq(wire, n + 1, Len(wire)) /\ read' = [left |-> left, got |-> read.got \o g, err |-> r.err]
  BY DEF Take
<1>5. read.got \in Seq(Symbol)
  BY <1>1 DEF ReadCall
<1> HIDE DEF n, g
<1>6. wire' \in Seq(Symbol) /\ Len(wire') = Len(wire) - n
  BY <1>1, <1>3, <1>4, Rest
<1>7. g \in Seq(Symbol) /\ Len(g) = n
  BY <1>1, <1>3, First DEF g
<1>8. read.got \o g \in Seq(Symbol)
  BY <1>5, <1>7, ConcatProperties
<1>9. read' \in ReadCall /\ read'.left = left /\ read'.err = r.err /\ read'.got = read.got \o g
  <2> DEFINE h == read.got \o g
  <2>0. h = read.got \o g
    OBVIOUS
  <2>1. h \in Seq(Symbol) /\ read' = [left |-> left, got |-> h, err |-> r.err]
    BY <1>4, <1>8
  <2>2. r.err \in {"idle", "none", "eof", "broken", "expected integer"}
    BY <1>2, <1>3
  <2> HIDE DEF h
  <2>3. read' \in ReadCall /\ read'.left = left /\ read'.err = r.err /\ read'.got = h
    BY <2>1, <2>2 DEF ReadCall
  <2> QED  BY <2>0, <2>3, Zenon
<1>10. Taken' = Taken \o g
  <2>1. (out \o read.got) \o g = out \o (read.got \o g)
    <3>1. out \in Seq(Symbol) /\ read.got \in Seq(Symbol) /\ g \in Seq(Symbol)
      BY <1>1, <1>5, <1>7
    <3> HIDE DEF g
    <3> DEFINE a == out
               b == read.got
    <3>2. a \in Seq(Symbol) /\ b \in Seq(Symbol) /\ g \in Seq(Symbol)
      BY <3>1
    <3> HIDE DEF a, b
    <3>3. (a \o b) \o g = a \o (b \o g)
      BY <3>2, ConcatAssociative
    <3> QED  BY <3>3, Zenon DEF a, b
  <2>2. Taken = out \o read.got /\ Taken' = out' \o read'.got
    BY DEF Taken
  <2>3. Taken' = out \o (read.got \o g)
    BY <1>9, <2>2, Zenon
  <2> QED  BY <2>1, <2>2, <2>3, Zenon
<1>11. Len(Taken') = Len(Taken) + n
  <2>1. Taken \in Seq(Symbol)
    BY TakenType
  <2>2. Len(Taken \o g) = Len(Taken) + Len(g)
    BY <1>7, <2>1, ConcatProperties
  <2> QED  BY <1>7, <1>10, <2>2, Zenon
<1>12. read'.err # "none" => wire' = <<>>
  BY <1>3, <1>6, <1>9
<1> QED  BY <1>3, <1>4, <1>6, <1>9, <1>10, <1>11, <1>12 DEF n, g

\* The parts of the invariant that a read does not touch.
LEMMA Untouched ==
    ASSUME Admitted, AcceptedIsWhole, HonestIsAccepted, FitsInt64,
           upload' = upload, stage' = stage, out' = out, served' = served
    PROVE  (Admitted /\ AcceptedIsWhole /\ HonestIsAccepted /\ FitsInt64)'
BY DEF Admitted, AcceptedIsWhole, HonestIsAccepted, FitsInt64

LEMMA LengthsKept ==
    ASSUME StreamsTypeOK, LengthsAgree, upload' = upload, stage' = stage, out' = out,
           Reading, read'.err # "idle",
           Len(Taken') \in Nat, read'.left \in Nat,
           Len(Taken') + read'.left <= Len(Taken) + read.left,
           Decodes(upload) => Len(Taken') + read'.left = Len(Taken) + read.left
    PROVE  Active /\ LengthsAgree'
<1>1. read # NoRead /\ Active /\ stage # "request"
  <2>1. read # NoRead
    BY NoReadIs DEF Reading
  <2> QED  BY <2>1 DEF LengthsAgree
<1>2. upload.declared \in Int /\ Len(Taken) \in Nat /\ read.left \in Nat
  <2>1. upload \in Uploads /\ read \in ReadCall
    BY DEF StreamsTypeOK
  <2>2. Taken \in Seq(Symbol)
    BY TakenType
  <2>3. upload.declared \in Int
    BY <2>1, UploadFacts
  <2>4. Len(Taken) \in Nat
    BY <2>2
  <2> QED  BY <2>1, <2>3, <2>4 DEF ReadCall
<1>3. (stage = "extra" => upload.store = "memory" /\ upload.declared <= Len(out))'
  BY DEF LengthsAgree
<1>4. ASSUME stage = "reading", upload.store = "memory"
      PROVE  /\ Len(out') < upload.declared
             /\ Len(Taken') + read'.left <= upload.declared
             /\ Decodes(upload) => Len(Taken') + read'.left = upload.declared
  <2>1. Len(out') < upload.declared
    BY <1>4 DEF LengthsAgree
  <2>2. Len(Taken) + read.left <= upload.declared
        /\ (Decodes(upload) => Len(Taken) + read.left = upload.declared)
    BY <1>1, <1>4 DEF LengthsAgree
  <2>3. Len(Taken') + read'.left <= upload.declared
    BY <1>2, <2>2
  <2> QED  BY <2>1, <2>2, <2>3
<1>5. Active'
  BY <1>1 DEF Active
<1>6. ASSUME stage = "reading", upload.store = "disk", Decodes(upload)
      PROVE  Len(Taken') + read'.left = Len(out') + CopyBuffer
  <2>1. Len(Taken) + read.left = Len(out) + CopyBuffer
    BY <1>1, <1>6 DEF LengthsAgree
  <2> QED  BY <1>6, <2>1
<1> QED  BY <1>1, <1>3, <1>4, <1>5, <1>6 DEF LengthsAgree

LEMMA PlainReadStep == StreamsInv /\ PlainRead => StreamsInv'
<1> SUFFICES ASSUME StreamsInv, PlainRead
             PROVE  StreamsInv'
  OBVIOUS
<1>1. StreamsTypeOK /\ InStep /\ LengthsAgree /\ Admitted /\ AcceptedIsWhole
      /\ HonestIsAccepted /\ FitsInt64
  BY DEF StreamsInv
<1>2. /\ Reading /\ ~Decodes(upload)
      /\ upload' = upload /\ stage' = stage /\ chunkRemain' = chunkRemain
      /\ notFirstChunk' = notFirstChunk /\ out' = out /\ served' = served
  BY DEF PlainRead
<1>3. upload \in Uploads /\ upload.ending \in {"eof", "broken"} /\ read.left \in Nat
  BY <1>1, UploadFacts DEF StreamsTypeOK, ReadCall
<1>4. PICK r \in NetworkReads(read.left) : Take(r, 0)
  BY DEF PlainRead
<1>5. /\ r.n \in 0 .. Len(wire) /\ r.n <= read.left
      /\ wire' = SubSeq(wire, r.n + 1, Len(wire)) /\ wire' \in Seq(Symbol)
      /\ Taken' = Taken \o SubSeq(wire, 1, r.n)
      /\ Len(Taken') = Len(Taken) + r.n
      /\ read' \in ReadCall /\ read'.left = 0
      /\ read'.err \in {"none", upload.ending}
      /\ read'.err # "none" => wire' = <<>>
  BY <1>1, <1>2, <1>3, <1>4, TakeFacts, 0 \in Nat
<1>6. Taken \in Seq(Symbol) /\ Len(Taken) \in Nat /\ Len(wire) \in Nat
  <2>1. Taken \in Seq(Symbol)
    BY <1>1, TakenType
  <2> QED  BY <1>1, <2>1, TakenType
<1>7. StreamsTypeOK'
  BY <1>1, <1>2, <1>5 DEF StreamsTypeOK
<1>8. Active /\ LengthsAgree'
  <2>1. Len(Taken') \in Nat /\ Len(Taken') + read'.left <= Len(Taken) + read.left
    <3>1. /\ Len(Taken') = Len(Taken) + r.n /\ read'.left = 0
          /\ r.n \in Nat /\ r.n <= read.left
      BY <1>5
    <3> QED  BY <1>3, <1>6, <3>1
  <2> QED  BY <1>1, <1>2, <1>3, <1>5, <2>1, LengthsKept
<1>9. InStep'
  <2>1. PlainInStep(upload, wire, Taken)
    BY <1>1, <1>2, <1>8 DEF InStep
  <2>2. PlainInStep(upload, wire', Taken')
    <3>1. PlainInStep(upload, SubSeq(wire, r.n + 1, Len(wire)), Taken \o SubSeq(wire, 1, r.n))
      BY <1>3, <1>5, <2>1, PlainTake
    <3> QED  BY <1>5, <3>1, Zenon
  <2> QED  BY <1>2, <1>3, <1>5, <2>2 DEF InStep
<1>10. EndsAreTrue'
  BY <1>2, <1>5 DEF EndsAreTrue
<1>11. (Admitted /\ AcceptedIsWhole /\ HonestIsAccepted /\ FitsInt64)'
  BY <1>1, <1>2, Untouched
<1> QED  BY <1>7, <1>8, <1>9, <1>10, <1>11 DEF StreamsInv

\* When the chunks fit, a chunk that is left has room in what is asked for.
LEMMA ChunkHasRoom ==
    ASSUME StreamsTypeOK, LengthsAgree, Active, Reading, Decodes(upload), Fits(upload),
           DecodedInStep(upload, wire, Taken, chunkRemain, notFirstChunk),
           ~AtItsEnd(upload, wire, Taken)
    PROVE  chunkRemain <= read.left
<1>1. upload \in Uploads /\ chunkRemain \in Nat /\ read.left \in Nat /\ upload.signed
  BY DEF StreamsTypeOK, ReadCall, Decodes
<1>2. PICK p \in 0 .. Len(Sent(upload)) :
         DecodedAt(upload, p, wire, Taken, chunkRemain, notFirstChunk)
  BY DEF DecodedInStep
<1>3. Taken \in Seq(Symbol) /\ Len(Taken) + chunkRemain <= Total(upload.sizes)
  BY <1>1, <1>2, FitsRoom
<1>4. /\ Len(Taken) \in Nat /\ Len(Taken) = Len(out) + Len(read.got)
      /\ Len(out) \in Nat /\ Len(read.got) \in Nat
  <2>1. Len(Taken) \in Nat
    BY <1>3
  <2> QED  BY <2>1, TakenType
<1>5. /\ Total(upload.sizes) \in Nat /\ upload.declared \in Int /\ CopyBuffer \in Nat
      /\ upload.store \in {"memory", "disk"}
      /\ upload.store = "memory" => Total(upload.sizes) <= upload.declared
      /\ upload.store = "disk" => Total(upload.sizes) <= CopyBuffer
  BY <1>1, UploadFacts, StreamsAssumption DEF Fits, Room
<1>6. read # NoRead
  BY NoReadIs DEF Reading
<1>7. CASE stage = "reading"
  <2>1. CASE upload.store = "memory"
    <3>1. Len(Taken) + read.left = upload.declared
      BY <1>6, <1>7, <2>1 DEF LengthsAgree
    <3> QED  BY <1>1, <1>3, <1>4, <1>5, <2>1, <3>1
  <2>2. CASE upload.store = "disk"
    <3>1. Len(Taken) + read.left = Len(out) + CopyBuffer
      BY <1>6, <1>7, <2>2 DEF LengthsAgree
    <3> HIDE DEF Taken
    <3>2. Len(Taken) + chunkRemain <= CopyBuffer
      BY <1>1, <1>3, <1>4, <1>5, <2>2
    <3> QED  BY <1>1, <1>4, <1>5, <3>1, <3>2
  <2> QED  BY <1>5, <2>1, <2>2
<1>8. CASE stage = "extra"
  <2>1. upload.store = "memory" /\ upload.declared <= Len(out)
    BY <1>8 DEF LengthsAgree
  <2> QED  BY <1>1, <1>3, <1>4, <1>5, <2>1
<1>9. stage # "request"
  BY <1>6 DEF LengthsAgree
<1> QED  BY <1>7, <1>8, <1>9 DEF Active

\* The two reads inside of a chunk.
LEMMA ReadOfChunk ==
    ASSUME StreamsInv, Reading, Decodes(upload), chunkRemain > 0,
           NEW m \in Nat, m <= chunkRemain, m <= read.left,
           NEW r \in NetworkReads(m), Take(r, read.left - r.n),
           chunkRemain' \in Nat, chunkRemain' <= chunkRemain - r.n,
           chunkRemain <= read.left => chunkRemain' = chunkRemain - r.n,
           upload' = upload, stage' = stage, notFirstChunk' = notFirstChunk,
           out' = out, served' = served
    PROVE  StreamsInv'
<1>1. StreamsTypeOK /\ InStep /\ LengthsAgree /\ Admitted /\ AcceptedIsWhole
      /\ HonestIsAccepted /\ FitsInt64
  BY DEF StreamsInv
<1>2. /\ upload \in Uploads /\ upload.ending \in {"eof", "broken"} /\ read.left \in Nat
      /\ chunkRemain \in Nat /\ upload.signed
  BY <1>1, UploadFacts DEF StreamsTypeOK, ReadCall, Decodes
<1>3. Taken \in Seq(Symbol) /\ Len(Taken) \in Nat /\ Len(wire) \in Nat
  <2>1. Taken \in Seq(Symbol)
    BY <1>1, TakenType
  <2> QED  BY <1>1, <2>1, TakenType
<1> DEFINE left == read.left - r.n
<1>4. left \in Nat /\ r.n \in Nat /\ left = read.left - r.n
  <2>1. r.n \in 0 .. m
    BY <1>3, <1>2 DEF NetworkReads
  <2> QED  BY <1>2, <2>1
<1>5. Take(r, left)
  OBVIOUS
<1> HIDE DEF left
<1>6. /\ r.n \in 0 .. Len(wire) /\ r.n <= m
      /\ wire' = SubSeq(wire, r.n + 1, Len(wire)) /\ wire' \in Seq(Symbol)
      /\ Taken' = Taken \o SubSeq(wire, 1, r.n)
      /\ Len(Taken') = Len(Taken) + r.n
      /\ read' \in ReadCall /\ read'.left = left
      /\ read'.err \in {"none", upload.ending}
      /\ read'.err # "none" => wire' = <<>>
  BY <1>1, <1>4, <1>5, TakeFacts
<1>7. StreamsTypeOK'
  BY <1>1, <1>6 DEF StreamsTypeOK
<1>8. Active /\ LengthsAgree'
  <2>1. /\ Len(Taken') \in Nat /\ Len(Taken') + read'.left <= Len(Taken) + read.left
        /\ Len(Taken') + read'.left = Len(Taken) + read.left
    <3>1. Len(Taken') = Len(Taken) + r.n /\ read'.left = read.left - r.n
      BY <1>4, <1>6
    <3> HIDE DEF Taken
    <3> QED  BY <1>2, <1>3, <1>4, <3>1
  <2> QED  BY <1>1, <1>2, <1>4, <1>6, <2>1, LengthsKept
<1>9. InStep'
  <2>1. read.err = "none"
    BY DEF Reading
  <2>2. ASSUME Fits(upload) \/ upload.store = "disk"
        PROVE  DecodedInStep(upload, wire', Taken', chunkRemain', notFirstChunk')
    <3>1. DecodedInStep(upload, wire, Taken, chunkRemain, notFirstChunk)
      BY <1>1, <1>8, <2>1, <2>2 DEF InStep
    <3>2. Fits(upload) /\ ~AtItsEnd(upload, wire, Taken) => chunkRemain' = chunkRemain - r.n
      BY <1>1, <1>8, <3>1, ChunkHasRoom
    <3>3. r.n <= chunkRemain
      BY <1>2, <1>4, <1>6
    <3>4. DecodedInStep(upload, SubSeq(wire, r.n + 1, Len(wire)), Taken \o SubSeq(wire, 1, r.n),
                        chunkRemain', notFirstChunk)
      BY <1>2, <1>3, <1>6, <3>1, <3>2, <3>3, DecodedTake
    <3> QED  BY <1>6, <3>4, Zenon
  <2> QED  BY <1>2, <1>6, <2>2 DEF InStep
<1>10. EndsAreTrue'
  BY <1>6 DEF EndsAreTrue
<1>11. (Admitted /\ AcceptedIsWhole /\ HonestIsAccepted /\ FitsInt64)'
  BY <1>1, Untouched
<1> QED  BY <1>7, <1>8, <1>9, <1>10, <1>11 DEF StreamsInv

LEMMA ReadInChunkStep == StreamsInv /\ ReadInChunk => StreamsInv'
<1> SUFFICES ASSUME StreamsInv, ReadInChunk
             PROVE  StreamsInv'
  OBVIOUS
<1>1. StreamsTypeOK
  BY DEF StreamsInv
<1>2. read.left \in Nat /\ chunkRemain \in Nat /\ wire \in Seq(Symbol)
  BY <1>1 DEF StreamsTypeOK, ReadCall
<1>3. /\ Reading /\ Decodes(upload) /\ chunkRemain > read.left
      /\ chunkRemain' = chunkRemain - read.left
      /\ upload' = upload /\ stage' = stage
      /\ notFirstChunk' = notFirstChunk /\ out' = out /\ served' = served
  BY DEF ReadInChunk
<1>4. PICK r \in NetworkReads(read.left) : Take(r, read.left - r.n)
  BY DEF ReadInChunk
<1>5. r.n \in Nat /\ r.n <= read.left
  <2>1. Len(wire) \in Nat
    BY <1>2
  <2> QED  BY <1>2, <2>1 DEF NetworkReads
<1>6. /\ read.left <= chunkRemain /\ read.left <= read.left /\ chunkRemain > 0
      /\ chunkRemain' \in Nat /\ chunkRemain' <= chunkRemain - r.n
      /\ chunkRemain <= read.left => chunkRemain' = chunkRemain - r.n
  BY <1>2, <1>3, <1>5
<1> QED  BY <1>2, <1>3, <1>4, <1>6, ReadOfChunk

LEMMA ReadRestOfChunkStep == StreamsInv /\ ReadRestOfChunk => StreamsInv'
<1> SUFFICES ASSUME StreamsInv, ReadRestOfChunk
             PROVE  StreamsInv'
  OBVIOUS
<1>1. StreamsTypeOK
  BY DEF StreamsInv
<1>2. read.left \in Nat /\ chunkRemain \in Nat /\ wire \in Seq(Symbol)
  BY <1>1 DEF StreamsTypeOK, ReadCall
<1>3. /\ Reading /\ Decodes(upload) /\ chunkRemain > 0 /\ chunkRemain <= read.left
      /\ upload' = upload /\ stage' = stage
      /\ notFirstChunk' = notFirstChunk /\ out' = out /\ served' = served
  BY DEF ReadRestOfChunk
<1>4. PICK r \in NetworkReads(chunkRemain) :
         Take(r, read.left - r.n) /\ chunkRemain' = chunkRemain - r.n
  BY DEF ReadRestOfChunk
<1>5. r.n \in Nat /\ r.n <= chunkRemain
  <2>1. Len(wire) \in Nat
    BY <1>2
  <2> QED  BY <1>2, <2>1 DEF NetworkReads
<1>6. /\ chunkRemain <= chunkRemain
      /\ chunkRemain' \in Nat /\ chunkRemain' <= chunkRemain - r.n
  BY <1>2, <1>4, <1>5
<1> QED  BY <1>2, <1>3, <1>4, <1>6, ReadOfChunk

LEMMA ReadChunkHeaderStep == StreamsInv /\ ReadChunkHeader => StreamsInv'
<1> SUFFICES ASSUME StreamsInv, ReadChunkHeader
             PROVE  StreamsInv'
  OBVIOUS
<1> DEFINE at == IF notFirstChunk THEN 3 ELSE 1
           bad == at <= Len(wire) /\ wire[at].is # "header"
           short == Len(wire) < at + 1
           err == IF bad THEN "expected integer" ELSE IF short THEN upload.ending ELSE "none"
           n == IF at <= Len(wire) THEN wire[at].n ELSE 0
           w2 == IF short THEN <<>> ELSE SubSeq(wire, at + 2, Len(wire))
<1>1. StreamsTypeOK /\ InStep /\ LengthsAgree /\ Admitted /\ AcceptedIsWhole
      /\ HonestIsAccepted /\ FitsInt64
  BY DEF StreamsInv
<1>2. /\ Reading /\ Decodes(upload) /\ chunkRemain = 0
      /\ upload' = upload /\ stage' = stage /\ out' = out /\ served' = served
      /\ notFirstChunk' = TRUE /\ wire' = w2
      /\ read' = [read EXCEPT !.err = err]
      /\ chunkRemain' = IF at <= Len(wire) /\ ~bad THEN wire[at].n ELSE 0
  BY DEF ReadChunkHeader
<1>3. /\ upload \in Uploads /\ upload.ending \in {"eof", "broken"} /\ upload.signed
      /\ read \in ReadCall /\ wire \in Seq(Symbol) /\ Len(wire) \in Nat
      /\ notFirstChunk \in BOOLEAN
  <2>1. upload \in Uploads /\ read \in ReadCall /\ wire \in Seq(Symbol) /\ notFirstChunk \in BOOLEAN
    BY <1>1 DEF StreamsTypeOK
  <2>2. upload.ending \in {"eof", "broken"} /\ upload.signed
    BY <1>2, <2>1, UploadFacts DEF Decodes
  <2>3. Len(wire) \in Nat
    BY <2>1
  <2> QED  BY <2>1, <2>2, <2>3
<1>4. at \in {1, 3}
  OBVIOUS
<1>5. bad \in BOOLEAN /\ bad <=> (at <= Len(wire) /\ wire[at].is # "header")
  OBVIOUS
<1>6. at <= Len(wire) => wire[at].n \in Nat
  <2>1. at <= Len(wire) => wire[at] \in Symbol
    BY <1>3, <1>4
  <2> QED  BY <2>1 DEF Symbol
<1>7. w2 \in Seq(Symbol)
  <2>1. CASE short
    BY <2>1
  <2>2. CASE ~short
    <3>1. at + 1 \in 0 .. Len(wire) /\ (at + 1) + 1 = at + 2
      BY <1>3, <1>4, <2>2
    <3> DEFINE w3 == SubSeq(wire, (at + 1) + 1, Len(wire))
    <3>2. w3 \in Seq(Symbol)
      BY <1>3, <3>1, Rest
    <3>3. w3 = SubSeq(wire, at + 2, Len(wire)) /\ w2 = SubSeq(wire, at + 2, Len(wire))
      BY <2>2, <3>1
    <3> HIDE DEF w3
    <3> QED  BY <3>2, <3>3, Zenon
  <2> QED  BY <2>1, <2>2
<1>8. err \in {"expected integer", "none", upload.ending} /\ (bad <=> err = "expected integer")
      /\ (err = upload.ending => w2 = <<>>)
  BY <1>3
<1>9. chunkRemain' \in Nat /\ (~bad => chunkRemain' = n)
  BY <1>2, <1>6
<1>10. at = IF notFirstChunk THEN 3 ELSE 1
  OBVIOUS
<1>11. (Fits(upload) \/ upload.store = "disk") /\ Active =>
          /\ Fits(upload) => ~bad
          /\ ~bad => DecodedInStep(upload, w2, Taken, n, TRUE)
  <2>1. ASSUME Fits(upload) \/ upload.store = "disk", Active
        PROVE  DecodedInStep(upload, wire, Taken, 0, notFirstChunk)
    <3>1. read.err = "none"
      BY <1>2 DEF Reading
    <3>2. DecodedInStep(upload, wire, Taken, chunkRemain, notFirstChunk)
      BY <1>1, <1>2, <2>1, <3>1 DEF InStep
    <3> QED  BY <1>2, <3>2, Zenon
  <2>2. ASSUME Fits(upload) \/ upload.store = "disk", Active
        PROVE  /\ Fits(upload) => ~bad
               /\ ~bad => DecodedInStep(upload, w2, Taken, n, TRUE)
    BY <1>3, <1>5, <1>10, <2>1, <2>2, DecodedHeader
  <2> QED  BY <2>2
<1> HIDE DEF at, bad, short, err, n, w2
<1>12. read' \in ReadCall /\ read'.err = err /\ read'.left = read.left /\ read'.got = read.got
  BY <1>2, <1>3, <1>8 DEF ReadCall
<1>13. Taken' = Taken
  BY <1>2, <1>12 DEF Taken
<1>14. StreamsTypeOK'
  BY <1>1, <1>2, <1>7, <1>9, <1>12 DEF StreamsTypeOK
<1>15. Active /\ LengthsAgree'
  <2>1. Taken \in Seq(Symbol)
    BY <1>1, TakenType
  <2>2. Len(Taken') \in Nat /\ Len(Taken) \in Nat /\ Len(Taken') = Len(Taken)
    BY <1>13, <2>1
  <2>3. read'.left \in Nat /\ read.left \in Nat /\ read'.left = read.left
    BY <1>3, <1>12 DEF ReadCall
  <2> HIDE DEF Taken
  <2>4. Len(Taken') + read'.left <= Len(Taken) + read.left
        /\ Len(Taken') + read'.left = Len(Taken) + read.left
    BY <2>2, <2>3
  <2>5. read'.err # "idle"
    BY <1>3, <1>8, <1>12
  <2> QED  BY <1>1, <1>2, <2>2, <2>3, <2>4, <2>5, LengthsKept
<1>16. InStep'
  <2>1. Fits(upload) => read'.err # "expected integer"
    BY <1>8, <1>11, <1>12, <1>15
  <2>2. ASSUME Fits(upload) \/ upload.store = "disk", read'.err # "expected integer"
        PROVE  DecodedInStep(upload, wire', Taken', chunkRemain', notFirstChunk')
    <3>1. ~bad /\ chunkRemain' = n
      BY <1>8, <1>9, <1>12, <2>2
    <3>2. DecodedInStep(upload, w2, Taken, n, TRUE)
      BY <1>11, <1>15, <2>2, <3>1
    <3> QED  BY <1>2, <1>13, <3>1, <3>2, Zenon
  <2> QED  BY <1>2, <2>1, <2>2 DEF InStep
<1>17. EndsAreTrue'
  BY <1>2, <1>3, <1>8, <1>12 DEF EndsAreTrue
<1>18. (Admitted /\ AcceptedIsWhole /\ HonestIsAccepted /\ FitsInt64)'
  BY <1>1, <1>2, Untouched
<1> QED  BY <1>14, <1>15, <1>16, <1>17, <1>18 DEF StreamsInv

\* Only an object is decoded, and an object goes to memory or to a disk.
LEMMA FittingFits ==
    ASSUME NEW u \in Uploads, Decodes(u), ChunksFit(u)
    PROVE  Fits(u)
<1>1. u.store \in {"memory", "disk", "part"} /\ WellFormed(u)
  BY UploadFacts
<1>2. u.store # "part"
  BY <1>1 DEF WellFormed, Decodes
<1> QED  BY <1>1, <1>2 DEF ChunksFit, Fits

\* When the end of the body has been read, what has been taken is the payload.
LEMMA EndIsWhole ==
    ASSUME StreamsTypeOK, InStep, EndsAreTrue, Active, read.err \in {"eof", "broken"}
    PROVE  /\ read.err = upload.ending
           /\ ChunksFit(upload) => Taken = Payload(upload)
           /\ upload.store = "disk" => Len(Taken) <= MaxInt
<1>1. /\ upload \in Uploads /\ WellFormed(upload) /\ upload.signed \in BOOLEAN
      /\ upload.via \in {"object", "browser", "part"}
      /\ Total(upload.sizes) \in Nat /\ Total(upload.sizes) <= MaxInt
  BY UploadFacts DEF StreamsTypeOK
<1>2. read.err = upload.ending /\ wire = <<>> /\ read.err # "expected integer"
  BY DEF EndsAreTrue
<1>3. Taken \in Seq(Symbol) /\ Len(Taken) \in Nat
  <2>1. Taken \in Seq(Symbol)
    BY TakenType
  <2> QED  BY <2>1
<1>4. CASE ~Decodes(upload)
  <2>1. Taken = Sent(upload)
    <3>1. PlainInStep(upload, <<>>, Taken)
      BY <1>2, <1>4 DEF InStep
    <3> QED  BY <1>1, <3>1, PlainEnd
  <2>2. ASSUME upload.store = "disk"
        PROVE  Len(Taken) <= MaxInt
    <3>1. ~upload.signed
      BY <1>1, <1>4, <2>2 DEF WellFormed, Decodes
    <3>2. /\ Len(Sent(upload)) \in 0 .. Len(Body(upload))
          /\ Body(upload) = Content(Total(upload.sizes))
      BY <1>1, <3>1, BodyFacts
    <3>3. Len(Content(Total(upload.sizes))) = Total(upload.sizes)
      BY <1>1, ContentGrows, 0 \in Nat
    <3>4. Len(Taken) \in 0 .. Total(upload.sizes)
      BY <2>1, <3>2, <3>3, Zenon
    <3>5. MaxInt \in Nat
      BY RangesAssumption
    <3> HIDE DEF Taken
    <3> QED  BY <1>1, <3>4, <3>5
  <2> QED  BY <1>2, <1>4, <2>1, <2>2 DEF Payload
<1>5. CASE Decodes(upload)
  <2>1. upload.signed
    BY <1>5 DEF Decodes
  <2>2. ASSUME Fits(upload) \/ upload.store = "disk"
        PROVE  DecodedInStep(upload, <<>>, Taken, chunkRemain, notFirstChunk)
    BY <1>2, <1>5, <2>2 DEF InStep
  <2>3. ASSUME ChunksFit(upload)
        PROVE  Taken = Payload(upload)
    <3>1. Fits(upload)
      BY <1>1, <1>5, <2>3, FittingFits
    <3>2. Taken = Data(Sent(upload))
      BY <1>1, <2>2, <3>1, DecodedEnd
    <3> QED  BY <1>5, <3>2 DEF Payload
  <2>4. ASSUME upload.store = "disk"
        PROVE  Len(Taken) <= MaxInt
    <3>1. Len(Taken) <= Len(Data(Sent(upload)))
      BY <1>1, <2>2, <2>4, DecodedEnd
    <3>2. Len(Data(Sent(upload))) <= Total(upload.sizes) /\ Data(Sent(upload)) \in Seq(Symbol)
      BY <1>1, <2>1, SentData
    <3>3. Len(Data(Sent(upload))) \in Nat
      BY <3>2
    <3>4. MaxInt \in Nat
      BY RangesAssumption
    <3> HIDE DEF Taken
    <3> QED  BY <1>1, <1>3, <3>1, <3>2, <3>3, <3>4
  <2> QED  BY <1>2, <2>3, <2>4
<1> QED  BY <1>4, <1>5

LEMMA HashedIs ==
    ASSUME NEW all
    PROVE  /\ Hashed(all) = "none" <=> read.err = "none"
           /\ Hashed(all) = "eof" <=> /\ read.err = "eof" /\ upload.digest # "wrong"
                                      /\ upload.digest = "right" =>
                                            all = Content(Total(upload.sizes))
BY DEF Hashed

\* The digest of an honest client is the payload's.
LEMMA HonestDigest ==
    ASSUME NEW u \in Uploads, Honest(u)
    PROVE  /\ u.digest # "wrong"
           /\ u.digest = "right" => Payload(u) = Content(Total(u.sizes))
<1>1. u.missing = 0 /\ u.digest \in {"none", "right"}
  BY DEF Honest
<1>2. WellFormed(u) /\ u.signed \in BOOLEAN /\ u.via \in {"object", "browser", "part"}
  BY UploadFacts
<1>3. Sent(u) = Body(u)
  BY <1>1, BodyFacts
<1>4. ASSUME u.digest = "right"
      PROVE  Payload(u) = Content(Total(u.sizes))
  <2>1. CASE Decodes(u)
    <3>1. Data(Body(u)) = Content(Total(u.sizes))
      BY <2>1, BodyFacts DEF Decodes
    <3> QED  BY <1>3, <2>1, <3>1 DEF Payload
  <2>2. CASE ~Decodes(u)
    <3>1. ~u.signed
      BY <1>2, <1>4, <2>2 DEF WellFormed, Decodes
    <3>2. Body(u) = Content(Total(u.sizes))
      BY <3>1, BodyFacts
    <3> QED  BY <1>3, <2>2, <3>2 DEF Payload
  <2> QED  BY <2>1, <2>2
<1> QED  BY <1>1, <1>4

\* What every store does with what a Read call returns.
LEMMA StoreStep ==
    ASSUME StreamsInv, Returned, NEW next, Store(next, Taken),
           next \in {"reading", "extra", "stored", "refused"},
           next = "reading" => /\ read.err = "none"
                               /\ upload.store = "memory" => stage = "reading" /\ Len(Taken) # upload.declared,
           next = "extra" => upload.store = "memory" /\ upload.declared <= Len(Taken),
           next = "stored" => /\ Hashed(Taken) = "eof"
                              /\ upload.store # "disk" => Len(Taken) = upload.declared,
           next = "refused" => /\ read.err # "none"
                               /\ ~(Hashed(Taken) = "eof" /\ Len(Taken) = upload.declared)
    PROVE  StreamsInv'
<1>1. StreamsTypeOK /\ InStep /\ EndsAreTrue /\ LengthsAgree /\ Admitted /\ FitsInt64
  BY DEF StreamsInv
<1>2. /\ stage' = next /\ out' = Taken /\ read' = NoRead
      /\ upload' = upload /\ wire' = wire /\ chunkRemain' = chunkRemain
      /\ notFirstChunk' = notFirstChunk /\ served' = served
  BY DEF Store
<1>3. /\ upload \in Uploads /\ WellFormed(upload) /\ upload.declared \in Int
      /\ upload.declared <= MaxInt
      /\ upload.store \in {"memory", "disk", "part"}
      /\ upload.via \in {"object", "browser", "part"}
      /\ upload.digest \in {"none", "right", "wrong", "invalid"}
  BY <1>1, UploadFacts DEF StreamsTypeOK
<1>4. Taken \in Seq(Symbol) /\ Len(Taken) \in Nat
  <2>1. Taken \in Seq(Symbol)
    BY <1>1, TakenType
  <2> QED  BY <2>1
<1>5. /\ Active /\ stage \in {"reading", "extra"}
      /\ read # NoRead /\ read.err \in {"none", "eof", "broken", "expected integer"}
      /\ read.left \in Nat
  <2>1. read.err # "idle" /\ read \in ReadCall
    BY <1>1 DEF Returned, StreamsTypeOK
  <2>2. read # NoRead
    BY <2>1, NoReadIs
  <2>3. Active /\ stage # "request"
    BY <1>1, <2>2 DEF LengthsAgree
  <2> QED  BY <2>1, <2>2, <2>3 DEF Active, ReadCall
<1>6. StreamsTypeOK'
  <2>1. NoRead \in ReadCall
    BY NoReadType
  <2>2. next \in Stages
    BY DEF Stages
  <2> QED  BY <1>1, <1>2, <1>4, <2>1, <2>2 DEF StreamsTypeOK
<1>7. Taken' = Taken
  <2>1. (read.got = <<>> => Taken = out)'
    BY <1>6, TakenType, PTL
  <2> QED  BY <1>2, <2>1, NoReadIs
<1>8. InStep'
  <2>1. ASSUME ~Decodes(upload)
        PROVE  PlainInStep(upload, wire', Taken')
    BY <1>1, <1>2, <1>5, <1>7, <2>1 DEF InStep
  <2>2. ASSUME Decodes(upload), Fits(upload) \/ upload.store = "disk", Active'
        PROVE  DecodedInStep(upload, wire', Taken', chunkRemain', notFirstChunk')
    <3>1. next \in {"reading", "extra"}
      BY <1>2, <2>2 DEF Active
    <3>2. read.err # "expected integer"
      BY <1>1, <1>5, <2>2, <3>1 DEF InStep, Fits
    <3> QED  BY <1>1, <1>2, <1>5, <1>7, <2>2, <3>2 DEF InStep
  <2>3. read'.err = "idle"
    BY <1>2, NoReadIs
  <2> QED  BY <1>2, <2>1, <2>2, <2>3 DEF InStep
<1>9. EndsAreTrue'
  BY <1>2, NoReadIs DEF EndsAreTrue
<1>10. LengthsAgree'
  <2>1. ASSUME next = "reading", upload.store = "memory"
        PROVE  Len(out') < upload.declared
    <3>1. Len(Taken) + read.left <= upload.declared /\ Len(Taken) # upload.declared
      BY <1>1, <1>5, <2>1 DEF LengthsAgree
    <3>2. Len(Taken) < upload.declared
      <4>1. \A n, left \in Nat, i \in Int : n + left <= i /\ n # i => n < i
        OBVIOUS
      <4> HIDE DEF Taken
      <4> QED  BY <1>3, <1>4, <1>5, <3>1, <4>1
    <3> QED  BY <1>2, <3>2
  <2>2. next = "extra" => upload.store = "memory" /\ upload.declared <= Len(out')
    BY <1>2
  <2>3. next # "request"
    OBVIOUS
  <2> QED  BY <1>2, <2>1, <2>2, <2>3 DEF LengthsAgree
<1>11. ~Refuses(upload)
  BY <1>1, <1>5 DEF Admitted
<1>12. Admitted'
  BY <1>2, <1>11 DEF Admitted
<1>13. ASSUME Hashed(Taken) = "eof"
       PROVE  /\ upload.ending = "eof"
              /\ \/ upload.digest = "none"
                 \/ upload.digest = "right" /\ Taken = Content(Total(upload.sizes))
              /\ ChunksFit(upload) => Taken = Payload(upload)
              /\ upload.store = "disk" => Len(Taken) <= MaxInt
  <2>1. /\ read.err = "eof" /\ upload.digest # "wrong"
        /\ upload.digest = "right" => Taken = Content(Total(upload.sizes))
    BY <1>13, HashedIs
  <2>2. /\ read.err = upload.ending
        /\ ChunksFit(upload) => Taken = Payload(upload)
        /\ upload.store = "disk" => Len(Taken) <= MaxInt
    BY <1>1, <1>5, <2>1, EndIsWhole
  <2>3. upload.digest # "invalid"
    BY <1>3, <1>11 DEF Refuses, WellFormed
  <2> QED  BY <1>3, <2>1, <2>2, <2>3
<1>14. AcceptedIsWhole'
  BY <1>2, <1>13 DEF AcceptedIsWhole
<1>15. HonestIsAccepted'
  <2>1. ASSUME Honest(upload), ChunksFit(upload)
        PROVE  next # "refused"
    <3>1. read.err # "expected integer"
      BY <1>1, <1>3, <1>5, <2>1, FittingFits DEF InStep
    <3>2. upload.ending = "eof" /\ upload.declared = Len(Payload(upload))
      BY <2>1 DEF Honest
    <3>3. CASE read.err = "none"
      BY <3>3
    <3>4. CASE read.err \in {"eof", "broken"}
      <4>1. read.err = "eof" /\ Taken = Payload(upload)
        BY <1>1, <1>5, <2>1, <3>2, <3>4, EndIsWhole
      <4>2. /\ upload.digest # "wrong"
            /\ upload.digest = "right" => Payload(upload) = Content(Total(upload.sizes))
        BY <1>3, <2>1, HonestDigest
      <4>3. Hashed(Taken) = "eof"
        BY <4>1, <4>2, HashedIs
      <4>4. Len(Taken) = upload.declared
        BY <3>2, <4>1
      <4> QED  BY <4>3, <4>4
    <3> QED  BY <1>5, <3>1, <3>3, <3>4
  <2>2. next # "panicked"
    OBVIOUS
  <2> QED  BY <1>2, <2>1, <2>2 DEF HonestIsAccepted
<1>16. FitsInt64'
  <2>1. served' = Nothing
    <3>1. stage # "stored"
      BY <1>5
    <3> QED  BY <1>1, <1>2, <3>1 DEF FitsInt64
  <2>2. ASSUME next = "stored", upload.via # "part"
        PROVE  Len(out') <= MaxInt
    <3>1. upload.store \in {"memory", "disk"}
      BY <1>3, <2>2 DEF WellFormed
    <3>2. Len(Taken) <= MaxInt
      <4>1. CASE upload.store = "disk"
        BY <1>13, <2>2, <4>1
      <4>2. CASE upload.store = "memory"
        <5>1. Len(Taken) = upload.declared
          BY <2>2, <4>2
        <5> QED  BY <1>3, <5>1
      <4> QED  BY <3>1, <4>1, <4>2
    <3> QED  BY <1>2, <3>2
  <2> QED  BY <1>2, <2>1, <2>2 DEF FitsInt64
<1> QED  BY <1>6, <1>8, <1>9, <1>10, <1>12, <1>14, <1>15, <1>16 DEF StreamsInv

LEMMA FillStep == StreamsInv /\ Fill => StreamsInv'
<1> SUFFICES ASSUME StreamsInv, Fill
             PROVE  StreamsInv'
  OBVIOUS
<1> DEFINE next == IF Len(Taken) = upload.declared THEN "extra"
                   ELSE IF Hashed(Taken) = "none" THEN "reading" ELSE "refused"
<1>1. Returned /\ stage = "reading" /\ upload.store = "memory" /\ Store(next, Taken)
  BY DEF Fill, Taken
<1>2. upload.declared <= upload.declared
  <2>1. upload.declared \in Int
    BY UploadFacts DEF StreamsInv, StreamsTypeOK
  <2> QED  BY <2>1
<1>3. \/ next = "extra" /\ Len(Taken) = upload.declared
      \/ next = "reading" /\ Hashed(Taken) = "none" /\ Len(Taken) # upload.declared
      \/ next = "refused" /\ Hashed(Taken) # "none" /\ Len(Taken) # upload.declared
  OBVIOUS
<1> HIDE DEF next, Taken
<1>4. Hashed(Taken) = "none" <=> read.err = "none"
  BY HashedIs
<1>5. next = "extra" => upload.declared <= Len(Taken)
  BY <1>2, <1>3
<1> QED  BY <1>1, <1>3, <1>4, <1>5, StoreStep

LEMMA DrainStep == StreamsInv /\ Drain => StreamsInv'
<1> SUFFICES ASSUME StreamsInv, Drain
             PROVE  StreamsInv'
  OBVIOUS
<1> DEFINE next == CASE Hashed(Taken) = "none" -> stage
                     [] Hashed(Taken) = "eof" /\ Len(Taken) = upload.declared -> "stored"
                     [] OTHER -> "refused"
<1>1. Returned /\ (stage = "extra" \/ upload.store = "part") /\ Store(next, Taken)
  BY DEF Drain, Taken
<1>2. StreamsTypeOK /\ LengthsAgree
  BY DEF StreamsInv
<1>3. stage \in {"reading", "extra"}
  <2>1. read # NoRead
    BY <1>1, NoReadIs DEF Returned
  <2> QED  BY <1>2, <2>1 DEF LengthsAgree, Active
<1>4. \/ next = stage /\ Hashed(Taken) = "none"
      \/ next = "stored" /\ Hashed(Taken) = "eof" /\ Len(Taken) = upload.declared
      \/ /\ next = "refused" /\ Hashed(Taken) # "none"
         /\ ~(Hashed(Taken) = "eof" /\ Len(Taken) = upload.declared)
  OBVIOUS
<1>5. Hashed(Taken) = "none" <=> read.err = "none"
  BY HashedIs
<1>6. stage = "extra" => upload.store = "memory" /\ upload.declared <= Len(Taken)
  <2>1. stage = "extra" => upload.store = "memory" /\ upload.declared <= Len(out)
    BY <1>2 DEF LengthsAgree
  <2>2. Len(Taken) = Len(out) + Len(read.got) /\ Len(out) \in Nat /\ Len(read.got) \in Nat
    BY <1>2, TakenType
  <2>3. upload.declared \in Int
    BY <1>2, UploadFacts DEF StreamsTypeOK
  <2> HIDE DEF Taken, next
  <2> QED  BY <2>1, <2>2, <2>3
<1> HIDE DEF next, Taken
<1>7. /\ next \in {"reading", "extra", "stored", "refused"}
      /\ next = "reading" => read.err = "none" /\ upload.store = "part"
      /\ next = "extra" => upload.store = "memory" /\ upload.declared <= Len(Taken)
  <2>1. CASE next = stage /\ Hashed(Taken) = "none"
    BY <1>1, <1>3, <1>5, <1>6, <2>1
  <2>2. CASE next \in {"stored", "refused"}
    BY <2>2
  <2> QED  BY <1>4, <2>1, <2>2
<1>8. /\ next = "reading" => /\ read.err = "none"
                             /\ upload.store = "memory" => stage = "reading" /\ Len(Taken) # upload.declared
      /\ next = "stored" => /\ Hashed(Taken) = "eof"
                            /\ upload.store # "disk" => Len(Taken) = upload.declared
      /\ next = "refused" => /\ read.err # "none"
                             /\ ~(Hashed(Taken) = "eof" /\ Len(Taken) = upload.declared)
  <2>1. next = "stored" => Hashed(Taken) = "eof" /\ Len(Taken) = upload.declared
    BY <1>3, <1>4
  <2>2. next = "refused" => Hashed(Taken) # "none" /\ ~(Hashed(Taken) = "eof" /\ Len(Taken) = upload.declared)
    BY <1>3, <1>4
  <2> QED  BY <1>5, <1>7, <2>1, <2>2
<1> QED  BY <1>1, <1>7, <1>8, StoreStep

LEMMA CopyStep == StreamsInv /\ Copy => StreamsInv'
<1> SUFFICES ASSUME StreamsInv, Copy
             PROVE  StreamsInv'
  OBVIOUS
<1> DEFINE next == CASE Hashed(Taken) = "none" -> stage
                     [] Hashed(Taken) = "eof" -> "stored"
                     [] OTHER -> "refused"
<1>1. Returned /\ upload.store = "disk" /\ Store(next, Taken)
  BY DEF Copy, Taken
<1>2. LengthsAgree
  BY DEF StreamsInv
<1>3. stage = "reading"
  <2>1. read # NoRead
    BY <1>1, NoReadIs DEF Returned
  <2> QED  BY <1>1, <1>2, <2>1 DEF LengthsAgree, Active
<1>4. \/ next = stage /\ Hashed(Taken) = "none"
      \/ next = "stored" /\ Hashed(Taken) = "eof"
      \/ next = "refused" /\ Hashed(Taken) \notin {"none", "eof"}
  OBVIOUS
<1>5. Hashed(Taken) = "none" <=> read.err = "none"
  BY HashedIs
<1> HIDE DEF next, Taken
<1> QED  BY <1>1, <1>3, <1>4, <1>5, StoreStep

-----------------------------------------------------------------------------
(* What is served.                                                         *)

\* AreTheBytes and RangeIsServed, of a given object and a given answer.
BytesAt(whole, body, positions) ==
    \E at \in [1 .. Len(body) -> positions] :
        /\ {at[j] : j \in DOMAIN at} = positions
        /\ \A i, j \in DOMAIN at : i < j => at[i] < at[j]
        /\ \A j \in DOMAIN at : body[j] = whole[at[j] + 1]

AnswersWith(whole, header, answer) ==
    LET request == parseRangeHeader(header)
        named == IF request = Whole THEN 0 .. Len(whole) - 1 ELSE Named(request, Len(whole))
    IN  request = Whole \/ (request \notin Refusals /\ ~EndsAtMaxInt(request)) =>
              /\ answer.status \in {"ok", "NotModified", "InvalidRange"}
              /\ (answer.status = "InvalidRange") <=> (request # Whole /\ named = {})
              /\ answer.status = "ok" =>
                    /\ BytesAt(whole, answer.body, named)
                    /\ answer.length = Len(answer.body)

LEMMA ServedIs ==
    RangeIsServed <=> (served # Nothing => AnswersWith(out, served.header, served.answer))
BY DEF RangeIsServed, AnswersWith, AreTheBytes, BytesAt

LEMMA SliceBytes ==
    ASSUME NEW whole \in Seq(Symbol), NEW first \in 0 .. Len(whole), NEW n \in 0 .. Len(whole) - first,
           NEW body, body = SubSeq(whole, first + 1, first + n)
    PROVE  /\ BytesAt(whole, body, first .. first + n - 1)
           /\ Len(body) = n
<1>1. Len(whole) \in Nat /\ first \in Nat /\ n \in Nat
  OBVIOUS
<1>2. first + 1 \in 1 .. Len(whole) + 1 /\ first + n \in (first + 1) - 1 .. Len(whole)
  BY <1>1
<1>3. /\ Len(body) = (first + n) - (first + 1) + 1
      /\ \A i \in 1 .. (first + n) - (first + 1) + 1 : body[i] = whole[(first + 1) + i - 1]
  BY <1>2, Slice
<1>4. Len(body) = n /\ \A i \in 1 .. n : body[i] = whole[(first + i - 1) + 1]
  <2>1. (first + n) - (first + 1) + 1 = n
    BY <1>1
  <2>2. \A i \in 1 .. n : (first + 1) + i - 1 = (first + i - 1) + 1
    BY <1>1
  <2> QED  BY <1>3, <2>1, <2>2
<1> DEFINE at == [j \in 1 .. n |-> first + j - 1]
           positions == first .. first + n - 1
<1>5. at \in [1 .. n -> positions] /\ DOMAIN at = 1 .. n
  BY <1>1
<1>6. \A i, j \in DOMAIN at : i < j => at[i] < at[j]
  BY <1>1
<1>7. \A j \in DOMAIN at : body[j] = whole[at[j] + 1]
  BY <1>1, <1>4
<1>8. {at[j] : j \in DOMAIN at} = positions
  <2>1. ASSUME NEW x \in positions
        PROVE  \E j \in DOMAIN at : at[j] = x
    <3>1. x - first + 1 \in 1 .. n /\ at[x - first + 1] = x
      BY <1>1
    <3> QED  BY <1>5, <3>1
  <2>2. \A j \in DOMAIN at : at[j] \in positions
    BY <1>1
  <2> HIDE DEF at, positions
  <2> QED  BY <2>1, <2>2
<1> HIDE DEF at, positions
<1>9. BytesAt(whole, body, positions)
  BY <1>4, <1>5, <1>6, <1>7, <1>8 DEF BytesAt
<1> QED  BY <1>4, <1>9 DEF positions

\* What getObject answers.
LEMMA AnswerOf ==
    ASSUME out \in Seq(Symbol), Len(out) <= MaxInt, NEW header \in RangeHeader,
           NEW unmodified \in BOOLEAN, GetObject(header, unmodified)
    PROVE  AnswersWith(out, header, served'.answer)
<1> DEFINE request == parseRangeHeader(header)
           size == Len(out)
           r == IF request \in Refusals \cup {Whole} THEN request ELSE RangeOf(request, size)
           contents == Contents(r)
           answer == served'.answer
<1>1. /\ r \in Refusals => answer = [status |-> r.no]
      /\ r \notin Refusals => answer = IF contents.status = "ok" /\ unmodified
                                       THEN [status |-> "NotModified"] ELSE contents
  BY DEF GetObject
<1>2. size \in 0 .. MaxInt
  <2>1. Len(out) \in Nat
    OBVIOUS
  <2> QED  BY <2>1, RangesAssumption
<1>3. Whole \notin Refusals /\ InvalidRange \in Refusals /\ InvalidRange.no = "InvalidRange"
  BY DEF Whole, Refusals, InvalidRange, NotImplemented
<1>4. CASE request = Whole
  <2>1. r = Whole
    BY <1>4
  <2>2. contents = [status |-> "ok", length |-> size, body |-> out]
    BY <2>1 DEF Contents
  <2>3. answer = [status |-> "NotModified"] \/ answer = contents
    BY <1>1, <1>3, <2>1
  <2>4. BytesAt(out, out, 0 .. size - 1)
    <3>1. 0 \in 0 .. size /\ size \in 0 .. size - 0 /\ 0 + 1 = 1 /\ 0 + size = size
      BY <1>2
    <3>2. out = SubSeq(out, 0 + 1, 0 + size)
      <4>1. SubSeq(out, 1, size) = out
        BY SubSeqFull
      <4> QED  BY <3>1, <4>1
    <3>3. BytesAt(out, out, 0 .. 0 + size - 1)
      BY <3>1, <3>2, SliceBytes
    <3>4. 0 + size - 1 = size - 1
      BY <1>2
    <3> QED  BY <3>3, <3>4
  <2> HIDE DEF contents, answer, r, size, request
  <2>5. /\ answer.status \in {"ok", "NotModified"}
        /\ answer.status = "ok" => answer.body = out /\ answer.length = size
    BY <2>2, <2>3
  <2> QED  BY <1>4, <2>4, <2>5 DEF AnswersWith, request, size, answer
<1>5. CASE request # Whole /\ request \notin Refusals /\ ~EndsAtMaxInt(request)
  <2>1. header.is = "bytes"
    <3>1. header.is \in {"missing", "malformed", "several", "bytes"}
      BY DEF RangeHeader
    <3>2. header.is # "missing" /\ header.is # "malformed" /\ header.is # "several"
      BY <1>5 DEF parseRangeHeader, Refusals
    <3> QED  BY <3>1, <3>2
  <2>2. request \in ObjectRangeRequest /\ ParsedRequest(request)
    <3>1. request # InvalidRange
      BY <1>5 DEF Refusals
    <3> QED  BY <2>1, <3>1, ParsedRequestsAreSound
  <2>3. r = RangeOf(request, size)
    BY <1>5
  <2> DEFINE named == Named(request, size)
  <2>4. IF named = {} THEN r = InvalidRange
        ELSE /\ r.Start >= 0 /\ r.Length >= 1 /\ r.Start + r.Length <= size
             /\ BytesOf(r) = named
    BY <1>2, <1>5, <2>2, <2>3, RangeIsNamed
  <2>5. CASE named = {}
    <3>1. answer = [status |-> "InvalidRange"]
      BY <1>1, <1>3, <2>4, <2>5
    <3> HIDE DEF answer, named, request, size
    <3>2. answer.status = "InvalidRange"
      BY <3>1
    <3> QED  BY <1>5, <2>5, <3>2 DEF AnswersWith, answer, named, request, size
  <2>6. CASE named # {}
    <3> DEFINE s == Start(request, size)
               n == r.Length
    <3>1. /\ s \in Int64 /\ Length(request, size) \in Int64
          /\ ~(s < 0 \/ Length(request, size) < 0 \/ s >= size)
      BY <1>2, <1>5, <2>2, <2>6, Bounds, Refusal
    <3>2. r = [Start |-> s, Length |-> IF Wrap(s + Length(request, size)) > size
                                       THEN size - s ELSE Length(request, size)]
      BY <2>3, <3>1 DEF RangeOf
    <3>3. r \notin Refusals /\ r # Whole /\ r.Start = s
      BY <3>2 DEF Refusals, InvalidRange, NotImplemented, Whole
    <3>4. n \in Int /\ s \in Int
      BY <1>2, <3>1, <3>2 DEF Int64
    <3>5. s >= 0 /\ n >= 1 /\ s + n <= size /\ BytesOf(r) = named
      BY <2>4, <2>6, <3>3
    <3> HIDE DEF s, n
    <3>6. s \in 0 .. size /\ n \in 0 .. size - s /\ s + n \in Int64 /\ s + n \in s .. size
      BY <1>2, <3>4, <3>5, RangesAssumption DEF Int64
    <3>7. Wrap(s + n) = s + n /\ Least(s + n, size) = s + n
      BY <1>2, <3>6, WrapIsExact DEF Least, Int64
    <3> DEFINE body == SubSeq(out, s + 1, s + n)
    <3>8. contents = [status |-> "ok", length |-> n, body |-> body]
      <4>1. r.Start = s /\ r.Length = n /\ Wrap(s + n) \in s .. size
        BY <3>3, <3>6, <3>7 DEF n
      <4>2. contents = [status |-> "ok", length |-> n,
                        body |-> SubSeq(out, s + 1, Least(Wrap(s + n), size))]
        BY <3>3, <4>1 DEF Contents
      <4> QED  BY <3>7, <4>2
    <3>9. BytesAt(out, body, s .. s + n - 1) /\ Len(body) = n
      <4>1. s \in 0 .. Len(out) /\ n \in 0 .. Len(out) - s /\ body = SubSeq(out, s + 1, s + n)
        BY <3>6
      <4>2. out \in Seq(Symbol)
        OBVIOUS
      <4>3. \A whole \in Seq(Symbol) : \A first \in 0 .. Len(whole) :
               \A k \in 0 .. Len(whole) - first : \A bytes :
                  bytes = SubSeq(whole, first + 1, first + k) =>
                     BytesAt(whole, bytes, first .. first + k - 1) /\ Len(bytes) = k
        BY SliceBytes
      <4> HIDE DEF body
      <4>4. \A k \in 0 .. Len(out) - s : \A bytes :
                  bytes = SubSeq(out, s + 1, s + k) =>
                     BytesAt(out, bytes, s .. s + k - 1) /\ Len(bytes) = k
        BY <4>1, <4>2, <4>3
      <4> QED  BY <4>1, <4>4
    <3>10. BytesAt(out, body, named)
      <4>1. BytesOf(r) = s .. s + n - 1
        BY <3>3 DEF BytesOf, n
      <4> QED  BY <3>5, <3>9, <4>1
    <3>11. answer = [status |-> "NotModified"] \/ answer = contents
      BY <1>1, <3>3
    <3> HIDE DEF body, contents, answer, r, named, size, request
    <3>12. /\ answer.status \in {"ok", "NotModified"}
           /\ answer.status = "ok" => answer.body = body /\ answer.length = n
      BY <3>8, <3>11
    <3> QED  BY <1>5, <2>6, <3>9, <3>10, <3>12 DEF AnswersWith, request, size, answer, named
  <2> QED  BY <2>5, <2>6
<1>6. CASE ~(request = Whole \/ (request \notin Refusals /\ ~EndsAtMaxInt(request)))
  BY <1>6 DEF AnswersWith
<1> QED  BY <1>4, <1>5, <1>6

LEMMA GetObjectStep ==
    ASSUME StreamsInv, NEW header \in RangeHeader, NEW unmodified \in BOOLEAN,
           GetObject(header, unmodified)
    PROVE  StreamsInv' /\ RangeIsServed'
<1>1. StreamsTypeOK /\ InStep /\ EndsAreTrue /\ LengthsAgree /\ Admitted /\ AcceptedIsWhole
      /\ HonestIsAccepted /\ FitsInt64
  BY DEF StreamsInv
<1>2. /\ stage = "stored" /\ upload.via # "part"
      /\ upload' = upload /\ stage' = stage /\ wire' = wire /\ chunkRemain' = chunkRemain
      /\ notFirstChunk' = notFirstChunk /\ read' = read /\ out' = out
      /\ served'.header = header
  BY DEF GetObject
<1>3. StreamsTypeOK'
  BY <1>1, <1>2 DEF StreamsTypeOK
<1>4. InStep'
  BY <1>2 DEF InStep, Active
<1>5. EndsAreTrue'
  BY <1>1, <1>2 DEF EndsAreTrue
<1>6. LengthsAgree'
  BY <1>1, <1>2 DEF LengthsAgree, Active
<1>7. (Admitted /\ AcceptedIsWhole /\ HonestIsAccepted /\ FitsInt64)'
  BY <1>1, <1>2 DEF Admitted, AcceptedIsWhole, HonestIsAccepted, FitsInt64
<1>8. RangeIsServed'
  <2>1. out \in Seq(Symbol) /\ Len(out) <= MaxInt
    BY <1>1, <1>2 DEF StreamsTypeOK, FitsInt64
  <2>2. AnswersWith(out, header, served'.answer)
    BY <2>1, AnswerOf
  <2>3. AnswersWith(out', served'.header, served'.answer)
    BY <1>2, <2>2
  <2>4. (served # Nothing => AnswersWith(out, served.header, served.answer))'
    BY <2>3
  <2> QED  BY <2>4, ServedIs, PTL
<1> QED  BY <1>3, <1>4, <1>5, <1>6, <1>7, <1>8 DEF StreamsInv

LEMMA StutterStep == StreamsInv /\ UNCHANGED vars => StreamsInv'
<1> SUFFICES ASSUME StreamsInv, UNCHANGED vars
             PROVE  StreamsInv'
  OBVIOUS
<1> USE DEF StreamsInv, vars
<1>1. StreamsTypeOK'
  BY DEF StreamsTypeOK
<1>2. InStep'
  BY DEF InStep, Active, Taken
<1>3. EndsAreTrue'
  BY DEF EndsAreTrue
<1>4. LengthsAgree'
  BY DEF LengthsAgree, Active, Taken
<1>5. (Admitted /\ AcceptedIsWhole /\ HonestIsAccepted /\ FitsInt64)'
  BY DEF Admitted, AcceptedIsWhole, HonestIsAccepted, FitsInt64
<1> QED  BY <1>1, <1>2, <1>3, <1>4, <1>5

-----------------------------------------------------------------------------
(* The theorems.                                                           *)

LEMMA NextInv == StreamsInv /\ [Next]_vars => StreamsInv'
<1> SUFFICES ASSUME StreamsInv, [Next]_vars
             PROVE  StreamsInv'
  OBVIOUS
<1>1. CASE Handle
  BY <1>1, HandleStep
<1>2. CASE Ask
  BY <1>2, AskStep
<1>3. CASE PlainRead
  BY <1>3, PlainReadStep
<1>4. CASE ReadInChunk
  BY <1>4, ReadInChunkStep
<1>5. CASE ReadRestOfChunk
  BY <1>5, ReadRestOfChunkStep
<1>6. CASE ReadChunkHeader
  BY <1>6, ReadChunkHeaderStep
<1>7. CASE Fill
  BY <1>7, FillStep
<1>8. CASE Drain
  BY <1>8, DrainStep
<1>9. CASE Copy
  BY <1>9, CopyStep
<1>10. ASSUME NEW header \in RangeHeader, NEW unmodified \in BOOLEAN,
              GetObject(header, unmodified)
       PROVE  StreamsInv'
  BY <1>10, GetObjectStep
<1>11. CASE UNCHANGED vars
  BY <1>11, StutterStep
<1> QED  BY <1>1, <1>2, <1>3, <1>4, <1>5, <1>6, <1>7, <1>8, <1>9, <1>10, <1>11 DEF Next

\* Whatever pieces a body is read in, what has been read of it and what is left
\* of it are the body, and nothing but content is handed to the store: chunkRemain
\* and notFirstChunk of src/chunk.go never lose their place in a body that is plain,
\* or whose content fits what the store asks for (ChunksFit).
THEOREM InStepAlways == Spec => [](StreamsTypeOK /\ InStep /\ EndsAreTrue /\ LengthsAgree)
<1>1. StreamsInv => StreamsTypeOK /\ InStep /\ EndsAreTrue /\ LengthsAgree
  BY DEF StreamsInv
<1> QED  BY <1>1, InitInv, NextInv, PTL DEF Spec

\* What a store accepts is all of a body, in order, that came to its end and has
\* the announced digest, and in memory, bolt and parts the declared length (the disk
\* backends do not look at it): ReadAll of src/util.go, io.ReadAll of UploadPart,
\* io.Copy of the disk backends, under hashingReader of src/hash.go and
\* chunkedReader of src/chunk.go.  It says nothing of signed bodies with more
\* content than they declare (memory, bolt) or than io.Copy's buffer holds (disk):
\* those, which ChunksFit leaves out, may be accepted without their last bytes.
THEOREM AcceptedWhole == Spec => []AcceptedIsWhole
<1>1. StreamsInv => AcceptedIsWhole
  BY DEF StreamsInv
<1> QED  BY <1>1, InitInv, NextInv, PTL DEF Spec

\* The body of a client that means what it says is stored, however the network
\* cuts it up: an end read together with the last bytes, a chunk in pieces or a
\* read across chunks makes the handlers neither refuse nor panic.  The exception
\* is a signed body to a disk backend with more content than io.Copy's buffer
\* holds, which may be refused (DiskTakesChunks): ChunksFit leaves it out.
THEOREM HonestAccepted == Spec => []HonestIsAccepted
<1>1. StreamsInv => HonestIsAccepted
  BY DEF StreamsInv
<1> QED  BY <1>1, InitInv, NextInv, PTL DEF Spec

LEMMA RangeStep == StreamsInv /\ RangeIsServed /\ [Next]_vars => RangeIsServed'
<1> SUFFICES ASSUME StreamsInv, RangeIsServed, [Next]_vars
             PROVE  RangeIsServed'
  OBVIOUS
<1>1. CASE \E header \in RangeHeader, unmodified \in BOOLEAN : GetObject(header, unmodified)
  BY <1>1, GetObjectStep
<1>2. CASE \/ Handle \/ Ask \/ PlainRead \/ ReadInChunk \/ ReadRestOfChunk \/ ReadChunkHeader
           \/ UNCHANGED vars
  <2>1. out' = out /\ served' = served
    BY <1>2 DEF Handle, Ask, PlainRead, ReadInChunk, ReadRestOfChunk, ReadChunkHeader, vars
  <2>2. served # Nothing => AnswersWith(out, served.header, served.answer)
    BY ServedIs
  <2>3. (served # Nothing => AnswersWith(out, served.header, served.answer))'
    BY <2>1, <2>2
  <2> QED  BY <2>3, ServedIs, PTL
<1>3. CASE Fill \/ Drain \/ Copy
  <2>1. served' = served
    BY <1>3 DEF Fill, Drain, Copy, Store
  <2>2. read # NoRead
    BY <1>3, NoReadIs DEF Fill, Drain, Copy, Returned
  <2>3. stage # "stored"
    BY <2>2 DEF StreamsInv, LengthsAgree, Active
  <2>4. served = Nothing
    BY <2>3 DEF StreamsInv, FitsInt64
  <2>5. (served # Nothing => AnswersWith(out, served.header, served.answer))'
    BY <2>1, <2>4
  <2> QED  BY <2>5, ServedIs, PTL
<1> QED  BY <1>1, <1>2, <1>3 DEF Next

\* getObject sends the bytes that its Range header names, in order and each
\* once, announces as many, and refuses a range only when it names none of the
\* object: parseRangeHeader and ObjectRangeRequest.Range of src/range.go with the
\* slices of s3mem and the files of s3afero, for every int64 in the header.
THEOREM RangesServed == Spec => []RangeIsServed
<1>1. Init => RangeIsServed
  BY DEF Init, RangeIsServed
<1> QED  BY <1>1, InitInv, NextInv, RangeStep, PTL DEF Spec

=============================================================================
