------------------------------- MODULE Ranges -------------------------------
(***************************************************************************)
(* The Range header of a GetObject: parseRangeHeader and                   *)
(* ObjectRangeRequest.Range of src/range.go, in the 64-bit arithmetic they *)
(* compute in, and what of an object a header names.                       *)
(***************************************************************************)
EXTENDS Integers

CONSTANT MaxInt    \* the largest int64

ASSUME RangesAssumption == MaxInt \in Nat \ {0}

-----------------------------------------------------------------------------
(* int64.                                                                  *)

Int64 == (-MaxInt - 1) .. MaxInt

\* The sum or difference of two int64 as the machine has it.
Wrap(x) ==
    IF x > MaxInt THEN x - 2 * MaxInt - 2
    ELSE IF x < -MaxInt - 1 THEN x + 2 * MaxInt + 2
    ELSE x

-----------------------------------------------------------------------------
(* Headers.  What stands before and after the dash of a byte range is a    *)
(* number, nothing, or something that is not an int64.                     *)

Blank == [is |-> "blank", n |-> 0]
Junk  == [is |-> "junk", n |-> 0]
Number(n) == [is |-> "number", n |-> n]

Bound == {Blank, Junk} \cup {Number(n) : n \in Int64}

\* A header is missing, is not one byte range, or is one.
RangeHeader == [is : {"missing", "malformed", "several"}, first : {Blank}, last : {Blank}]
               \cup [is : {"bytes"}, first : Bound, last : Bound]

RangeNoEnd == -1

ObjectRangeRequest == [Start : Int64, End : Int64, FromEnd : BOOLEAN]

\* What there is in the place of a range.
Whole          == [no |-> "range"]
InvalidRange   == [no |-> "InvalidRange"]
NotImplemented == [no |-> "NotImplemented"]

\* The request, or why there is none; a missing header asks for the whole.
parseRangeHeader(h) ==
    CASE h.is = "missing" -> Whole
      [] h.is = "malformed" -> InvalidRange
      [] h.is = "several" -> NotImplemented
      [] h.is = "bytes" /\ h.first = Blank ->
            IF h.last.is # "number" THEN InvalidRange
            ELSE [Start |-> 0, End |-> h.last.n, FromEnd |-> TRUE]
      [] OTHER ->
            IF \/ h.first.is # "number" \/ h.first.n < 0
               \/ h.last.is = "junk"
               \/ h.last.is = "number" /\ h.first.n > h.last.n
            THEN InvalidRange
            ELSE [Start |-> h.first.n,
                  End |-> IF h.last = Blank THEN RangeNoEnd ELSE h.last.n,
                  FromEnd |-> FALSE]

-----------------------------------------------------------------------------
(* The range of an object of a given size that a request is for.           *)

Start(o, size) == IF o.FromEnd THEN Wrap(size - o.End) ELSE o.Start

Length(o, size) ==
    IF o.FromEnd \/ o.End = RangeNoEnd THEN Wrap(size - Start(o, size))
    ELSE Wrap(Wrap(o.End - o.Start) + 1)

\* Bug: a range that ends past the object is not clamped when it ends one past it.
RangeClampedLate(o, size) ==
    LET start  == Start(o, size)
        length == Length(o, size)
    IN  IF start < 0 \/ length < 0 \/ start >= size THEN InvalidRange
        ELSE [Start  |-> start,
              Length |-> IF Wrap(start + length) > size + 1 THEN size - start ELSE length]

RangeOf(o, size) ==
    LET start  == Start(o, size)
        length == Length(o, size)
    IN  IF start < 0 \/ length < 0 \/ start >= size THEN InvalidRange
        ELSE [Start  |-> start,
              Length |-> IF Wrap(start + length) > size THEN size - start ELSE length]

-----------------------------------------------------------------------------
(* What a request names: the positions, counted from 0, of the bytes of an *)
(* object of a given size.                                                 *)

\* What parseRangeHeader makes of a header that it does not refuse.
ParsedRequest(o) ==
    IF o.FromEnd THEN o.Start = 0
    ELSE o.Start >= 0 /\ (o.End = RangeNoEnd \/ o.End >= o.Start)

\* A suffix of n bytes is the last n, of an object that has as many; other
\* ranges are cut off at its end.
Named(o, size) ==
    IF o.FromEnd THEN {i \in 0 .. size - 1 : o.End <= size /\ i >= size - o.End}
    ELSE {i \in 0 .. size - 1 : i >= o.Start /\ (o.End = RangeNoEnd \/ i <= o.End)}

\* The bytes of a range that RangeOf returns.
BytesOf(r) == r.Start .. r.Start + r.Length - 1

\* The one end that RangeOf cannot add one to.
EndsAtMaxInt(o) == ~o.FromEnd /\ o.End = MaxInt

=============================================================================
