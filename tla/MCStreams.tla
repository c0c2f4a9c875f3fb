----------------------------- MODULE MCStreams ------------------------------
(***************************************************************************)
(* Constants of the model-checking runs of Streams.                        *)
(***************************************************************************)
EXTENDS Streams

\* At most MaxChunks chunks and MaxLength bytes in all.
CONSTANTS MaxChunks, MaxLength

Sizes == {s \in UNION {[1 .. c -> 1 .. MaxLength] : c \in 0 .. MaxChunks} : Total(s) <= MaxLength}

MCUploads ==
    {u \in Upload(Sizes, 0 .. MaxLength + 4 * (MaxChunks + 1), NoLength .. MaxLength + 1) :
        WellFormed(u)}

=============================================================================
