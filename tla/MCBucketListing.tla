-------------------------- MODULE MCBucketListing ---------------------------
(***************************************************************************)
(* Constants of the model-checking run of BucketListing.                   *)
(***************************************************************************)
EXTENDS BucketListing

Dash == 1

a == <<3>>
a_ == <<3, Slash>>
a_a == <<3, Slash, 3>>
a_b == <<3, Slash, 4>>
a1b == <<3, Dash, 4>>

\* A key that is the name of a directory, two keys of that directory, and one
\* that begins as its name does.
MCKeyOrder == <<a1b, a_, a_a, a_b>>

MCQueries == {<<>>, a, a_, a_a}

MCDelimiters == {NoDelimiter, Slash, Dash}

MCBackends == {"mem", "bolt", "multi", "single"}

=============================================================================
