----------------------------- MODULE MCUploader -----------------------------
(***************************************************************************)
(* Constants of the model-checking runs of Uploader.                       *)
(***************************************************************************)
EXTENDS Uploader

\* Parts, buckets, keys and metadata values are compared for equality only.
Symmetry == Permutations(Bodies) \cup Permutations(Keys) \cup Permutations(Buckets)

=============================================================================
