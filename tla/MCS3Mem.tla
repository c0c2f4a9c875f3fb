------------------------------ MODULE MCS3Mem ------------------------------
(***************************************************************************)
(* Constants of the model-checking runs of S3Mem.                          *)
(***************************************************************************)
EXTENDS S3Mem, TLC

\* No definition tells two requests, buckets, keys or metadata values apart: symmetry is
\* sound for the invariants and action properties the runs check.
Symmetry == Permutations(Clients) \cup Permutations(Buckets) \cup Permutations(Keys)
            \cup Permutations(Metas)

=============================================================================
