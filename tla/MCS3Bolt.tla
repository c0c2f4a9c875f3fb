------------------------------ MODULE MCS3Bolt ------------------------------
(***************************************************************************)
(* Constants of the model-checking run of S3Bolt.                          *)
(***************************************************************************)
EXTENDS S3Bolt, TLC

\* Requests, buckets, bodies and dates are compared for equality only.
Symmetry == Permutations(Clients) \cup Permutations(Buckets)
            \cup Permutations(Bodies) \cup Permutations(Dates)

=============================================================================
