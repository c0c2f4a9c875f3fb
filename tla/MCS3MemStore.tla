---------------------------- MODULE MCS3MemStore ----------------------------
(***************************************************************************)
(* Constants of the model-checking run of S3MemStore.                      *)
(***************************************************************************)
EXTENDS S3MemStore, TLC

\* As in MCS3Mem; the store's definitions tell no two values apart either.
Symmetry == Permutations(Clients) \cup Permutations(Buckets) \cup Permutations(Metas)

=============================================================================
