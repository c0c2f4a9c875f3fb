--------------------------- MODULE MCUploadListing ---------------------------
(***************************************************************************)
(* Constants of the model-checking runs of UploadListing: a key outside of *)
(* the prefix, then one under a common prefix between two that are listed. *)
(***************************************************************************)
EXTENDS UploadListing

CONSTANTS k1, k2, k3, k4

FourKeys == <<k1, k2, k3, k4>>

Matches == (k1 :> NoMatch) @@ (k2 :> Content) @@ (k3 :> UnderPrefix) @@ (k4 :> Content)

=============================================================================
