----------------------------- MODULE MCFrontend -----------------------------
(***************************************************************************)
(* Constants of the model-checking runs of Frontend.                       *)
(***************************************************************************)
EXTENDS Frontend

\* A plain server, one that creates buckets, whose names nobody validates, and
\* one with versions.
MCSetups ==
    {[autoBucket |-> FALSE, versioned |-> FALSE, validNames |-> Buckets],
     [autoBucket |-> TRUE, versioned |-> FALSE, validNames |-> {}],
     [autoBucket |-> TRUE, versioned |-> TRUE, validNames |-> Buckets]}

=============================================================================
