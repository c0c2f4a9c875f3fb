----------------------------- MODULE MCS3Afero -----------------------------
(***************************************************************************)
(* Instances of S3Afero for TLC.                                           *)
(***************************************************************************)
EXTENDS S3Afero, TLC

CONSTANTS b1, flat, nested, d1

Of(kind, onDisk, keepsMeta) ==
    [kind |-> kind, name |-> b1, onDisk |-> onDisk, keepsMeta |-> keepsMeta]

SetupsKey == {Of("multi", TRUE, TRUE), Of("multi", FALSE, TRUE),
              Of("single", TRUE, TRUE), Of("single", FALSE, FALSE)}

SetupsPair == {Of("multi", TRUE, TRUE), Of("single", TRUE, FALSE)}

\* One key, below a directory.
OneKey == <<nested>>
OneDir == nested :> d1

\* Two keys, one of them at the root.
TwoKeys == <<flat, nested>>
TwoDirs == (flat :> NoDir) @@ (nested :> d1)
=============================================================================
