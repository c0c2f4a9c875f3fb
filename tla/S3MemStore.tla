----------------------------- MODULE S3MemStore -----------------------------
(***************************************************************************)
(* The in-memory backend as an object store: what GetObject finds, with    *)
(* the versions, the markers and the versioning status hidden.             *)
(***************************************************************************)
EXTENDS S3Mem

CONSTANTS NoBucket, NoWrite

\* What GetObject returns of a key.
Found(b, k) ==
    IF GetObject(b, k) = "ok"
    THEN [body |-> objects[b][k].data.body, meta |-> objects[b][k].data.meta]
    ELSE NoObject

FoundIn(b) == IF Exists(b) THEN [k \in Keys |-> Found(b, k)] ELSE NoBucket

\* The write a client's call is, without its history and without batches.
WriteOf(c) ==
    CASE call[c].step = "copy" ->
            [step |-> "copy", srcBucket |-> call[c].srcBucket, srcKey |-> call[c].srcKey,
             bucket |-> call[c].bucket, key |-> call[c].key, meta |-> call[c].meta]
      [] call[c].step \in {"merge", "put"} ->
            [step |-> call[c].step, bucket |-> call[c].bucket, key |-> call[c].key,
             body |-> call[c].body, meta |-> call[c].meta]
      [] OTHER -> NoWrite

Store == INSTANCE ObjectStore
            WITH store <- [b \in Buckets |-> FoundIn(b)],
                 pending <- [c \in Clients |-> WriteOf(c)]

\* What stands for no object, no bucket and no write is none.
ASSUME StoreAssumption ==
    /\ NoObject \notin Store!Stored
    /\ NoBucket \notin [Keys -> Store!Stored \cup {NoObject}]
    /\ NoWrite \notin Store!Write \cup Store!Copy

\* In every versioning status, to clients that name no version the backend is
\* the plain map: a write shows at once and whole, with metadata read during the
\* call; a deletion, of the key or of a version, shows nothing older; changing
\* the status or deleting an archived version shows nothing at all.
ImplementsStore == Store!StoreSpec

=============================================================================
