-------------------------- MODULE MCIngestConsumer --------------------------
(* Small instances of IngestConsumer for TLC.                              *)
EXTENDS IngestConsumer

\* Entries 1 and 2 belong to the same issue.
MCFp == [m \in EventIds |-> IF m <= 2 THEN "boom" ELSE "other"]
=============================================================================
