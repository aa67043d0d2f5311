--------------------------- MODULE MCContextWorker ---------------------------
(* Small instances of ContextWorker for TLC. *)
EXTENDS ContextWorker

CONSTANTS comment, poison, garbage

\* A comment, an event whose transaction always fails, and one nobody parses.
MCEvents == {comment, poison, garbage}
MCUnparseable == {garbage}
MCPoison == {poison}

MCEnvelope == [e \in MCEvents |->
    [id |-> e, type |-> IF e = comment THEN "object.commented" ELSE "object.linked",
     team |-> "team", kind |-> IF e = comment THEN "comment" ELSE "link",
     aggregate |-> "a", from |-> "o", to |-> "c", relation |-> Null]]
=============================================================================
