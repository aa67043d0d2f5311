--------------------------- MODULE MCEventPipeline ---------------------------
(* Small instances of EventPipeline for TLC. *)
EXTENDS EventPipeline

CONSTANTS comment, notice

MCEvents == {comment}
MCNoticeIds == {notice}

MCEnvelope == [e \in MCEvents |->
    [id |-> e, type |-> "object.commented", team |-> "team", kind |-> "comment",
     aggregate |-> "c", from |-> "o", to |-> "c", relation |-> None]]
=============================================================================
