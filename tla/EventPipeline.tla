--------------------------- MODULE EventPipeline ---------------------------
(***************************************************************************)
(* The whole path of an event: Outbox from the API's transaction to the    *)
(* stream, ContextWorker from the stream to the context graph.  The two    *)
(* share the stream (stored) and the bound on faults; the publisher of     *)
(* ContextWorker is the outbox worker.  Dead-letter notices go to another  *)
(* stream, which the context worker does not read.                         *)
(***************************************************************************)
EXTENDS Naturals

CONSTANTS
    Events, NoticeIds, None, Workers, BatchSize, MaxAttempts, MaxFaults,
    Envelope, Unparseable, Poison, MaxRetries, Capacity, MaxCopies

VARIABLES
    status, attempts, due, lock, created, about, inflight, stored,
    pc, batch, publishing, count, fails, faults,
    ack, delivered, buffer, cur, step, graph, dlq, tries, unwritten

O == INSTANCE Outbox WITH cur <- publishing
C == INSTANCE ContextWorker WITH Null <- None

ASSUME PipelineAssumption == O!OutboxAssumption /\ C!ContextAssumption

outbox == <<status, attempts, due, lock, created, about, inflight,
            pc, batch, publishing, count, fails>>
worker == <<ack, delivered, buffer, cur, step, graph, dlq, tries, unwritten>>
pvars == <<outbox, worker, stored, faults>>

Init == O!Init /\ C!WorkerInit

Next ==
    \/ O!Next /\ UNCHANGED worker
    \/ C!WorkerNext /\ UNCHANGED outbox

Spec == Init /\ [][Next]_pvars

Fairness ==
    /\ \A w \in Workers : WF_pvars(O!WorkerStep(w) /\ UNCHANGED worker)
    /\ \A i \in O!Ids : WF_pvars(O!BackoffElapses(i) /\ UNCHANGED worker)
    /\ WF_pvars(C!ProcessMessage /\ UNCHANGED outbox)
    /\ \A m \in C!Copies :
        /\ WF_pvars(C!Deliver(m) /\ UNCHANGED outbox)
        /\ WF_pvars(C!AckWaitExpires(m) /\ UNCHANGED outbox)

FairSpec == Spec /\ Fairness

-----------------------------------------------------------------------------
(* The abstract delivery, seen in the tables *)

Committed == {e \in Events : status[e] # "absent"}
Applied == {e \in Events : C!Ingested(graph, Envelope[e])}
Reported ==
    {e \in Events :
        status[e] = "dead_letter" \/ \E m \in C!Copies : C!Event(m) = e /\ dlq[m] > 0}

Delivery == INSTANCE EventDelivery
    WITH committed <- Committed, reported <- Reported, Null <- None

-----------------------------------------------------------------------------
(* Properties *)

\* Both modules keep their types, and the bound on copies is never reached
\* (the stream would otherwise be cut off by the model, not by the code).
TypeOK ==
    /\ O!TypeOK
    /\ C!TypeOK
    /\ \A e \in Events : stored[e] + inflight[e] <= MaxCopies

\* The path keeps what EventDelivery promises: nothing reaches the graph but
\* by an event whose row has committed, and neither an effect nor a report is
\* undone by a retry, a late publish or a redelivery.
DeliveryKept == Delivery!Spec

\* Every committed event is applied or reported in the end.  Only a fault may
\* leave it stranded in the table, or without the row that reports it.
AppliedOrReported ==
    \A e \in Events :
        e \in Committed ~>
            \/ e \in Applied \cup Reported
            \/ faults > 0 /\ (O!Stranded(e) \/ \E m \in unwritten : C!Event(m) = e)
=============================================================================
