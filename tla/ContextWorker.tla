--------------------------- MODULE ContextWorker ---------------------------
(***************************************************************************)
(* cmd/context-worker and the durable JetStream consumer it reads: the     *)
(* stream CLARITY_EVENTS delivers each stored message until it is          *)
(* acknowledged or terminated; one goroutine ingests deliveries into the   *)
(* context graph, naks what fails, and gives up on a message whose         *)
(* delivery count has reached the limit after writing a dead-letter row.   *)
(*                                                                         *)
(* A message is a copy <<e, k>> of event e: the publisher may store an     *)
(* event more than once.  The guard against dead letters about dead        *)
(* letters is left out, since natsx.Setup binds the stream to the subjects *)
(* of the API's events only, and so is the random id of a dead-letter row  *)
(* for a message without metadata, which a consumer never delivers.        *)
(***************************************************************************)
EXTENDS Naturals, Sequences, ContextGraph

CONSTANTS
    Events,       \* events that may be published to the stream
    Envelope,     \* the envelope of each event, a function of Events
    Unparseable,  \* events whose message is not valid JSON for an envelope
    Poison,       \* events whose transaction always fails
    MaxRetries,   \* maxIngestRetries (10 in the code)
    Capacity,     \* deliveries the client buffers (100 in the code)
    MaxCopies,    \* bound: copies of an event in the stream
    MaxFaults     \* bound: crashes, lost replies and failed statements

ASSUME ContextAssumption ==
    /\ Unparseable \subseteq Events
    /\ Poison \subseteq Events
    /\ MaxRetries \in Nat \ {0}
    /\ Capacity \in Nat \ {0}
    /\ MaxCopies \in Nat
    /\ MaxFaults \in Nat

VARIABLES
    stored,    \* copies of each event that the stream holds
    ack,       \* the consumer's view of a copy: to deliver, out, settled
    delivered, \* NumDelivered of a copy
    buffer,    \* the client's buffered deliveries, in order
    cur,       \* the delivery processMessage is working on, or Null
    step,      \* where processMessage is
    graph,     \* the context graph
    dlq,       \* dead-letter rows in outbox_events about a copy
    tries,     \* history: failed ingests of a copy
    unwritten, \* history: copies whose dead-letter row could not be written
    faults     \* faults so far

server == <<ack, delivered>>
client == <<buffer, cur, step>>
history == <<tries, unwritten>>
cvars == <<stored, server, client, graph, dlq, history, faults>>

Copies == Events \X (1..MaxCopies)
Event(m) == m[1]
InStream(m) == m[2] <= stored[Event(m)]

\* A delivery carries the delivery count the server gave it.
Deliveries == [copy : Copies, count : Nat]

TypeOK ==
    /\ \A e \in Events : stored[e] \in Nat
    /\ ack \in [Copies -> {"owed", "out", "settled"}]
    /\ delivered \in [Copies -> Nat]
    /\ buffer \in Seq(Deliveries)
    /\ cur \in Deliveries \cup {Null}
    /\ step \in {"idle", "ingest", "ack", "nak", "record", "term"}
    /\ step # "idle" => cur \in Deliveries
    /\ DOMAIN graph = {"nodes", "edges", "evidence"}
    /\ dlq \in [Copies -> Nat]
    /\ tries \in [Copies -> Nat]
    /\ unwritten \subseteq Copies
    /\ faults \in Nat

\* The consumer, the worker and its tables; the stream starts empty.
WorkerInit ==
    /\ ack = [m \in Copies |-> "owed"]
    /\ delivered = [m \in Copies |-> 0]
    /\ buffer = <<>>
    /\ cur = Null
    /\ step = "idle"
    /\ graph = EmptyGraph
    /\ dlq = [m \in Copies |-> 0]
    /\ tries = [m \in Copies |-> 0]
    /\ unwritten = {}

Init ==
    /\ stored = [e \in Events |-> 0]
    /\ WorkerInit
    /\ faults = 0

Fault ==
    /\ faults < MaxFaults
    /\ faults' = faults + 1

-----------------------------------------------------------------------------
(* The stream and its consumer *)

\* A publisher stores one more copy of an event.
Store(e) ==
    /\ stored[e] < MaxCopies
    /\ stored' = [stored EXCEPT ![e] = @ + 1]
    /\ UNCHANGED <<server, client, graph, dlq, history, faults>>

\* Mutant: the consumer is created with MaxDeliver at the retry limit.
DeliverLimited(m) ==
    /\ InStream(m)
    /\ ack[m] = "owed"
    /\ delivered[m] < MaxRetries
    /\ Len(buffer) < Capacity
    /\ ack' = [ack EXCEPT ![m] = "out"]
    /\ delivered' = [delivered EXCEPT ![m] = @ + 1]
    /\ buffer' = Append(buffer, [copy |-> m, count |-> delivered[m] + 1])
    /\ UNCHANGED <<stored, cur, step, graph, dlq, history, faults>>

Deliver(m) ==
    /\ InStream(m)
    /\ ack[m] = "owed"
    /\ Len(buffer) < Capacity
    /\ ack' = [ack EXCEPT ![m] = "out"]
    /\ delivered' = [delivered EXCEPT ![m] = @ + 1]
    /\ buffer' = Append(buffer, [copy |-> m, count |-> delivered[m] + 1])
    /\ UNCHANGED <<stored, cur, step, graph, dlq, history, faults>>

\* The client still has a delivery of the copy.
WithClient(m) ==
    \/ step # "idle" /\ cur.copy = m
    \/ \E i \in 1..Len(buffer) : buffer[i].copy = m

\* AckWait passes without an answer.  While the client has the delivery this
\* means it is slower than AckWait, which counts as a fault.
AckWaitExpires(m) ==
    /\ ack[m] = "out"
    /\ IF WithClient(m) THEN Fault ELSE UNCHANGED faults
    /\ ack' = [ack EXCEPT ![m] = "owed"]
    /\ UNCHANGED <<stored, delivered, client, graph, dlq, history>>

-----------------------------------------------------------------------------
(* processMessage *)

\* The goroutine receives a delivery and parses it.
Receive ==
    /\ step = "idle"
    /\ buffer # <<>>
    /\ cur' = Head(buffer)
    /\ buffer' = Tail(buffer)
    /\ step' = IF Event(Head(buffer).copy) \in Unparseable THEN "record" ELSE "ingest"
    /\ UNCHANGED <<stored, server, graph, dlq, history, faults>>

IngestCommits ==
    /\ step = "ingest"
    /\ Event(cur.copy) \notin Poison
    /\ graph' = Ingest(graph, Envelope[Event(cur.copy)])
    /\ step' = "ack"
    /\ UNCHANGED <<stored, server, buffer, cur, dlq, history, faults>>

\* Mutant: the limit is off by one the other way.
AfterFailureEarly ==
    /\ tries' = [tries EXCEPT ![cur.copy] = @ + 1]
    /\ step' = IF cur.count + 1 >= MaxRetries THEN "record" ELSE "nak"

\* Mutant: the message is terminated without a dead-letter row.
AfterFailureSilent ==
    /\ tries' = [tries EXCEPT ![cur.copy] = @ + 1]
    /\ step' = IF cur.count >= MaxRetries THEN "term" ELSE "nak"

\* The branch an error of Ingest takes: deliveries are what is counted.
AfterFailure ==
    /\ tries' = [tries EXCEPT ![cur.copy] = @ + 1]
    /\ step' = IF cur.count >= MaxRetries THEN "record" ELSE "nak"

\* A statement fails and the transaction rolls back.
IngestFails ==
    /\ step = "ingest"
    /\ IF Event(cur.copy) \in Poison THEN UNCHANGED faults ELSE Fault
    /\ AfterFailure
    /\ UNCHANGED <<stored, server, buffer, cur, graph, dlq, unwritten>>

\* The transaction commits and the reply to COMMIT is lost.
IngestReplyLost ==
    /\ step = "ingest"
    /\ Event(cur.copy) \notin Poison
    /\ Fault
    /\ graph' = Ingest(graph, Envelope[Event(cur.copy)])
    /\ AfterFailure
    /\ UNCHANGED <<stored, server, buffer, cur, dlq, unwritten>>

Done ==
    /\ cur' = Null
    /\ step' = "idle"
    /\ UNCHANGED buffer

\* msg.Ack and msg.Term: the consumer never delivers the copy again.
Settle ==
    /\ step \in {"ack", "term"}
    /\ ack' = [ack EXCEPT ![cur.copy] = "settled"]
    /\ Done
    /\ UNCHANGED <<stored, delivered, graph, dlq, history, faults>>

\* msg.Nak: deliver again at once; the consumer ignores it for a settled copy.
Nak ==
    /\ step = "nak"
    /\ ack' = [ack EXCEPT ![cur.copy] = IF @ = "settled" THEN @ ELSE "owed"]
    /\ Done
    /\ UNCHANGED <<stored, delivered, graph, dlq, history, faults>>

\* Answers are sent without waiting: one may be lost.
AnswerLost ==
    /\ step \in {"ack", "nak", "term"}
    /\ Fault
    /\ Done
    /\ UNCHANGED <<stored, server, graph, dlq, history>>

\* recordDeadLetter: the id of the row is a function of the stream sequence,
\* and a row that is there already is left alone.
RecordDeadLetter ==
    /\ step = "record"
    /\ dlq' = [dlq EXCEPT ![cur.copy] = 1]
    /\ step' = "term"
    /\ UNCHANGED <<stored, server, buffer, cur, graph, history, faults>>

\* The insert fails, which is logged: the message is terminated all the same.
RecordFails ==
    /\ step = "record"
    /\ Fault
    /\ unwritten' = unwritten \cup {cur.copy}
    /\ step' = "term"
    /\ UNCHANGED <<stored, server, buffer, cur, graph, dlq, tries>>

\* The process dies and is restarted: the client's buffer is gone.
Crash ==
    /\ step # "idle" \/ buffer # <<>>
    /\ Fault
    /\ buffer' = <<>>
    /\ cur' = Null
    /\ step' = "idle"
    /\ UNCHANGED <<stored, server, graph, dlq, history>>

-----------------------------------------------------------------------------
ProcessMessage ==
    \/ Receive
    \/ IngestCommits
    \/ IngestFails
    \/ Settle
    \/ Nak
    \/ RecordDeadLetter

WorkerFault ==
    \/ IngestReplyLost
    \/ AnswerLost
    \/ RecordFails
    \/ Crash

WorkerNext ==
    \/ \E m \in Copies : Deliver(m) \/ AckWaitExpires(m)
    \/ ProcessMessage
    \/ WorkerFault

Next == WorkerNext \/ \E e \in Events : Store(e)

Spec == Init /\ [][Next]_cvars

\* The server delivers and times out, and the worker's loop goes on.
WorkerFairness ==
    /\ WF_cvars(ProcessMessage)
    /\ \A m \in Copies : WF_cvars(Deliver(m)) /\ WF_cvars(AckWaitExpires(m))

FairSpec == Spec /\ WorkerFairness

-----------------------------------------------------------------------------
(* Properties *)

\* What the consumer will never deliver again is accounted for: its rows are
\* in the graph, or a dead-letter row reports it, or the insert of that row
\* itself failed (Term runs in any case).  It is reported once at most, also
\* when the worker dies between the insert and Term and the message comes back
\* (recordDeadLetter).
SettledIsAccounted ==
    \A m \in Copies :
        /\ ack[m] = "settled" =>
            \/ Ingested(graph, Envelope[Event(m)])
            \/ dlq[m] > 0
            \/ m \in unwritten
        /\ dlq[m] <= 1

\* A message is given up only after MaxRetries deliveries, each of which
\* failed or was cut short by a fault; and one that can never be ingested costs
\* no more failures than that, and one for each fault that makes the server
\* deliver again.
GiveUpEarned ==
    \A m \in Copies :
        /\ dlq[m] > 0 /\ Event(m) \notin Unparseable =>
            /\ delivered[m] >= MaxRetries
            /\ tries[m] > 0
            /\ tries[m] + faults >= MaxRetries
        /\ tries[m] <= MaxRetries + faults

\* Every message in the stream is settled in the end, poisonous or not.
EverySettles == \A m \in Copies : InStream(m) ~> ack[m] = "settled"
=============================================================================
