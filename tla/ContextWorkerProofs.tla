------------------------ MODULE ContextWorkerProofs ------------------------
(***************************************************************************)
(* Proofs about the context worker: a message that the consumer will never *)
(* deliver again is in the graph or reported, and it is given up only      *)
(* after it earned that.                                                   *)
(*                                                                         *)
(* The second needs a count of what may still happen to a copy: every      *)
(* delivery of it that waits in the client or is being worked on has a     *)
(* delivery count of its own, and the server delivers a copy again only    *)
(* after a Nak, which spends such a delivery, or after a fault.            *)
(***************************************************************************)
EXTENDS ContextWorker, FiniteSetTheorems, TLAPS

-----------------------------------------------------------------------------
(* The inductive invariant *)


\* What every step keeps of the types, and what a step that works on a delivery has.
IndTypes ==
    /\ ack \in [Copies -> {"owed", "out", "settled"}]
    /\ delivered \in [Copies -> Nat]
    /\ buffer \in Seq(Deliveries)
    /\ step \in {"idle", "ingest", "ack", "nak", "record", "term"}
    /\ step # "idle" => cur \in Deliveries
    /\ graph = [nodes |-> graph.nodes, edges |-> graph.edges, evidence |-> graph.evidence]
    /\ dlq \in [Copies -> {0, 1}]
    /\ tries \in [Copies -> Nat]
    /\ unwritten \subseteq Copies
    /\ faults \in Nat

\* A message that is about to be settled, or is, is accounted for.
IndSettled ==
    /\ step = "ack" => Ingested(graph, Envelope[Event(cur.copy)])
    /\ step = "term" => dlq[cur.copy] = 1 \/ cur.copy \in unwritten
    /\ \A m \in Copies : ack[m] = "settled" =>
        \/ Ingested(graph, Envelope[Event(m)])
        \/ dlq[m] = 1
        \/ m \in unwritten

\* Deliveries of a copy reach the client in the order of their counts.
IndOrder ==
    /\ \A i \in 1..Len(buffer) : buffer[i].count <= delivered[buffer[i].copy]
    /\ \A i, j \in 1..Len(buffer) :
        i < j /\ buffer[i].copy = buffer[j].copy => buffer[i].count < buffer[j].count
    /\ step # "idle" =>
        /\ cur.count <= delivered[cur.copy]
        /\ \A i \in 1..Len(buffer) :
            buffer[i].copy = cur.copy => cur.count < buffer[i].count
    /\ step = "nak" => cur.count < MaxRetries

\* The counts of the deliveries of m that wait for the worker, ...
Waiting(m) == {n \in 0..delivered[m] :
    \E i \in 1..Len(buffer) : buffer[i].copy = m /\ buffer[i].count = n}
InHand(m, steps) == {n \in 0..delivered[m] : step \in steps /\ cur.copy = m /\ cur.count = n}

\* ... of those that may fail, and of those that a Nak may follow.
Untried(m) == Waiting(m) \cup InHand(m, {"ingest"})
Naking(m) == {n \in Waiting(m) \cup InHand(m, {"ingest", "nak"}) : n < MaxRetries}

\* The server will deliver m again, whatever the client does.
Loose(m) == ack[m] = "owed" \/ (ack[m] = "out" /\ ~WithClient(m))
Num(b) == IF b THEN 1 ELSE 0

\* Every delivery but the last has failed, or cost a fault.
EarnedSoFar(m) ==
    delivered[m] + Num(Loose(m)) + Num(step = "nak" /\ cur.copy = m)
        <= tries[m] + faults + 1

\* Only a fault makes the server deliver m beside a delivery that the client
\* still has, and nothing but a Nak below the limit, or a fault, after one.
FewDeliveries(m) ==
    /\ tries[m] + Cardinality(Untried(m)) <= delivered[m]
    /\ Cardinality(Naking(m)) + Num(Loose(m)) <= faults + 1
    /\ delivered[m] + Cardinality(Naking(m)) + Num(Loose(m)) <= MaxRetries + faults

GivenUp(m) ==
    /\ delivered[m] >= MaxRetries
    /\ tries[m] > 0
    /\ tries[m] + faults >= MaxRetries

IndEarned ==
    /\ \A m \in Copies : EarnedSoFar(m) /\ FewDeliveries(m)
    /\ \A m \in Copies : dlq[m] > 0 /\ Event(m) \notin Unparseable => GivenUp(m)
    /\ step = "record" /\ Event(cur.copy) \notin Unparseable => GivenUp(cur.copy)

IndInv == IndTypes /\ IndSettled /\ IndOrder /\ IndEarned

-----------------------------------------------------------------------------
(* The graph *)

\* Ingest leaves the rows of the event in the graph, and takes none away: what
\* was ingested stays ingested.
LEMMA IngestKeeps ==
    ASSUME NEW g, NEW env,
           g = [nodes |-> g.nodes, edges |-> g.edges, evidence |-> g.evidence]
    PROVE  /\ Ingested(Ingest(g, env), env)
           /\ \A other : Ingested(g, other) => Ingested(Ingest(g, env), other)
<1>1. Ingest(g, env).nodes = g.nodes \cup NewNodes(env)
  BY DEF Ingest
<1>2. Ingest(g, env).edges = g.edges \cup NewEdges(env)
  BY DEF Ingest
<1>3. Ingest(g, env).evidence = g.evidence \cup NewEvidence(env)
  BY DEF Ingest
<1>4. ASSUME NEW other, Ingested(g, other)
      PROVE  /\ NewNodes(other) \subseteq g.nodes
             /\ NewEdges(other) \subseteq g.edges
             /\ NewEvidence(other) \subseteq g.evidence
  <2>1. /\ g.nodes = g.nodes \cup NewNodes(other)
        /\ g.edges = g.edges \cup NewEdges(other)
        /\ g.evidence = g.evidence \cup NewEvidence(other)
    BY <1>4 DEF Ingested, Ingest
  <2> QED BY <2>1
<1>5. ASSUME NEW h, NEW other,
             h = [nodes |-> h.nodes, edges |-> h.edges, evidence |-> h.evidence],
             NewNodes(other) \subseteq h.nodes,
             NewEdges(other) \subseteq h.edges,
             NewEvidence(other) \subseteq h.evidence
      PROVE  Ingested(h, other)
  <2>1. /\ h.nodes \cup NewNodes(other) = h.nodes
        /\ h.edges \cup NewEdges(other) = h.edges
        /\ h.evidence \cup NewEvidence(other) = h.evidence
    BY <1>5
  <2> QED BY <1>5, <2>1 DEF Ingested, Ingest
<1>6. Ingest(g, env) = [nodes |-> Ingest(g, env).nodes,
                        edges |-> Ingest(g, env).edges,
                        evidence |-> Ingest(g, env).evidence]
  BY DEF Ingest
<1>7. Ingested(Ingest(g, env), env)
  BY <1>1, <1>2, <1>3, <1>5, <1>6
<1>8. ASSUME NEW other, Ingested(g, other)
      PROVE  Ingested(Ingest(g, env), other)
  <2>1. /\ NewNodes(other) \subseteq Ingest(g, env).nodes
        /\ NewEdges(other) \subseteq Ingest(g, env).edges
        /\ NewEvidence(other) \subseteq Ingest(g, env).evidence
    BY <1>1, <1>2, <1>3, <1>4, <1>8
  <2> QED BY <1>5, <1>6, <2>1
<1> QED BY <1>7, <1>8

-----------------------------------------------------------------------------
(* Types *)

\* Every step keeps the types.
LEMMA TypesPreserved ==
    ASSUME IndTypes, [Next]_cvars
    PROVE  IndTypes'
<1> USE ContextAssumption
<1>1. ASSUME NEW m \in Copies, Deliver(m)
      PROVE  IndTypes'
  <2>1. [copy |-> m, count |-> delivered[m] + 1] \in Deliveries
    BY DEF IndTypes, Deliveries
  <2>2. buffer' \in Seq(Deliveries)
    BY <1>1, <2>1 DEF Deliver, IndTypes
  <2> QED BY <1>1, <2>2 DEF Deliver, IndTypes, history
<1>2. ASSUME NEW m \in Copies, AckWaitExpires(m)
      PROVE  IndTypes'
  BY <1>2 DEF AckWaitExpires, Fault, IndTypes, client, history
<1>3. ASSUME Receive
      PROVE  IndTypes'
  BY <1>3 DEF Receive, IndTypes, server, history
<1>4. ASSUME IngestCommits
      PROVE  IndTypes'
  BY <1>4 DEF IngestCommits, IndTypes, Ingest, server, history
<1>5. ASSUME IngestFails
      PROVE  IndTypes'
  <2>1. cur.copy \in Copies
    BY <1>5 DEF IngestFails, IndTypes, Deliveries
  <2>2. faults' \in Nat /\ tries' \in [Copies -> Nat]
    BY SMTT(30), <1>5, <2>1 DEF IngestFails, AfterFailure, Fault, IndTypes
  <2>3. step' \in {"record", "nak"} /\ UNCHANGED <<ack, delivered, buffer, cur, graph, dlq, unwritten>>
    BY <1>5 DEF IngestFails, AfterFailure, server
  <2>4. cur' \in Deliveries
    BY <1>5, <2>3 DEF IngestFails, IndTypes
  <2> QED BY <2>2, <2>3, <2>4 DEF IndTypes
<1>6. ASSUME IngestReplyLost
      PROVE  IndTypes'
  <2>1. cur.copy \in Copies
    BY <1>6 DEF IngestReplyLost, IndTypes, Deliveries
  <2>2. faults' \in Nat /\ tries' \in [Copies -> Nat]
    BY <1>6, <2>1 DEF IngestReplyLost, AfterFailure, Fault, IndTypes
  <2>3. step' \in {"record", "nak"} /\ UNCHANGED <<ack, delivered, buffer, cur, dlq, unwritten>>
    BY <1>6 DEF IngestReplyLost, AfterFailure, server
  <2>4. cur' \in Deliveries
    BY <1>6, <2>3 DEF IngestReplyLost, IndTypes
  <2>5. graph' = [nodes |-> graph'.nodes, edges |-> graph'.edges, evidence |-> graph'.evidence]
    BY <1>6 DEF IngestReplyLost, Ingest
  <2> QED BY <2>2, <2>3, <2>4, <2>5 DEF IndTypes
<1>7. ASSUME Settle
      PROVE  IndTypes'
  BY <1>7 DEF Settle, Done, IndTypes, Deliveries, history
<1>8. ASSUME Nak
      PROVE  IndTypes'
  BY <1>8 DEF Nak, Done, IndTypes, Deliveries, history
<1>9. ASSUME AnswerLost
      PROVE  IndTypes'
  BY <1>9 DEF AnswerLost, Done, Fault, IndTypes, server, history
<1>10. ASSUME RecordDeadLetter
       PROVE  IndTypes'
  BY <1>10 DEF RecordDeadLetter, IndTypes, Deliveries, server, history
<1>11. ASSUME RecordFails
       PROVE  IndTypes'
  BY <1>11 DEF RecordFails, Fault, IndTypes, Deliveries, server
<1>12. ASSUME Crash
       PROVE  IndTypes'
  BY <1>12 DEF Crash, Fault, IndTypes, server, history
<1>13. ASSUME NEW e \in Events, Store(e)
       PROVE  IndTypes'
  BY <1>13 DEF Store, IndTypes, server, client, history
<1>14. CASE UNCHANGED cvars
  BY <1>14 DEF cvars, IndTypes, server, client, history
<1> QED
  BY <1>1, <1>2, <1>3, <1>4, <1>5, <1>6, <1>7, <1>8, <1>9, <1>10, <1>11, <1>12,
     <1>13, <1>14
     DEF Next, WorkerNext, ProcessMessage, WorkerFault

-----------------------------------------------------------------------------
(* Accounting *)

\* Every step keeps what is settled accounted for.
LEMMA SettledPreserved ==
    ASSUME IndTypes, IndSettled, [Next]_cvars
    PROVE  IndSettled'
<1>1. ASSUME NEW m \in Copies, Deliver(m) \/ AckWaitExpires(m)
      PROVE  IndSettled'
  BY <1>1 DEF Deliver, AckWaitExpires, IndTypes, IndSettled, client, history
<1>2. ASSUME Receive
      PROVE  IndSettled'
  BY <1>2 DEF Receive, IndSettled, server, history
<1>3. ASSUME IngestCommits \/ IngestReplyLost
      PROVE  IndSettled'
  <2>1. step = "ingest" /\ graph' = Ingest(graph, Envelope[Event(cur.copy)])
    BY <1>3 DEF IngestCommits, IngestReplyLost
  <2>2. /\ Ingested(graph', Envelope[Event(cur.copy)])
        /\ \A other : Ingested(graph, other) => Ingested(graph', other)
    BY <2>1, IngestKeeps DEF IndTypes
  <2>3. UNCHANGED <<ack, dlq, unwritten, cur>> /\ step' # "term"
    BY <1>3 DEF IngestCommits, IngestReplyLost, AfterFailure, server, history
  <2> QED BY <2>2, <2>3 DEF IndSettled
<1>4. ASSUME IngestFails
      PROVE  IndSettled'
  BY <1>4 DEF IngestFails, AfterFailure, IndSettled, server
<1>5. ASSUME Settle
      PROVE  IndSettled'
  <2>1. cur.copy \in Copies
    BY <1>5 DEF Settle, IndTypes, Deliveries
  <2>2. \/ Ingested(graph, Envelope[Event(cur.copy)])
        \/ dlq[cur.copy] = 1
        \/ cur.copy \in unwritten
    BY <1>5 DEF Settle, IndSettled
  <2> QED BY <1>5, <2>1, <2>2 DEF Settle, Done, IndSettled, IndTypes, history
<1>6. ASSUME Nak
      PROVE  IndSettled'
  <2>1. cur.copy \in Copies
    BY <1>6 DEF Nak, IndTypes, Deliveries
  <2>2. \A m \in Copies : ack'[m] = "settled" => ack[m] = "settled"
    BY <1>6, <2>1 DEF Nak, IndTypes
  <2> QED BY <1>6, <2>2 DEF Nak, Done, IndSettled, history
<1>7. ASSUME AnswerLost \/ Crash
      PROVE  IndSettled'
  BY <1>7 DEF AnswerLost, Crash, Done, IndSettled, server, history
<1>8. ASSUME RecordDeadLetter
      PROVE  IndSettled'
  <2>1. cur.copy \in Copies
    BY <1>8 DEF RecordDeadLetter, IndTypes, Deliveries
  <2>2. dlq'[cur.copy] = 1 /\ \A m \in Copies : dlq[m] = 1 => dlq'[m] = 1
    BY <1>8, <2>1 DEF RecordDeadLetter, IndTypes
  <2> QED BY <1>8, <2>2 DEF RecordDeadLetter, IndSettled, server, history
<1>9. ASSUME RecordFails
      PROVE  IndSettled'
  BY <1>9 DEF RecordFails, IndSettled, server
<1>10. ASSUME NEW e \in Events, Store(e)
       PROVE  IndSettled'
  BY <1>10 DEF Store, IndSettled, server, client, history
<1>11. CASE UNCHANGED cvars
  BY <1>11 DEF cvars, IndSettled, server, client, history
<1> QED
  BY <1>1, <1>2, <1>3, <1>4, <1>5, <1>6, <1>7, <1>8, <1>9, <1>10, <1>11
     DEF Next, WorkerNext, ProcessMessage, WorkerFault

-----------------------------------------------------------------------------
(* The order of deliveries *)

\* What the client still has keeps its order when the first delivery goes.
LEMMA TailKeepsOrder ==
    ASSUME IndTypes, IndOrder, buffer # <<>>, buffer' = Tail(buffer),
           UNCHANGED delivered
    PROVE  /\ Head(buffer) \in Deliveries
           /\ \A i \in 1..Len(buffer') :
                /\ i + 1 \in 1..Len(buffer)
                /\ buffer'[i] = buffer[i + 1]
           /\ Head(buffer).count <= delivered[Head(buffer).copy]
           /\ \A i \in 1..Len(buffer') :
                buffer'[i].copy = Head(buffer).copy => Head(buffer).count < buffer'[i].count
<1>1. /\ Len(buffer) \in Nat \ {0}
      /\ Len(buffer') = Len(buffer) - 1
      /\ Head(buffer) = buffer[1]
      /\ buffer[1] \in Deliveries
  BY DEF IndTypes
<1>2. \A i \in 1..Len(buffer') :
        /\ i + 1 \in 1..Len(buffer)
        /\ buffer'[i] = buffer[i + 1]
        /\ 1 < i + 1
  BY <1>1 DEF IndTypes
<1>3. 1 \in 1..Len(buffer)
  BY <1>1
<1> QED BY <1>1, <1>2, <1>3 DEF IndOrder

\* Every step keeps the deliveries in order.
LEMMA OrderPreserved ==
    ASSUME IndTypes, IndOrder, [Next]_cvars
    PROVE  IndOrder'
<1>1. ASSUME NEW m \in Copies, Deliver(m)
      PROVE  IndOrder'
  <2>1. /\ Len(buffer) \in Nat
        /\ Len(buffer') = Len(buffer) + 1
        /\ \A i \in 1..Len(buffer) : buffer'[i] = buffer[i] /\ buffer[i] \in Deliveries
        /\ buffer'[Len(buffer) + 1] = [copy |-> m, count |-> delivered[m] + 1]
    BY <1>1 DEF Deliver, IndTypes
  <2>2. /\ delivered[m] \in Nat /\ delivered'[m] = delivered[m] + 1
        /\ \A o \in Copies : o # m => delivered'[o] = delivered[o]
        /\ \A o \in Copies : delivered[o] \in Nat
    BY <1>1 DEF Deliver, IndTypes
  <2>3. \A i \in 1..Len(buffer') : i \in 1..Len(buffer) \/ i = Len(buffer) + 1
    BY <2>1
  <2>4. \A i \in 1..Len(buffer) :
          /\ buffer[i].copy \in Copies /\ buffer[i].count \in Nat
          /\ buffer[i].count <= delivered[buffer[i].copy]
    BY <2>1 DEF IndOrder, Deliveries
  <2>5. \A i \in 1..Len(buffer') : buffer'[i].count <= delivered'[buffer'[i].copy]
    BY SMTT(30), <2>1, <2>2, <2>3, <2>4
  <2>6. ASSUME NEW i \in 1..Len(buffer'), NEW j \in 1..Len(buffer'),
               i < j, buffer'[i].copy = buffer'[j].copy
        PROVE  buffer'[i].count < buffer'[j].count
    <3>1. i \in 1..Len(buffer)
      BY <2>1, <2>3, <2>6
    <3>2. CASE j \in 1..Len(buffer)
      BY <2>1, <2>6, <3>1, <3>2 DEF IndOrder
    <3>3. CASE j = Len(buffer) + 1
      BY <2>1, <2>2, <2>4, <2>6, <3>1, <3>3
    <3> QED BY <2>3, <3>2, <3>3
  <2>7. UNCHANGED <<cur, step>>
    BY <1>1 DEF Deliver
  <2>8. ASSUME step # "idle"
        PROVE  /\ cur.count <= delivered'[cur.copy]
               /\ \A i \in 1..Len(buffer') :
                    buffer'[i].copy = cur.copy => cur.count < buffer'[i].count
               /\ step = "nak" => cur.count < MaxRetries
    <3>1. cur.copy \in Copies /\ cur.count \in Nat /\ cur.count <= delivered[cur.copy]
      BY <2>8 DEF IndTypes, IndOrder, Deliveries
    <3>2. cur.count <= delivered'[cur.copy]
      BY <2>2, <3>1
    <3>3. \A i \in 1..Len(buffer) :
            buffer[i].copy = cur.copy => cur.count < buffer[i].count
      BY <2>8 DEF IndOrder
    <3>4. ASSUME NEW i \in 1..Len(buffer'), buffer'[i].copy = cur.copy
          PROVE  cur.count < buffer'[i].count
      <4>1. CASE i \in 1..Len(buffer)
        BY <2>1, <3>3, <3>4, <4>1
      <4>2. CASE i = Len(buffer) + 1
        BY <2>1, <2>2, <3>1, <3>4, <4>2
      <4> QED BY <2>3, <4>1, <4>2
    <3>5. step = "nak" => cur.count < MaxRetries
      BY ContextAssumption, <3>1 DEF IndOrder
    <3> QED BY <3>2, <3>4, <3>5
  <2> QED BY <2>5, <2>6, <2>7, <2>8 DEF IndOrder
<1>2. ASSUME Receive
      PROVE  IndOrder'
  <2>1. /\ buffer # <<>> /\ buffer' = Tail(buffer) /\ UNCHANGED delivered
        /\ cur' = Head(buffer) /\ step' # "nak"
    BY <1>2 DEF Receive, server
  <2>2. /\ \A i \in 1..Len(buffer') :
             /\ i + 1 \in 1..Len(buffer)
             /\ buffer'[i] = buffer[i + 1]
        /\ cur'.count <= delivered[cur'.copy]
        /\ \A i \in 1..Len(buffer') :
             buffer'[i].copy = cur'.copy => cur'.count < buffer'[i].count
    BY <2>1, TailKeepsOrder
  <2>3. \A i, j \in 1..Len(buffer') : i < j => i + 1 < j + 1
    OBVIOUS
  <2> QED BY <2>1, <2>2, <2>3 DEF IndOrder
<1>3. ASSUME IngestFails \/ IngestReplyLost
      PROVE  IndOrder'
  <2>1. cur.count \in Nat /\ (step' = "nak" => cur.count < MaxRetries)
    BY <1>3, ContextAssumption
       DEF IngestFails, IngestReplyLost, AfterFailure, IndTypes, Deliveries
  <2>2. UNCHANGED <<buffer, cur, delivered>> /\ step # "idle"
    BY <1>3 DEF IngestFails, IngestReplyLost, server
  <2> QED BY <2>1, <2>2 DEF IndOrder
<1>4. ASSUME IngestCommits \/ RecordDeadLetter \/ RecordFails
      PROVE  IndOrder'
  BY <1>4 DEF IngestCommits, RecordDeadLetter, RecordFails, IndOrder, server
<1>5. ASSUME Settle \/ Nak \/ AnswerLost
      PROVE  IndOrder'
  BY <1>5 DEF Settle, Nak, AnswerLost, Done, IndOrder, server
<1>6. ASSUME Crash
      PROVE  IndOrder'
  <2>1. Len(buffer') = 0 /\ step' = "idle" /\ UNCHANGED delivered
    BY <1>6 DEF Crash, server
  <2>2. 1..Len(buffer') = {}
    BY <2>1
  <2> QED BY <2>1, <2>2 DEF IndOrder
<1>7. ASSUME NEW m \in Copies, AckWaitExpires(m)
      PROVE  IndOrder'
  BY <1>7 DEF AckWaitExpires, IndOrder, client
<1>8. ASSUME NEW e \in Events, Store(e)
      PROVE  IndOrder'
  BY <1>8 DEF Store, IndOrder, server, client
<1>9. CASE UNCHANGED cvars
  BY <1>9 DEF cvars, IndOrder, server, client
<1> QED
  BY <1>1, <1>2, <1>3, <1>4, <1>5, <1>6, <1>7, <1>8, <1>9
     DEF Next, WorkerNext, ProcessMessage, WorkerFault

-----------------------------------------------------------------------------
(* Counting deliveries *)

\* The counts of the deliveries of a copy are few enough to be counted, and one
\* delivery more or less is one count more or less.
LEMMA CountsOfDeliveries ==
    ASSUME NEW d \in Nat, NEW S \in SUBSET (0..d)
    PROVE  /\ IsFiniteSet(S)
           /\ Cardinality(S) \in Nat
           /\ \A T \in SUBSET S : Cardinality(T) \in Nat /\ Cardinality(T) <= Cardinality(S)
           /\ \A x \in S : \A T \in SUBSET (S \ {x}) :
                Cardinality(T) \in Nat /\ Cardinality(T) <= Cardinality(S) - 1
           /\ \A x : \A T \in SUBSET (S \cup {x}) :
                Cardinality(T) \in Nat /\ Cardinality(T) <= Cardinality(S) + 1
<1>1. IsFiniteSet(0..d)
  BY FS_Interval
<1>2. IsFiniteSet(S)
  BY <1>1, FS_Subset
<1>3. Cardinality(S) \in Nat
  BY <1>2, FS_CardinalityType
<1>4. ASSUME NEW U, IsFiniteSet(U), NEW T \in SUBSET U
      PROVE  Cardinality(T) \in Nat /\ Cardinality(T) <= Cardinality(U)
  <2>1. IsFiniteSet(T) /\ Cardinality(T) <= Cardinality(U)
    BY <1>4, FS_Subset
  <2> QED BY <2>1, FS_CardinalityType
<1>5. ASSUME NEW x \in S, NEW T \in SUBSET (S \ {x})
      PROVE  Cardinality(T) \in Nat /\ Cardinality(T) <= Cardinality(S) - 1
  <2>1. IsFiniteSet(S \ {x}) /\ Cardinality(S \ {x}) = Cardinality(S) - 1
    BY <1>2, FS_RemoveElement
  <2> QED BY <1>4, <2>1
<1>6. ASSUME NEW x, NEW T \in SUBSET (S \cup {x})
      PROVE  Cardinality(T) \in Nat /\ Cardinality(T) <= Cardinality(S) + 1
  <2>1. IsFiniteSet(S \cup {x})
    BY <1>2, FS_AddElement
  <2>2. Cardinality(S \cup {x}) = Cardinality(S) \/ Cardinality(S \cup {x}) = Cardinality(S) + 1
    BY <1>2, FS_AddElement
  <2>3. Cardinality(T) \in Nat /\ Cardinality(T) <= Cardinality(S \cup {x})
    BY <1>4, <2>1
  <2> QED BY <1>3, <2>2, <2>3
<1> QED BY <1>2, <1>3, <1>4, <1>5, <1>6

\* The three ways a step can bear on a copy: it delivers the copy once more, it
\* fails to ingest a delivery of it, or it leaves both counts alone and lets
\* the server deliver again only at the price of a Nak or a fault.
Redelivers(m) ==
    /\ delivered'[m] = delivered[m] + 1
    /\ tries'[m] = tries[m]
    /\ faults' = faults
    /\ Loose(m) /\ ~Loose(m)'
    /\ step' = step /\ cur' = cur
    /\ Untried(m)' \subseteq Untried(m) \cup {delivered[m] + 1}
    /\ Naking(m)' \subseteq Naking(m) \cup {delivered[m] + 1}
    /\ delivered[m] + 1 >= MaxRetries => Naking(m)' \subseteq Naking(m)

Fails(m) ==
    /\ delivered'[m] = delivered[m]
    /\ tries'[m] = tries[m] + 1
    /\ faults' \in {faults, faults + 1}
    /\ Loose(m)' => Loose(m)
    /\ cur.copy = m /\ cur' = cur /\ step = "ingest"
    /\ cur.count \in Untried(m)
    /\ Untried(m)' \subseteq Untried(m) \ {cur.count}
    /\ Naking(m)' \subseteq Naking(m)

Spares(m) ==
    /\ delivered'[m] = delivered[m]
    /\ tries'[m] = tries[m]
    /\ Untried(m)' \subseteq Untried(m)
    /\ Naking(m)' \subseteq Naking(m)
    /\ \/ /\ faults' = faults
          /\ Loose(m)' => Loose(m)
          /\ (step = "nak" /\ cur.copy = m)' => step = "nak" /\ cur.copy = m
       \/ /\ faults' = faults
          /\ step = "nak" /\ cur.copy = m
          /\ step' = "idle"
          /\ cur.count \in Naking(m)
          /\ Naking(m)' \subseteq Naking(m) \ {cur.count}
       \/ /\ faults' = faults + 1
          /\ (step = "nak" /\ cur.copy = m)' => step = "nak" /\ cur.copy = m

\* None of the three breaks the count of a copy.
LEMMA CountKept ==
    ASSUME NEW m \in Copies, IndTypes, IndTypes', EarnedSoFar(m), FewDeliveries(m),
           Redelivers(m) \/ Fails(m) \/ Spares(m)
    PROVE  EarnedSoFar(m)' /\ FewDeliveries(m)'
<1> DEFINE u == Cardinality(Untried(m))
           k == Cardinality(Naking(m))
           l == Num(Loose(m))
           p == Num(step = "nak" /\ cur.copy = m)
           d == delivered[m]
           t == tries[m]
           f == faults
<1>1. /\ d \in Nat /\ d' \in Nat
      /\ t \in Nat /\ t' \in Nat
      /\ f \in Nat /\ f' \in Nat
      /\ l \in {0, 1} /\ l' \in {0, 1}
      /\ p \in {0, 1} /\ p' \in {0, 1}
  BY DEF IndTypes, Num
<1>2. /\ Untried(m) \in SUBSET (0..d) /\ Untried(m)' \in SUBSET (0..d')
      /\ Naking(m) \in SUBSET (0..d) /\ Naking(m)' \in SUBSET (0..d')
  BY DEF Untried, Naking, Waiting, InHand
<1>3. u \in Nat /\ u' \in Nat /\ k \in Nat /\ k' \in Nat
  BY <1>1, <1>2, CountsOfDeliveries
<1>4. /\ d + l + p <= t + f + 1
      /\ t + u <= d
      /\ k + l <= f + 1
      /\ d + k + l <= MaxRetries + f
  BY DEF EarnedSoFar, FewDeliveries
<1>5. MaxRetries \in Nat
  BY ContextAssumption
<1>6. SUFFICES /\ d' + l' + p' <= t' + f' + 1
               /\ t' + u' <= d'
               /\ k' + l' <= f' + 1
               /\ d' + k' + l' <= MaxRetries + f'
  BY DEF EarnedSoFar, FewDeliveries
<1>7. CASE Redelivers(m)
  <2>1. u' <= u + 1 /\ k' <= k + 1
    BY <1>1, <1>2, <1>7, CountsOfDeliveries DEF Redelivers
  <2>2. d + 1 >= MaxRetries => k' <= k
    BY <1>1, <1>2, <1>7, CountsOfDeliveries DEF Redelivers
  <2>3. d' = d + 1 /\ t' = t /\ f' = f /\ l = 1 /\ l' = 0 /\ p' = p
    BY <1>7 DEF Redelivers, Num
  <2> QED BY <1>1, <1>3, <1>4, <1>5, <2>1, <2>2, <2>3
<1>8. CASE Fails(m)
  <2>1. u' <= u - 1 /\ k' <= k
    BY <1>1, <1>2, <1>8, CountsOfDeliveries DEF Fails
  <2>2. d' = d /\ t' = t + 1 /\ f' \in {f, f + 1} /\ l' <= l /\ p = 0
    BY <1>8 DEF Fails, Num
  <2> QED BY <1>1, <1>3, <1>4, <1>5, <2>1, <2>2
<1>9. CASE Spares(m)
  <2>1. u' <= u /\ k' <= k
    BY <1>1, <1>2, <1>9, CountsOfDeliveries DEF Spares
  <2>2. d' = d /\ t' = t
    BY <1>9 DEF Spares
  <2>3. \/ f' = f /\ l' <= l /\ p' <= p
        \/ f' = f /\ k' <= k - 1 /\ p = 1 /\ p' = 0
        \/ f' = f + 1 /\ p' <= p
    <3>1. CASE /\ faults' = faults
               /\ Loose(m)' => Loose(m)
               /\ (step = "nak" /\ cur.copy = m)' => step = "nak" /\ cur.copy = m
      BY <3>1 DEF Num
    <3>2. CASE /\ faults' = faults
               /\ step = "nak" /\ cur.copy = m
               /\ step' = "idle"
               /\ cur.count \in Naking(m)
               /\ Naking(m)' \subseteq Naking(m) \ {cur.count}
      <4>1. k' <= k - 1
        BY <1>1, <1>2, <3>2, CountsOfDeliveries
      <4> QED BY <3>2, <4>1 DEF Num
    <3>3. CASE /\ faults' = faults + 1
               /\ (step = "nak" /\ cur.copy = m)' => step = "nak" /\ cur.copy = m
      BY <3>3 DEF Num
    <3> QED BY <1>9, <3>1, <3>2, <3>3 DEF Spares
  <2> QED BY <1>1, <1>3, <1>4, <1>5, <2>1, <2>2, <2>3
<1> QED BY <1>7, <1>8, <1>9

\* A delivery that is being ingested, or about to be refused, is counted.
LEMMA InHandCounted ==
    ASSUME IndTypes, IndOrder, step \in {"ingest", "nak"}
    PROVE  /\ cur.copy \in Copies
           /\ cur.count \in 0..delivered[cur.copy]
           /\ step = "ingest" => cur.count \in Untried(cur.copy)
           /\ cur.count < MaxRetries => cur.count \in Naking(cur.copy)
           /\ cur.count \notin Waiting(cur.copy)
<1>1. cur.copy \in Copies /\ cur.count \in Nat
  BY DEF IndTypes, Deliveries
<1>2. delivered[cur.copy] \in Nat /\ cur.count <= delivered[cur.copy]
  BY <1>1 DEF IndTypes, IndOrder
<1>3. cur.count \in 0..delivered[cur.copy]
  BY <1>1, <1>2
<1>4. \A i \in 1..Len(buffer) : buffer[i].copy = cur.copy => cur.count < buffer[i].count
  BY DEF IndOrder
<1>5. cur.count \notin Waiting(cur.copy)
  BY <1>1, <1>4 DEF Waiting
<1> QED BY <1>1, <1>3, <1>5 DEF Untried, Naking, InHand

\* What waits, while nothing comes to the client and nothing leaves it.
LEMMA SameBuffer ==
    ASSUME NEW m, UNCHANGED <<buffer, delivered>>
    PROVE  Waiting(m)' = Waiting(m)
BY DEF Waiting

\* A delivery bears on the copy delivered, and on no other.
LEMMA DeliverCounts ==
    ASSUME NEW o \in Copies, Deliver(o), IndTypes, IndOrder, NEW m \in Copies
    PROVE  IF m = o THEN Redelivers(m) ELSE Spares(m)
<1>1. /\ Len(buffer) \in Nat
      /\ Len(buffer') = Len(buffer) + 1
      /\ \A i \in 1..Len(buffer) : buffer'[i] = buffer[i] /\ buffer[i] \in Deliveries
      /\ buffer'[Len(buffer) + 1] = [copy |-> o, count |-> delivered[o] + 1]
  BY DEF Deliver, IndTypes
<1>2. /\ \A c \in Copies : delivered[c] \in Nat
      /\ delivered'[o] = delivered[o] + 1
      /\ m # o => delivered'[m] = delivered[m]
      /\ ack[o] = "owed" /\ ack'[o] = "out"
      /\ m # o => ack'[m] = ack[m]
      /\ UNCHANGED <<cur, step, tries, faults>>
  BY DEF Deliver, IndTypes, history
<1>3. \A i \in 1..Len(buffer') : i \in 1..Len(buffer) \/ i = Len(buffer) + 1
  BY <1>1
<1>4. 1..Len(buffer) \subseteq 1..Len(buffer') /\ Len(buffer) + 1 \in 1..Len(buffer')
  BY <1>1
<1>5. \A i \in 1..Len(buffer) :
        /\ buffer[i].copy \in Copies /\ buffer[i].count \in Nat
        /\ buffer[i].count <= delivered[buffer[i].copy]
  BY <1>1 DEF IndOrder, Deliveries
<1>6. \A steps \in SUBSET {"ingest", "nak"} : InHand(m, steps)' \subseteq InHand(m, steps)
  <2>1. ASSUME NEW steps \in SUBSET {"ingest", "nak"}, NEW n \in InHand(m, steps)'
        PROVE  n \in InHand(m, steps)
    <3>1. n \in Nat /\ step \in steps /\ cur.copy = m /\ cur.count = n
      BY <1>2, <2>1 DEF InHand
    <3>2. n <= delivered[m]
      BY <3>1 DEF IndOrder
    <3> QED BY <1>2, <3>1, <3>2 DEF InHand
  <2> QED BY <2>1
<1>7. CASE m = o
  <2>1. Waiting(m)' \subseteq Waiting(m) \cup {delivered[m] + 1}
    <3>1. ASSUME NEW n \in Waiting(m)'
          PROVE  n \in Waiting(m) \cup {delivered[m] + 1}
      <4>1. PICK i \in 1..Len(buffer') : buffer'[i].copy = m /\ buffer'[i].count = n
        BY <3>1 DEF Waiting
      <4>2. CASE i \in 1..Len(buffer)
        BY <1>1, <1>2, <1>5, <4>1, <4>2 DEF Waiting
      <4>3. CASE i = Len(buffer) + 1
        BY <1>1, <1>7, <4>1, <4>3
      <4> QED BY <1>3, <4>2, <4>3
    <3> QED BY <3>1
  <2>2. WithClient(m)'
    BY <1>1, <1>4, <1>7 DEF WithClient
  <2>3. Loose(m) /\ ~Loose(m)'
    BY <1>2, <1>7, <2>2 DEF Loose
  <2>4. /\ Untried(m)' \subseteq Untried(m) \cup {delivered[m] + 1}
        /\ Naking(m)' \subseteq Naking(m) \cup {delivered[m] + 1}
        /\ delivered[m] + 1 >= MaxRetries => Naking(m)' \subseteq Naking(m)
    <3>1. Untried(m)' \subseteq Untried(m) \cup {delivered[m] + 1}
      BY <1>6, <2>1 DEF Untried
    <3>2. Naking(m)' \subseteq Naking(m) \cup {delivered[m] + 1}
      BY <1>6, <2>1 DEF Naking
    <3>3. ASSUME delivered[m] + 1 >= MaxRetries, delivered[m] + 1 \in Naking(m)'
          PROVE  FALSE
      BY <1>2, <3>3, ContextAssumption DEF Naking
    <3> QED BY <3>1, <3>2, <3>3
  <2> QED BY <1>2, <1>7, <2>3, <2>4 DEF Redelivers
<1>8. CASE m # o
  <2>1. Waiting(m)' \subseteq Waiting(m)
    BY <1>1, <1>2, <1>3, <1>8 DEF Waiting
  <2>2. WithClient(m) => WithClient(m)'
    BY <1>1, <1>2, <1>4, <1>8 DEF WithClient
  <2>3. Loose(m)' => Loose(m)
    BY <1>2, <1>8, <2>2 DEF Loose
  <2>4. Untried(m)' \subseteq Untried(m) /\ Naking(m)' \subseteq Naking(m)
    BY <1>6, <2>1 DEF Untried, Naking
  <2> QED BY <1>2, <1>8, <2>3, <2>4 DEF Spares
<1> QED BY <1>7, <1>8

\* The worker takes over a delivery that waited.
LEMMA ReceiveCounts ==
    ASSUME Receive, IndTypes, IndOrder, NEW m \in Copies
    PROVE  Spares(m)
<1>1. /\ buffer # <<>> /\ buffer' = Tail(buffer)
      /\ cur' = Head(buffer) /\ step = "idle" /\ step' \in {"record", "ingest"}
      /\ UNCHANGED <<ack, delivered, tries, faults>>
  BY DEF Receive, server, history
<1>2. /\ Len(buffer) \in Nat \ {0}
      /\ Len(buffer') = Len(buffer) - 1
      /\ Head(buffer) = buffer[1]
      /\ 1 \in 1..Len(buffer)
  BY <1>1 DEF IndTypes
<1>3. \A i \in 1..Len(buffer') : i + 1 \in 1..Len(buffer) /\ buffer'[i] = buffer[i + 1]
  BY <1>1, TailKeepsOrder
<1>4. \A i \in 1..Len(buffer) : i # 1 => i - 1 \in 1..Len(buffer') /\ buffer'[i - 1] = buffer[i]
  <2>1. ASSUME NEW i \in 1..Len(buffer), i # 1
        PROVE  i - 1 \in 1..Len(buffer') /\ buffer'[i - 1] = buffer[i]
    <3>1. i - 1 \in 1..Len(buffer') /\ (i - 1) + 1 = i
      BY <1>2, <2>1
    <3> QED BY <1>3, <3>1
  <2> QED BY <2>1
<1>5. Waiting(m)' \subseteq Waiting(m)
  <2>1. ASSUME NEW n \in Waiting(m)'
        PROVE  n \in Waiting(m)
    <3>1. PICK i \in 1..Len(buffer') : buffer'[i].copy = m /\ buffer'[i].count = n
      BY <2>1 DEF Waiting
    <3> QED BY <1>1, <1>3, <2>1, <3>1 DEF Waiting
  <2> QED BY <2>1
<1>6. \A steps : InHand(m, steps)' \subseteq Waiting(m)
  BY <1>1, <1>2 DEF InHand, Waiting
<1>7. WithClient(m) => WithClient(m)'
  <2>1. ASSUME NEW i \in 1..Len(buffer), buffer[i].copy = m
        PROVE  WithClient(m)'
    <3>1. CASE i = 1
      BY <1>1, <1>2, <2>1, <3>1 DEF WithClient
    <3>2. CASE i # 1
      BY <1>4, <2>1, <3>2 DEF WithClient
    <3> QED BY <3>1, <3>2
  <2> QED BY <1>1, <2>1 DEF WithClient
<1>8. Untried(m)' \subseteq Untried(m) /\ Naking(m)' \subseteq Naking(m)
  BY <1>5, <1>6 DEF Untried, Naking
<1> QED BY <1>1, <1>7, <1>8 DEF Spares, Loose

\* A failed ingest spends the delivery in hand, and only that.
LEMMA FailureCounts ==
    ASSUME IngestFails \/ IngestReplyLost, IndTypes, IndOrder, NEW m \in Copies
    PROVE  IF m = cur.copy THEN Fails(m) ELSE Spares(m)
<1>1. /\ step = "ingest"
      /\ AfterFailure
      /\ faults' \in {faults, faults + 1}
      /\ UNCHANGED <<ack, delivered, buffer, cur>>
  BY DEF IngestFails, IngestReplyLost, Fault, server
<1>2. step' \in {"record", "nak"}
  BY <1>1 DEF AfterFailure
<1>3. /\ cur.copy \in Copies
      /\ cur.count \in Untried(cur.copy)
      /\ cur.count \notin Waiting(cur.copy)
  BY <1>1, InHandCounted
<1>4. Waiting(m)' = Waiting(m)
  BY <1>1, SameBuffer
<1>5. WithClient(m)' <=> WithClient(m)
  BY <1>1, <1>2 DEF WithClient
<1>6. Loose(m)' <=> Loose(m)
  BY <1>1, <1>5 DEF Loose
<1>7. InHand(m, {"ingest"})' = {} /\ InHand(m, {"ingest", "nak"})' \subseteq InHand(m, {"ingest", "nak"})
  BY <1>1, <1>2 DEF InHand
<1>8. Untried(m)' = Waiting(m) /\ Naking(m)' \subseteq Naking(m)
  BY <1>4, <1>7 DEF Untried, Naking
<1>9. CASE m = cur.copy
  <2>1. tries'[m] = tries[m] + 1
    BY <1>1, <1>3, <1>9 DEF AfterFailure, IndTypes
  <2>2. Untried(m)' \subseteq Untried(m) \ {cur.count}
    BY <1>3, <1>8, <1>9 DEF Untried
  <2> QED BY <1>1, <1>3, <1>6, <1>8, <1>9, <2>1, <2>2 DEF Fails
<1>10. CASE m # cur.copy
  <2>1. tries'[m] = tries[m]
    BY <1>1, <1>3, <1>10 DEF AfterFailure, IndTypes
  <2>2. Untried(m)' \subseteq Untried(m)
    BY <1>8 DEF Untried
  <2> QED BY <1>1, <1>6, <1>8, <1>10, <2>1, <2>2 DEF Spares
<1> QED BY <1>9, <1>10

\* Every other step spares every copy.
LEMMA OthersSpare ==
    ASSUME \/ \E o \in Copies : AckWaitExpires(o)
           \/ IngestCommits \/ Settle \/ Nak \/ AnswerLost
           \/ RecordDeadLetter \/ RecordFails \/ Crash
           \/ \E e \in Events : Store(e)
           \/ UNCHANGED cvars,
           IndTypes, IndOrder, NEW m \in Copies
    PROVE  Spares(m)
<1>1. UNCHANGED <<delivered, tries>>
  BY DEF AckWaitExpires, IngestCommits, Settle, Nak, AnswerLost, RecordDeadLetter,
         RecordFails, Crash, Store, cvars, server, history
<1>2. /\ UNCHANGED buffer \/ buffer' = <<>>
      /\ step' \notin {"ingest", "nak"} \/ UNCHANGED <<step, cur>>
  BY DEF AckWaitExpires, IngestCommits, Settle, Nak, AnswerLost, RecordDeadLetter,
         RecordFails, Crash, Store, cvars, client, Done
<1>3. Waiting(m)' \subseteq Waiting(m)
  <2>1. CASE UNCHANGED buffer
    BY <1>1, <2>1, SameBuffer
  <2>2. CASE buffer' = <<>>
    <3>1. 1..Len(buffer') = {}
      BY <2>2
    <3> QED BY <3>1 DEF Waiting
  <2> QED BY <1>2, <2>1, <2>2
<1>4. \A steps \in SUBSET {"ingest", "nak"} : InHand(m, steps)' \subseteq InHand(m, steps)
  BY <1>1, <1>2 DEF InHand
<1>5. /\ Untried(m)' \subseteq Untried(m)
      /\ Naking(m)' \subseteq Naking(m)
      /\ (step = "nak" /\ cur.copy = m)' => step = "nak" /\ cur.copy = m
  BY <1>2, <1>3, <1>4 DEF Untried, Naking
<1>6. CASE AnswerLost \/ Crash \/ RecordFails
  BY <1>1, <1>5, <1>6 DEF AnswerLost, Crash, RecordFails, Fault, Spares
<1>7. CASE \/ IngestCommits \/ RecordDeadLetter
           \/ \E e \in Events : Store(e)
           \/ UNCHANGED cvars
  <2>1. /\ UNCHANGED <<ack, buffer, cur, faults>>
        /\ step # "idle" <=> step' # "idle"
    BY <1>7 DEF IngestCommits, RecordDeadLetter, Store, cvars, server, client
  <2>2. Loose(m)' <=> Loose(m)
    BY <2>1 DEF Loose, WithClient
  <2> QED BY <1>1, <1>5, <2>1, <2>2 DEF Spares
<1>8. CASE \E o \in Copies : AckWaitExpires(o)
  <2>1. PICK o \in Copies : AckWaitExpires(o)
    BY <1>8
  <2>2. /\ ack[o] = "out" /\ ack'[o] = "owed"
        /\ \A c \in Copies : c # o => ack'[c] = ack[c]
        /\ IF WithClient(o) THEN faults' = faults + 1 ELSE faults' = faults
        /\ UNCHANGED <<buffer, cur, step>>
    BY <2>1 DEF AckWaitExpires, Fault, IndTypes, client
  <2>3. WithClient(m)' <=> WithClient(m)
    BY <2>2 DEF WithClient
  <2>4. faults' = faults => (Loose(m)' => Loose(m))
    BY <2>2, <2>3 DEF Loose, IndTypes
  <2>5. faults' \in {faults, faults + 1}
    BY <2>2
  <2> QED BY <1>1, <1>5, <2>4, <2>5 DEF Spares
<1>9. CASE Settle
  <2>1. /\ cur.copy \in Copies /\ step # "idle"
        /\ step' = "idle"
        /\ ack' = [ack EXCEPT ![cur.copy] = "settled"]
        /\ UNCHANGED <<buffer, faults>>
    BY <1>9 DEF Settle, Done, IndTypes, Deliveries
  <2>2. Loose(m)' => Loose(m)
    <3>1. CASE m = cur.copy
      BY <2>1, <3>1 DEF Loose, IndTypes
    <3>2. CASE m # cur.copy
      <4>1. ack'[m] = ack[m]
        BY <2>1, <3>2 DEF IndTypes
      <4> QED BY <2>1, <3>2, <4>1 DEF Loose, WithClient
    <3> QED BY <3>1, <3>2
  <2> QED BY <1>1, <1>5, <2>1, <2>2 DEF Spares
<1>10. CASE Nak
  <2>1. /\ cur.copy \in Copies /\ step = "nak"
        /\ step' = "idle"
        /\ \A c \in Copies : c # cur.copy => ack'[c] = ack[c]
        /\ UNCHANGED <<buffer, faults>>
    BY <1>10 DEF Nak, Done, IndTypes, Deliveries
  <2>2. CASE m = cur.copy
    <3>1. cur.count \in Naking(m) /\ cur.count \notin Waiting(m)
      BY <2>1, <2>2, InHandCounted DEF IndOrder
    <3>2. \A steps \in SUBSET {"ingest", "nak"} : InHand(m, steps)' = {}
      BY <2>1 DEF InHand
    <3>3. Naking(m)' \subseteq Naking(m) \ {cur.count}
      BY <1>3, <1>5, <3>1, <3>2 DEF Naking
    <3> QED BY <1>1, <1>5, <2>1, <2>2, <3>1, <3>3 DEF Spares
  <2>3. CASE m # cur.copy
    <3>1. Loose(m)' => Loose(m)
      BY <2>1, <2>3 DEF Loose, WithClient
    <3> QED BY <1>1, <1>5, <2>1, <3>1 DEF Spares
  <2> QED BY <2>2, <2>3
<1> QED BY <1>6, <1>7, <1>8, <1>9, <1>10

-----------------------------------------------------------------------------
(* Giving up *)

\* Every step keeps the count of every copy, and gives up none too early.
LEMMA EarnedPreserved ==
    ASSUME IndTypes, IndTypes', IndOrder, IndEarned, [Next]_cvars
    PROVE  IndEarned'
<1>0. ASSUME NEW m \in Copies
      PROVE  Redelivers(m) \/ Fails(m) \/ Spares(m)
  <2>1. CASE \E o \in Copies : Deliver(o)
    BY <2>1, DeliverCounts
  <2>2. CASE Receive
    BY <2>2, ReceiveCounts
  <2>3. CASE IngestFails \/ IngestReplyLost
    BY <2>3, FailureCounts
  <2>4. CASE \/ \E o \in Copies : AckWaitExpires(o)
             \/ IngestCommits \/ Settle \/ Nak \/ AnswerLost
             \/ RecordDeadLetter \/ RecordFails \/ Crash
             \/ \E e \in Events : Store(e)
             \/ UNCHANGED cvars
    BY <2>4, OthersSpare
  <2> QED BY <2>1, <2>2, <2>3, <2>4 DEF Next, WorkerNext, ProcessMessage, WorkerFault
<1>1. ASSUME NEW m \in Copies
      PROVE  EarnedSoFar(m)' /\ FewDeliveries(m)'
  BY <1>0, CountKept DEF IndEarned
<1>2. ASSUME NEW m \in Copies, GivenUp(m)
      PROVE  GivenUp(m)'
  <2>1. /\ delivered[m] \in Nat /\ tries[m] \in Nat /\ faults \in Nat
        /\ delivered'[m] \in {delivered[m], delivered[m] + 1}
        /\ tries'[m] \in {tries[m], tries[m] + 1}
        /\ faults' \in {faults, faults + 1}
    BY <1>0 DEF Redelivers, Fails, Spares, IndTypes
  <2> QED BY <1>2, <2>1, ContextAssumption DEF GivenUp
<1>3. ASSUME IngestFails \/ IngestReplyLost, step' = "record"
      PROVE  GivenUp(cur.copy)'
  <2>1. /\ step = "ingest" /\ cur.count >= MaxRetries
        /\ UNCHANGED <<delivered, cur>>
        /\ faults' \in {faults, faults + 1}
        /\ tries' = [tries EXCEPT ![cur.copy] = @ + 1]
    BY <1>3 DEF IngestFails, IngestReplyLost, AfterFailure, Fault, server
  <2>2. /\ cur.copy \in Copies /\ cur.count \in Nat
        /\ delivered[cur.copy] \in Nat /\ cur.count <= delivered[cur.copy]
        /\ tries[cur.copy] \in Nat /\ tries'[cur.copy] = tries[cur.copy] + 1
        /\ faults \in Nat
    BY <2>1 DEF IndTypes, IndOrder, Deliveries
  <2>3. delivered[cur.copy] <= tries[cur.copy] + faults + 1
    BY <2>2 DEF IndEarned, EarnedSoFar, Num
  <2> QED BY <2>1, <2>2, <2>3, ContextAssumption DEF GivenUp
<1>4. ASSUME NEW m \in Copies, dlq'[m] > 0, Event(m) \notin Unparseable
      PROVE  GivenUp(m)'
  <2>1. CASE dlq'[m] = dlq[m]
    BY <1>2, <1>4, <2>1 DEF IndEarned
  <2>2. CASE dlq'[m] # dlq[m]
    <3>1. RecordDeadLetter
      BY <2>2 DEF Next, WorkerNext, ProcessMessage, WorkerFault, Deliver, AckWaitExpires,
             Receive, IngestCommits, IngestFails, IngestReplyLost, AfterFailure, Settle,
             Nak, AnswerLost, RecordFails, Crash, Store, cvars
    <3>2. step = "record" /\ cur.copy = m
      BY <1>4, <2>2, <3>1 DEF RecordDeadLetter, IndTypes
    <3> QED BY <1>2, <1>4, <3>2 DEF IndEarned
  <2> QED BY <2>1, <2>2
<1>5. ASSUME step' = "record", Event(cur'.copy) \notin Unparseable
      PROVE  GivenUp(cur.copy)'
  <2>1. CASE UNCHANGED <<step, cur>>
    <3>1. cur.copy \in Copies /\ GivenUp(cur.copy)
      BY <1>5, <2>1 DEF IndEarned, IndTypes, Deliveries
    <3>2. GivenUp(cur.copy)' <=> /\ delivered'[cur.copy] >= MaxRetries
                                 /\ tries'[cur.copy] > 0
                                 /\ tries'[cur.copy] + faults' >= MaxRetries
      BY <2>1 DEF GivenUp
    <3>3. PICK m \in Copies : m = cur.copy
      BY <3>1
    <3>4. GivenUp(m)'
      BY <1>2, <3>1, <3>3
    <3> QED BY <2>1, <3>2, <3>3, <3>4 DEF GivenUp
  <2>2. CASE IngestFails \/ IngestReplyLost
    BY <1>3, <1>5, <2>2
  <2>3. CASE Receive
    BY <1>5, <2>3 DEF Receive
  <2>4. UNCHANGED <<step, cur>> \/ IngestFails \/ IngestReplyLost \/ Receive
    BY <1>5 DEF Next, WorkerNext, ProcessMessage, WorkerFault, Deliver, AckWaitExpires,
           IngestCommits, Settle, Nak, AnswerLost, RecordDeadLetter, RecordFails, Crash,
           Done, Store, cvars, client
  <2> QED BY <2>1, <2>2, <2>3, <2>4
<1> QED BY <1>1, <1>4, <1>5 DEF IndEarned

-----------------------------------------------------------------------------
(* The theorems *)

\* It holds before the stream has a message.
LEMMA InitInv == Init => IndInv
<1> SUFFICES ASSUME Init
             PROVE  IndInv
  OBVIOUS
<1> USE ContextAssumption DEF Init, WorkerInit
<1>1. IndTypes
  BY DEF IndTypes, EmptyGraph
<1>2. Len(buffer) = 0
  OBVIOUS
<1>3. 1..Len(buffer) = {}
  BY <1>2
<1>4. IndSettled
  BY DEF IndSettled
<1>5. IndOrder
  BY <1>3 DEF IndOrder
<1>6. ASSUME NEW m \in Copies
      PROVE  EarnedSoFar(m) /\ FewDeliveries(m)
  <2>1. Untried(m) = {} /\ Naking(m) = {}
    BY <1>3 DEF Untried, Naking, Waiting, InHand
  <2>2. Cardinality({}) = 0
    BY FS_EmptySet
  <2>3. delivered[m] = 0 /\ tries[m] = 0 /\ Num(Loose(m)) = 1
    BY DEF Loose, Num
  <2>4. Num(step = "nak" /\ cur.copy = m) = 0
    BY DEF Num
  <2> QED BY <2>1, <2>2, <2>3, <2>4 DEF EarnedSoFar, FewDeliveries
<1>7. IndEarned
  BY <1>6 DEF IndEarned
<1> QED BY <1>1, <1>4, <1>5, <1>7 DEF IndInv

\* The inductive invariant holds in every reachable state.
THEOREM WorkerInvariant == Spec => []IndInv
<1>1. IndInv /\ [Next]_cvars => IndInv'
  BY TypesPreserved, SettledPreserved, OrderPreserved, EarnedPreserved DEF IndInv
<1> QED BY InitInv, <1>1, PTL DEF Spec

\* What the consumer will never deliver again is in the graph, or a dead-letter
\* row reports it, or the insert of that row failed; and it is reported once at
\* most (processMessage, recordDeadLetter): for any number of events and
\* copies, and any number of crashes, lost answers and failed statements.
THEOREM SettledAccounted == Spec => []SettledIsAccounted
<1>1. IndInv => SettledIsAccounted
  <2> SUFFICES ASSUME IndInv, NEW m \in Copies
               PROVE  /\ ack[m] = "settled" =>
                          \/ Ingested(graph, Envelope[Event(m)])
                          \/ dlq[m] > 0
                          \/ m \in unwritten
                      /\ dlq[m] <= 1
    BY DEF SettledIsAccounted
  <2>1. dlq[m] \in {0, 1}
    BY DEF IndInv, IndTypes
  <2> QED BY <2>1 DEF IndInv, IndSettled
<1> QED BY WorkerInvariant, <1>1, PTL

\* A message is given up only when the limit of deliveries is reached, and each
\* delivery of it failed or cost a fault; no message costs more failures than
\* the limit and the faults (the retry branch of processMessage).
THEOREM GivingUpIsEarned == Spec => []GiveUpEarned
<1>1. IndInv => GiveUpEarned
  <2> SUFFICES ASSUME IndInv, NEW m \in Copies
               PROVE  tries[m] <= MaxRetries + faults
    BY DEF GiveUpEarned, IndInv, IndEarned, GivenUp
  <2>1. /\ delivered[m] \in Nat /\ tries[m] \in Nat /\ faults \in Nat
        /\ Num(Loose(m)) \in {0, 1}
    BY DEF IndInv, IndTypes, Num
  <2>2. Cardinality(Untried(m)) \in Nat /\ Cardinality(Naking(m)) \in Nat
    <3>1. Untried(m) \in SUBSET (0..delivered[m]) /\ Naking(m) \in SUBSET (0..delivered[m])
      BY DEF Untried, Naking, Waiting, InHand
    <3> QED BY <2>1, <3>1, CountsOfDeliveries
  <2>3. /\ tries[m] + Cardinality(Untried(m)) <= delivered[m]
        /\ delivered[m] + Cardinality(Naking(m)) + Num(Loose(m)) <= MaxRetries + faults
    BY DEF IndInv, IndEarned, FewDeliveries
  <2> QED BY <2>1, <2>2, <2>3, ContextAssumption
<1> QED BY WorkerInvariant, <1>1, PTL
=============================================================================
