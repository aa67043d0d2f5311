------------------------ MODULE EventPipelineProofs ------------------------
(***************************************************************************)
(* The path of an event implements EventDelivery, for any number of events *)
(* and replicas, whatever their envelopes.  What the outbox is known to do *)
(* (OutboxProofs) holds here as well, since the context worker leaves its  *)
(* rows alone and only shares its bound on faults; the rest of the         *)
(* invariant says that whatever is in the stream, at the worker or among   *)
(* its dead letters has a row that committed.                              *)
(***************************************************************************)
EXTENDS EventPipeline, Sequences, TLAPS

\* OP and O are Outbox under two names.
OP == INSTANCE OutboxProofs WITH cur <- publishing

\* A message that was stored, or that may still arrive, has its row.
StreamHasRows ==
    \A i \in OP!Ids : stored[i] > 0 \/ inflight[i] > 0 => status[i] # "absent"

\* The consumer has only what was stored.
WorkerTypes ==
    /\ buffer \in Seq(C!Deliveries)
    /\ step # "idle" => cur \in C!Deliveries
    /\ delivered \in [C!Copies -> Nat]
    /\ dlq \in [C!Copies -> Nat]

WorkerHasStored ==
    /\ \A i \in 1 .. Len(buffer) : stored[C!Event(buffer[i].copy)] > 0
    /\ step # "idle" => stored[C!Event(cur.copy)] > 0
    /\ \A m \in C!Copies : dlq[m] > 0 => stored[C!Event(m)] > 0

PathInv == OP!IndInv /\ StreamHasRows /\ WorkerTypes /\ WorkerHasStored

-----------------------------------------------------------------------------
(* The outbox *)

\* The constants are those of Outbox.
LEMMA SameAssumption == OP!OutboxAssumption
BY PipelineAssumption
   DEF O!OutboxAssumption, OP!OutboxAssumption, O!Ids, OP!Ids, O!IsFiniteSet, OP!IsFiniteSet

\* The ids of the rows, and what they are not.
LEMMA IdsOfRows ==
    /\ Events \subseteq OP!Ids /\ OP!Ids = Events \cup NoticeIds
    /\ Events \cap NoticeIds = {}
BY SameAssumption DEF OP!OutboxAssumption, OP!Ids

\* The rows, the stream and the workers start alike.
LEMMA SameStart == O!Init => OP!Init
BY DEF O!Init, OP!Init, O!Ids, OP!Ids

\* A step of a replica.
LEMMA SameWorkerSteps ==
    ASSUME NEW w \in Workers
    PROVE  O!WorkerStep(w) => OP!WorkerStep(w)
<1> USE DEF O!Ids, OP!Ids, O!rows, OP!rows, O!local, OP!local, O!stream, OP!stream,
            O!NextEvent, OP!NextEvent
<1>1. O!SelectBatch(w) => OP!SelectBatch(w)
  BY DEF O!SelectBatch, OP!SelectBatch, O!OldestFirst, OP!OldestFirst, O!Claimable, OP!Claimable,
         O!RowLocked, OP!RowLocked, O!Cardinality, OP!Cardinality
<1>2. O!CommitClaim(w) => OP!CommitClaim(w)
  BY DEF O!CommitClaim, OP!CommitClaim, O!MarkProcessing, OP!MarkProcessing
<1>3. O!FetchClaimed(w) => OP!FetchClaimed(w)
  BY DEF O!FetchClaimed, OP!FetchClaimed
<1>4. \A i \in O!Ids, a \in BOOLEAN : O!Publish(w, i, a) => OP!Publish(w, i, a)
  BY DEF O!Publish, OP!Publish
<1>5. O!BatchDone(w) => OP!BatchDone(w)
  BY DEF O!BatchDone, OP!BatchDone
<1>6. O!MarkSent(w) => OP!MarkSent(w)
  BY DEF O!MarkSent, OP!MarkSent
<1>7. O!ReadAttempts(w) => OP!ReadAttempts(w)
  BY DEF O!ReadAttempts, OP!ReadAttempts
<1>8. O!ScheduleRetry(w) => OP!ScheduleRetry(w)
  BY DEF O!ScheduleRetry, OP!ScheduleRetry
<1>9. O!DeadLetter(w) => OP!DeadLetter(w)
  BY DEF O!DeadLetter, OP!DeadLetter, O!AfterDeadLetter, OP!AfterDeadLetter,
         O!NeedsNotice, OP!NeedsNotice
<1>10. O!InsertNotice(w) => OP!InsertNotice(w)
  BY DEF O!InsertNotice, OP!InsertNotice, O!Insert, OP!Insert, O!Rows, OP!Rows,
         O!Cardinality, OP!Cardinality
<1>11. O!Ids = OP!Ids
  OBVIOUS
<1> QED
  BY <1>1, <1>2, <1>3, <1>4, <1>5, <1>6, <1>7, <1>8, <1>9, <1>10, <1>11
     DEF O!WorkerStep, OP!WorkerStep

\* A step of the outbox is one of OP.
LEMMA SameSteps == O!Next => OP!Next
<1> USE DEF O!Ids, OP!Ids, O!rows, OP!rows, O!local, OP!local, O!stream, OP!stream,
            O!NextEvent, OP!NextEvent, O!Fault, OP!Fault, O!GoIdle, OP!GoIdle
<1>1. \A e \in Events : O!WriteEvent(e) => OP!WriteEvent(e)
  BY DEF O!WriteEvent, OP!WriteEvent, O!Insert, OP!Insert, O!Rows, OP!Rows,
         O!Cardinality, OP!Cardinality
<1>2. \A i \in O!Ids : /\ O!BackoffElapses(i) => OP!BackoffElapses(i)
                       /\ O!LockAges(i) => OP!LockAges(i)
                       /\ O!ArriveLate(i) => OP!ArriveLate(i)
  BY DEF O!BackoffElapses, OP!BackoffElapses, O!LockAges, OP!LockAges, O!ArriveLate, OP!ArriveLate
<1>3. ASSUME NEW w \in Workers
      PROVE  O!WorkerFault(w) => OP!WorkerFault(w)
  <2>1. O!Crash(w) => OP!Crash(w)
    BY DEF O!Crash, OP!Crash
  <2>2. O!ClaimFails(w) => OP!ClaimFails(w)
    BY DEF O!ClaimFails, OP!ClaimFails
  <2>3. O!ClaimReplyLost(w) => OP!ClaimReplyLost(w)
    BY DEF O!ClaimReplyLost, OP!ClaimReplyLost, O!MarkProcessing, OP!MarkProcessing
  <2>4. O!FetchFails(w) => OP!FetchFails(w)
    BY DEF O!FetchFails, OP!FetchFails
  <2>5. O!ReadAttemptsFails(w) => OP!ReadAttemptsFails(w)
    BY DEF O!ReadAttemptsFails, OP!ReadAttemptsFails
  <2>6. O!RecordFails(w) => OP!RecordFails(w)
    BY DEF O!RecordFails, OP!RecordFails, O!AfterDeadLetter, OP!AfterDeadLetter,
           O!NeedsNotice, OP!NeedsNotice
  <2> QED BY <2>1, <2>2, <2>3, <2>4, <2>5, <2>6 DEF O!WorkerFault, OP!WorkerFault
<1>4. O!Ids = OP!Ids
  OBVIOUS
<1> QED
  BY <1>1, <1>2, <1>3, <1>4, SameWorkerSteps DEF O!Next, OP!Next

\* The context worker leaves the stream as it is.
LEMMA WorkerLeaves ==
    ASSUME C!WorkerNext
    PROVE  UNCHANGED stored /\ (C!Fault \/ UNCHANGED faults)
<1>1. \A m \in C!Copies : C!Deliver(m) \/ C!AckWaitExpires(m) =>
        UNCHANGED stored /\ (C!Fault \/ UNCHANGED faults)
  BY DEF C!Deliver, C!AckWaitExpires, C!history
<1>2. C!ProcessMessage => UNCHANGED stored /\ (C!Fault \/ UNCHANGED faults)
  BY DEF C!ProcessMessage, C!Receive, C!IngestCommits, C!IngestFails, C!Settle, C!Nak,
         C!RecordDeadLetter, C!history
<1>3. C!WorkerFault => UNCHANGED stored /\ (C!Fault \/ UNCHANGED faults)
  BY DEF C!WorkerFault, C!IngestReplyLost, C!AnswerLost, C!RecordFails, C!Crash
<1> QED BY <1>1, <1>2, <1>3 DEF C!WorkerNext

\* The invariant of the outbox holds at first, and its steps keep it; the steps
\* of the context worker do, which change of its variables only faults.
LEMMA OutboxKept ==
    ASSUME OP!IndInv, Next
    PROVE  OP!IndInv'
<1>1. CASE O!Next
  BY <1>1, SameSteps, SameAssumption, OP!TypesPreserved, OP!HoldPreserved, OP!WorkPreserved,
     OP!NoticePreserved DEF OP!IndInv
<1>2. ASSUME C!WorkerNext, UNCHANGED outbox
      PROVE  OP!IndInv'
  <2>1. UNCHANGED stored /\ faults' \in Nat
    BY <1>2, WorkerLeaves DEF OP!IndInv, OP!TypeOK, C!Fault
  <2>2. UNCHANGED <<status, attempts, due, lock, created, about, inflight, pc, batch, publishing,
                    count, fails>>
    BY <1>2 DEF outbox
  <2>3. OP!TypeOK'
    BY <2>1, <2>2 DEF OP!IndInv, OP!TypeOK
  <2>4. OP!IndHold' /\ OP!IndWork' /\ OP!IndNotice'
    BY <2>1, <2>2 DEF OP!IndInv, OP!IndHold, OP!IndWork, OP!IndNotice, OP!Busy
  <2> QED BY <2>3, <2>4 DEF OP!IndInv
<1> QED BY <1>1, <1>2 DEF Next

\* The rows of events that are there, and those that are dead letters, stay.
Quiet ==
    \A e \in Events : /\ status'[e] = "absent" <=> status[e] = "absent"
                      /\ status'[e] = "dead_letter" <=> status[e] = "dead_letter"

Others(e) == \A d \in Events \ {e} : status'[d] = status[d]

\* What a step of the outbox may do to the rows and the stream: add the row of
\* an event, make one a dead letter, or neither.
OutboxStep ==
    /\ \A i \in OP!Ids : status[i] # "absent" => status'[i] # "absent"
    /\ \/ Quiet
       \/ \E e \in Events : status[e] = "absent" /\ status'[e] = "pending" /\ Others(e)
       \/ \E e \in Events : status[e] = "processing" /\ status'[e] = "dead_letter" /\ Others(e)
    /\ \A i \in OP!Ids :
        /\ stored'[i] >= stored[i]
        /\ stored'[i] > 0 \/ inflight'[i] > 0 =>
            stored[i] > 0 \/ inflight[i] > 0 \/ status[i] # "absent"

\* A step that leaves the rows or the stream alone, or both, is one of these.
LEMMA StreamLeft ==
    ASSUME OP!TypeOK, UNCHANGED <<inflight, stored>>
    PROVE  \A i \in OP!Ids :
             /\ stored'[i] >= stored[i]
             /\ stored'[i] > 0 \/ inflight'[i] > 0 =>
                 stored[i] > 0 \/ inflight[i] > 0 \/ status[i] # "absent"
BY DEF OP!TypeOK

LEMMA AllLeft ==
    ASSUME OP!TypeOK, UNCHANGED <<status, inflight, stored>>
    PROVE  OutboxStep
BY StreamLeft DEF OutboxStep, Quiet

\* A step that writes the row held by one worker, which is not a dead letter.
LEMMA OneRowWritten ==
    ASSUME OP!TypeOK, UNCHANGED <<inflight, stored>>,
           NEW i \in OP!Ids, status[i] \notin {"absent", "dead_letter"},
           NEW s, s \notin {"absent", "dead_letter"},
           status' = [status EXCEPT ![i] = s]
    PROVE  OutboxStep
BY StreamLeft, IdsOfRows DEF OutboxStep, Quiet, OP!TypeOK

\* The claim of a batch.
LEMMA ClaimWritten ==
    ASSUME OP!IndInv, NEW w \in Workers, pc[w] = "selected", OP!MarkProcessing(w),
           UNCHANGED <<inflight, stored>>
    PROVE  OutboxStep
<1>1. \A i \in OP!Ids : status'[i] = IF i \in batch[w] THEN "processing" ELSE status[i]
  BY DEF OP!MarkProcessing
<1>2. \A i \in batch[w] : status[i] \in {"pending", "failed"}
  BY DEF OP!IndInv, OP!IndHold
<1>3. Quiet /\ \A i \in OP!Ids : status[i] # "absent" => status'[i] # "absent"
  BY <1>1, <1>2, IdsOfRows DEF Quiet
<1> QED BY <1>3, StreamLeft DEF OutboxStep, OP!IndInv

\* So is every step of the outbox.
LEMMA OutboxSteps ==
    ASSUME OP!IndInv, OP!Next
    PROVE  OutboxStep
<1>1. OP!TypeOK /\ OP!IndHold
  BY DEF OP!IndInv
<1>2. ASSUME NEW e \in Events, OP!WriteEvent(e)
      PROVE  OutboxStep
  <2>1. /\ status[e] = "absent" /\ status' = [status EXCEPT ![e] = "pending"]
        /\ UNCHANGED <<inflight, stored>>
    BY <1>2 DEF OP!WriteEvent, OP!Insert, OP!stream
  <2>2. /\ status'[e] = "pending" /\ Others(e)
        /\ \A i \in OP!Ids : status[i] # "absent" => status'[i] # "absent"
    BY <1>1, <2>1, IdsOfRows DEF OP!TypeOK, Others
  <2> QED BY <1>1, <2>1, <2>2, StreamLeft DEF OutboxStep
<1>3. ASSUME NEW i \in OP!Ids, OP!BackoffElapses(i) \/ OP!LockAges(i)
      PROVE  OutboxStep
  BY <1>1, <1>3, AllLeft DEF OP!BackoffElapses, OP!LockAges, OP!stream
<1>4. ASSUME NEW i \in OP!Ids, OP!ArriveLate(i)
      PROVE  OutboxStep
  <2>1. /\ UNCHANGED status /\ inflight[i] > 0
        /\ stored' = [stored EXCEPT ![i] = @ + 1] /\ inflight' = [inflight EXCEPT ![i] = @ - 1]
    BY <1>4 DEF OP!ArriveLate, OP!rows
  <2>2. \A j \in OP!Ids : j # i => stored'[j] = stored[j] /\ inflight'[j] = inflight[j]
    BY <1>1, <2>1 DEF OP!TypeOK
  <2>3. \A j \in OP!Ids : stored[j] \in Nat
    BY <1>1 DEF OP!TypeOK
  <2>4. stored'[i] = stored[i] + 1
    BY <1>1, <2>1 DEF OP!TypeOK
  <2>5. \A j \in OP!Ids :
          /\ stored'[j] >= stored[j]
          /\ stored'[j] > 0 \/ inflight'[j] > 0 =>
              stored[j] > 0 \/ inflight[j] > 0 \/ status[j] # "absent"
    BY <2>1, <2>2, <2>3, <2>4
  <2> QED BY <2>1, <2>5 DEF OutboxStep, Quiet
<1>5. ASSUME NEW w \in Workers, OP!SelectBatch(w) \/ OP!FetchClaimed(w) \/ OP!BatchDone(w)
                \/ OP!ReadAttempts(w)
      PROVE  OutboxStep
  BY <1>1, <1>5, AllLeft
     DEF OP!SelectBatch, OP!FetchClaimed, OP!BatchDone, OP!ReadAttempts, OP!rows, OP!stream
<1>6. ASSUME NEW w \in Workers, OP!CommitClaim(w) \/ OP!ClaimReplyLost(w)
      PROVE  OutboxStep
  BY <1>6, ClaimWritten DEF OP!CommitClaim, OP!ClaimReplyLost, OP!stream
<1>7. ASSUME NEW w \in Workers, NEW i \in OP!Ids, NEW a \in BOOLEAN, OP!Publish(w, i, a)
      PROVE  OutboxStep
  <2>1. status[i] = "processing" /\ UNCHANGED status
    BY <1>1, <1>7 DEF OP!Publish, OP!IndHold, OP!rows
  <2>2. \A j \in OP!Ids : stored[j] \in Nat
    BY <1>1 DEF OP!TypeOK
  <2>3. /\ stored' = stored \/ stored' = [stored EXCEPT ![i] = @ + 1]
        /\ inflight' = inflight \/ inflight' = [inflight EXCEPT ![i] = @ + 1]
    BY <1>7 DEF OP!Publish
  <2>4. /\ \A j \in OP!Ids : j # i => stored'[j] = stored[j] /\ inflight'[j] = inflight[j]
        /\ stored'[i] >= stored[i]
    BY <1>1, <2>2, <2>3 DEF OP!TypeOK
  <2>5. \A j \in OP!Ids :
          /\ stored'[j] >= stored[j]
          /\ stored'[j] > 0 \/ inflight'[j] > 0 =>
              stored[j] > 0 \/ inflight[j] > 0 \/ status[j] # "absent"
    BY <2>1, <2>2, <2>4
  <2> QED BY <2>1, <2>5 DEF OutboxStep, Quiet
<1>8. ASSUME NEW w \in Workers, OP!MarkSent(w)
      PROVE  OutboxStep
  <2>1. publishing[w] \in OP!Ids /\ status[publishing[w]] = "processing"
    BY <1>1, <1>8 DEF OP!MarkSent, OP!IndHold
  <2>2. /\ status' = [status EXCEPT ![publishing[w]] = "sent"]
        /\ UNCHANGED <<inflight, stored>>
    BY <1>8 DEF OP!MarkSent, OP!stream
  <2>3. "sent" \notin {"absent", "dead_letter"} /\ status[publishing[w]] \notin {"absent", "dead_letter"}
    BY <2>1
  <2> QED BY <1>1, <2>1, <2>2, <2>3, OneRowWritten
<1>9. ASSUME NEW w \in Workers, OP!ScheduleRetry(w)
      PROVE  OutboxStep
  <2>1. publishing[w] \in OP!Ids /\ status[publishing[w]] = "processing"
    BY <1>1, <1>9 DEF OP!ScheduleRetry, OP!IndHold
  <2>2. /\ status' = [status EXCEPT ![publishing[w]] = "failed"]
        /\ UNCHANGED <<inflight, stored>>
    BY <1>9 DEF OP!ScheduleRetry, OP!stream
  <2>3. "failed" \notin {"absent", "dead_letter"} /\ status[publishing[w]] \notin {"absent", "dead_letter"}
    BY <2>1
  <2> QED BY <1>1, <2>1, <2>2, <2>3, OneRowWritten
<1>10. ASSUME NEW w \in Workers, OP!DeadLetter(w)
       PROVE  OutboxStep
  <2>1. publishing[w] \in OP!Ids /\ status[publishing[w]] = "processing"
    BY <1>1, <1>10 DEF OP!DeadLetter, OP!IndHold
  <2>2. /\ status' = [status EXCEPT ![publishing[w]] = "dead_letter"]
        /\ UNCHANGED <<inflight, stored>>
    BY <1>10 DEF OP!DeadLetter, OP!stream
  <2>3. \A i \in OP!Ids : status[i] # "absent" => status'[i] # "absent"
    BY <1>1, <2>1, <2>2 DEF OP!TypeOK
  <2>4. CASE publishing[w] \in Events
    <3>1. status'[publishing[w]] = "dead_letter" /\ Others(publishing[w])
      BY <1>1, <2>1, <2>2, IdsOfRows DEF OP!TypeOK, Others
    <3> QED BY <1>1, <2>1, <2>2, <2>3, <2>4, <3>1, StreamLeft DEF OutboxStep
  <2>5. CASE publishing[w] \notin Events
    <3>1. Quiet
      BY <1>1, <2>1, <2>2, <2>5, IdsOfRows DEF OP!TypeOK, Quiet
    <3> QED BY <1>1, <2>2, <2>3, <3>1, StreamLeft DEF OutboxStep
  <2> QED BY <2>4, <2>5
<1>11. ASSUME NEW w \in Workers, OP!InsertNotice(w)
       PROVE  OutboxStep
  <2>1. PICK n \in NoticeIds : /\ status[n] = "absent"
                               /\ status' = [status EXCEPT ![n] = "pending"]
    BY <1>11 DEF OP!InsertNotice, OP!Insert
  <2>2. UNCHANGED <<inflight, stored>>
    BY <1>11 DEF OP!InsertNotice, OP!stream
  <2>3. Quiet /\ \A i \in OP!Ids : status[i] # "absent" => status'[i] # "absent"
    BY <1>1, <2>1, IdsOfRows DEF OP!TypeOK, Quiet
  <2> QED BY <1>1, <2>2, <2>3, StreamLeft DEF OutboxStep
<1>12. ASSUME NEW w \in Workers,
              OP!Crash(w) \/ OP!ClaimFails(w) \/ OP!FetchFails(w) \/ OP!ReadAttemptsFails(w)
                \/ OP!RecordFails(w)
       PROVE  OutboxStep
  BY <1>1, <1>12, AllLeft
     DEF OP!Crash, OP!ClaimFails, OP!FetchFails, OP!ReadAttemptsFails, OP!RecordFails,
         OP!rows, OP!stream
<1> QED
  BY <1>2, <1>3, <1>4, <1>5, <1>6, <1>7, <1>8, <1>9, <1>10, <1>11, <1>12
     DEF OP!Next, OP!WorkerStep, OP!WorkerFault

\* So what the stream has, or may get, has its row after each of them.
LEMMA StreamKept ==
    ASSUME OP!IndInv, StreamHasRows, Next
    PROVE  StreamHasRows'
<1>1. ASSUME O!Next
      PROVE  StreamHasRows'
  <2>1. OutboxStep
    BY <1>1, SameSteps, OutboxSteps
  <2> QED BY <2>1 DEF OutboxStep, StreamHasRows, OP!Ids
<1>2. ASSUME C!WorkerNext, UNCHANGED outbox
      PROVE  StreamHasRows'
  BY <1>2, WorkerLeaves DEF outbox, StreamHasRows, OP!Ids
<1> QED BY <1>1, <1>2 DEF Next

-----------------------------------------------------------------------------
(* The context worker *)

\* The deliveries of a buffer, and the one at work, are of stored copies.
Sound(b) ==
    /\ b \in Seq(C!Deliveries)
    /\ \A i \in 1 .. Len(b) : stored[C!Event(b[i].copy)] > 0

SoundWork(at, d) == at # "idle" => d \in C!Deliveries /\ stored[C!Event(d.copy)] > 0

\* The number of a copy is one of those that are stored.
LEMMA StoredCopies ==
    ASSUME OP!TypeOK, NEW m \in C!Copies, C!InStream(m)
    PROVE  stored[C!Event(m)] > 0
<1>1. C!Event(m) \in Events /\ m[2] \in 1 .. MaxCopies
  BY DEF C!Copies, C!Event
<1>2. stored[C!Event(m)] \in Nat /\ MaxCopies \in Nat
  BY <1>1, IdsOfRows, PipelineAssumption DEF OP!TypeOK, C!ContextAssumption
<1>3. m[2] >= 1 /\ m[2] <= stored[C!Event(m)]
  BY <1>1, <1>2 DEF C!InStream
<1> QED BY <1>1, <1>2, <1>3

\* What the steps of the context worker do to what it has.
LEMMA WorkerKept ==
    ASSUME PathInv, C!WorkerNext
    PROVE  WorkerTypes' /\ WorkerHasStored'
<1>1. UNCHANGED stored /\ OP!TypeOK /\ Sound(buffer) /\ SoundWork(step, cur)
      /\ delivered \in [C!Copies -> Nat] /\ dlq \in [C!Copies -> Nat]
      /\ \A m \in C!Copies : dlq[m] > 0 => stored[C!Event(m)] > 0
  BY WorkerLeaves DEF PathInv, WorkerTypes, WorkerHasStored, OP!IndInv, Sound, SoundWork
<1>2. SUFFICES /\ Sound(buffer') /\ SoundWork(step', cur') /\ delivered' \in [C!Copies -> Nat]
               /\ dlq' = dlq \/ (step # "idle" /\ dlq' = [dlq EXCEPT ![cur.copy] = 1])
  <2>1. ASSUME step # "idle", dlq' = [dlq EXCEPT ![cur.copy] = 1]
        PROVE  /\ dlq' \in [C!Copies -> Nat]
               /\ \A m \in C!Copies : dlq'[m] > 0 => stored[C!Event(m)] > 0
    <3>1. cur.copy \in C!Copies /\ stored[C!Event(cur.copy)] > 0
      BY <1>1, <2>1 DEF SoundWork, C!Deliveries
    <3> QED BY <1>1, <2>1, <3>1
  <2>2. /\ dlq' \in [C!Copies -> Nat]
        /\ \A m \in C!Copies : dlq'[m] > 0 => stored[C!Event(m)] > 0
    BY <1>1, <1>2, <2>1
  <2> QED BY <1>1, <1>2, <2>2 DEF Sound, SoundWork, WorkerTypes, WorkerHasStored, C!Event
<1>3. ASSUME NEW m \in C!Copies, C!Deliver(m)
      PROVE  /\ Sound(buffer') /\ SoundWork(step', cur') /\ delivered' \in [C!Copies -> Nat]
             /\ dlq' = dlq
  <2>1. delivered[m] + 1 \in Nat
    BY <1>1
  <2>2. PICK d : d = [copy |-> m, count |-> delivered[m] + 1]
    OBVIOUS
  <2>3. d \in C!Deliveries /\ d.copy = m
    BY <2>1, <2>2 DEF C!Deliveries
  <2>4. buffer' = Append(buffer, d) /\ UNCHANGED <<step, cur, dlq>> /\ C!InStream(m)
    BY <1>3, <2>2 DEF C!Deliver
  <2>5. /\ Len(buffer) \in Nat /\ Len(buffer') = Len(buffer) + 1
        /\ buffer' \in Seq(C!Deliveries) /\ buffer'[Len(buffer) + 1] = d
        /\ \A i \in 1 .. Len(buffer) : buffer'[i] = buffer[i]
    BY <1>1, <2>3, <2>4 DEF Sound
  <2>6. stored[C!Event(m)] > 0
    BY <1>1, <2>4, StoredCopies
  <2>7. Sound(buffer')
    <3>1. \A i \in 1 .. Len(buffer') : stored'[C!Event(buffer'[i].copy)] > 0
      <4>1. \A i \in 1 .. Len(buffer) : stored[C!Event(buffer'[i].copy)] > 0
        BY <1>1, <2>5 DEF Sound
      <4>2. stored[C!Event(buffer'[Len(buffer) + 1].copy)] > 0
        BY <2>3, <2>5, <2>6
      <4>3. \A i \in 1 .. Len(buffer') : i \in 1 .. Len(buffer) \/ i = Len(buffer) + 1
        BY <2>5
      <4> QED BY <1>1, <4>1, <4>2, <4>3
    <3> QED BY <1>1, <2>5, <3>1 DEF Sound, C!Event
  <2>8. delivered' \in [C!Copies -> Nat]
    BY <1>1, <1>3 DEF C!Deliver
  <2> QED BY <1>1, <2>4, <2>7, <2>8 DEF SoundWork
<1>4. ASSUME NEW m \in C!Copies, C!AckWaitExpires(m)
      PROVE  /\ Sound(buffer') /\ SoundWork(step', cur') /\ delivered' \in [C!Copies -> Nat]
             /\ dlq' = dlq
  <2>1. UNCHANGED <<buffer, step, cur, delivered, dlq>>
    BY <1>4 DEF C!AckWaitExpires, C!client
  <2> QED BY <1>1, <2>1
<1>5. ASSUME C!Receive
      PROVE  /\ Sound(buffer') /\ SoundWork(step', cur') /\ delivered' \in [C!Copies -> Nat]
             /\ dlq' = dlq
  <2>1. buffer # <<>> /\ cur' = Head(buffer) /\ buffer' = Tail(buffer)
        /\ UNCHANGED <<delivered, dlq>>
    BY <1>5 DEF C!Receive, C!server
  <2>2. /\ Len(buffer) \in Nat /\ Len(buffer) >= 1 /\ Head(buffer) = buffer[1]
        /\ Tail(buffer) \in Seq(C!Deliveries) /\ Len(Tail(buffer)) = Len(buffer) - 1
        /\ \A i \in 1 .. Len(buffer) - 1 : Tail(buffer)[i] = buffer[i + 1]
        /\ Head(buffer) \in C!Deliveries
    BY <1>1, <2>1 DEF Sound
  <2>3. Sound(buffer')
    BY <1>1, <2>1, <2>2 DEF Sound
  <2>4. SoundWork(step', cur')
    BY <1>1, <2>1, <2>2 DEF Sound, SoundWork
  <2> QED BY <1>1, <2>1, <2>3, <2>4
<1>6. ASSUME C!IngestCommits \/ C!IngestFails \/ C!IngestReplyLost
      PROVE  /\ Sound(buffer') /\ SoundWork(step', cur') /\ delivered' \in [C!Copies -> Nat]
             /\ dlq' = dlq
  <2>1. step # "idle" /\ UNCHANGED <<buffer, cur, delivered, dlq>>
    BY <1>6 DEF C!IngestCommits, C!IngestFails, C!IngestReplyLost, C!server
  <2> QED BY <1>1, <2>1 DEF SoundWork
<1>7. ASSUME C!Settle \/ C!Nak \/ C!AnswerLost \/ C!Crash
      PROVE  /\ Sound(buffer') /\ SoundWork(step', cur') /\ delivered' \in [C!Copies -> Nat]
             /\ dlq' = dlq
  <2>1. step' = "idle" /\ UNCHANGED <<delivered, dlq>> /\ (buffer' = buffer \/ buffer' = <<>>)
    BY <1>7 DEF C!Settle, C!Nak, C!AnswerLost, C!Crash, C!Done, C!server
  <2>2. Sound(<<>>)
    BY DEF Sound
  <2>3. Sound(buffer') /\ SoundWork(step', cur')
    BY <1>1, <2>1, <2>2 DEF SoundWork
  <2> QED BY <1>1, <2>1, <2>3
<1>8. ASSUME C!RecordDeadLetter \/ C!RecordFails
      PROVE  /\ Sound(buffer') /\ SoundWork(step', cur') /\ delivered' \in [C!Copies -> Nat]
             /\ dlq' = dlq \/ (step # "idle" /\ dlq' = [dlq EXCEPT ![cur.copy] = 1])
  <2>1. /\ step # "idle" /\ UNCHANGED <<buffer, cur, delivered>>
        /\ dlq' = dlq \/ dlq' = [dlq EXCEPT ![cur.copy] = 1]
    BY <1>8 DEF C!RecordDeadLetter, C!RecordFails, C!server
  <2> QED BY <1>1, <2>1 DEF SoundWork
<1> QED
  BY <1>3, <1>4, <1>5, <1>6, <1>7, <1>8
     DEF C!WorkerNext, C!ProcessMessage, C!WorkerFault

-----------------------------------------------------------------------------
(* The refinement *)

\* The invariant holds in every reachable state.
THEOREM PathInvariant == Spec => []PathInv
<1>1. Init => PathInv
  <2> SUFFICES ASSUME Init
               PROVE  PathInv
    OBVIOUS
  <2>1. OP!IndInv
    <3>1. OP!Init
      BY SameStart DEF Init
    <3> QED BY <3>1, SameAssumption
       DEF OP!OutboxAssumption, OP!Init, OP!IndInv, OP!TypeOK, OP!IndHold, OP!IndWork, OP!IndNotice,
           OP!Busy, OP!Ids, OP!Statuses, OP!Locks, OP!PCs
  <2>2. StreamHasRows
    BY DEF Init, O!Init, StreamHasRows, O!Ids, OP!Ids
  <2>3. WorkerTypes /\ WorkerHasStored
    BY DEF Init, C!WorkerInit, WorkerTypes, WorkerHasStored
  <2> QED BY <2>1, <2>2, <2>3 DEF PathInv
<1>2. PathInv /\ [Next]_pvars => PathInv'
  <2> SUFFICES ASSUME PathInv, [Next]_pvars
               PROVE  PathInv'
    OBVIOUS
  <2>1. ASSUME O!Next, UNCHANGED worker
        PROVE  WorkerTypes' /\ WorkerHasStored'
    <3>1. \A e \in Events : stored[e] > 0 => stored'[e] > 0
      <4>1. OutboxStep
        BY <2>1, SameSteps, OutboxSteps DEF PathInv
      <4>2. \A e \in Events : stored[e] \in Nat /\ stored'[e] \in Nat /\ stored'[e] >= stored[e]
        BY <2>1, <4>1, OutboxKept, IdsOfRows
           DEF Next, PathInv, OutboxStep, OP!IndInv, OP!TypeOK, OP!Ids
      <4> QED BY <4>2
    <3>2. UNCHANGED <<buffer, step, cur, delivered, dlq>>
      BY <2>1 DEF worker
    <3>3. /\ \A m \in C!Copies : C!Event(m) \in Events
          /\ \A d \in C!Deliveries : C!Event(d.copy) \in Events
          /\ \A i \in 1 .. Len(buffer) : buffer[i] \in C!Deliveries
      <4>1. \A m \in C!Copies : C!Event(m) \in Events
        BY DEF C!Copies, C!Event
      <4>2. \A d \in C!Deliveries : d.copy \in C!Copies
        BY DEF C!Deliveries
      <4>3. \A i \in 1 .. Len(buffer) : buffer[i] \in C!Deliveries
        BY DEF PathInv, WorkerTypes
      <4> QED BY <4>1, <4>2, <4>3
    <3>4. \A m : C!Event(m)' = C!Event(m)
      BY DEF C!Event
    <3> QED BY <3>1, <3>2, <3>3, <3>4 DEF PathInv, WorkerTypes, WorkerHasStored, C!Copies, C!Deliveries
  <2>2. ASSUME C!WorkerNext
        PROVE  WorkerTypes' /\ WorkerHasStored'
    BY <2>2, WorkerKept
  <2>3. CASE Next
    BY <2>1, <2>2, <2>3, OutboxKept, StreamKept DEF Next, PathInv
  <2>4. CASE UNCHANGED pvars
    BY <2>4 DEF pvars, outbox, worker, PathInv, StreamHasRows, WorkerTypes, WorkerHasStored,
       OP!IndInv, OP!TypeOK, OP!IndHold, OP!IndWork, OP!IndNotice, OP!Busy, C!Event, C!Copies,
       C!Deliveries, OP!Ids
  <2> QED BY <2>3, <2>4
<1> QED BY <1>1, <1>2, PTL DEF Spec

\* What a delivery adds to the graph is the same under both names.
LEMMA SameIngest ==
    ASSUME NEW g, NEW env
    PROVE  C!Ingest(g, env) = Delivery!Ingest(g, env)
BY DEF C!Ingest, Delivery!Ingest, C!NewNodes, Delivery!NewNodes, C!NewEdges, Delivery!NewEdges,
       C!NewEvidence, Delivery!NewEvidence, C!WantedEdge, Delivery!WantedEdge,
       C!LinkedEdge, Delivery!LinkedEdge, C!OwnerEdge, Delivery!OwnerEdge,
       C!CommentEdge, Delivery!CommentEdge, C!TimelineEdge, Delivery!TimelineEdge,
       C!Aggregate, Delivery!Aggregate, C!Node, Delivery!Node

\* A row that is added commits, one that becomes a dead letter is reported, and
\* nothing else that the outbox does is seen.
LEMMA OutboxDelivers ==
    ASSUME PathInv, O!Next, UNCHANGED worker
    PROVE  Delivery!Next \/ UNCHANGED Delivery!dvars
<1>1. OutboxStep
  BY SameSteps, OutboxSteps DEF PathInv
<1>2. UNCHANGED <<graph, dlq>>
  BY DEF worker
<1>3. CASE Quiet
  <2>1. Committed' = Committed
    BY <1>3 DEF Quiet, Committed
  <2>2. Reported' = Reported
    BY <1>2, <1>3 DEF Quiet, Reported, C!Event
  <2> QED BY <1>2, <2>1, <2>2 DEF Delivery!dvars
<1>4. ASSUME NEW e \in Events, status[e] = "absent", status'[e] = "pending", Others(e)
      PROVE  Delivery!Commit(e)
  <2>1. e \notin Committed /\ Committed' = Committed \cup {e}
    BY <1>4 DEF Others, Committed
  <2>2. Reported' = Reported
    BY <1>2, <1>4 DEF Others, Reported, C!Event
  <2> QED BY <1>2, <2>1, <2>2 DEF Delivery!Commit
<1>5. ASSUME NEW e \in Events, status[e] = "processing", status'[e] = "dead_letter", Others(e)
      PROVE  Delivery!Report(e)
  <2>1. e \in Committed /\ Committed' = Committed
    BY <1>5 DEF Others, Committed
  <2>2. Reported' = Reported \cup {e}
    BY <1>2, <1>5 DEF Others, Reported, C!Event
  <2> QED BY <1>2, <2>1, <2>2 DEF Delivery!Report
<1> QED BY <1>1, <1>3, <1>4, <1>5 DEF OutboxStep, Delivery!Next

\* A commit of the context worker applies an event, a dead-letter row reports
\* one, and nothing else that it does is seen.
LEMMA WorkerDelivers ==
    ASSUME PathInv, C!WorkerNext, UNCHANGED outbox
    PROVE  Delivery!Next \/ UNCHANGED Delivery!dvars
<1>1. UNCHANGED status /\ Committed' = Committed
  BY DEF outbox, Committed
<1>2. step # "idle" => cur.copy \in C!Copies /\ C!Event(cur.copy) \in Committed
  <2>1. ASSUME step # "idle"
        PROVE  cur.copy \in C!Copies /\ C!Event(cur.copy) \in Events
                 /\ stored[C!Event(cur.copy)] > 0
    BY <2>1 DEF PathInv, WorkerTypes, WorkerHasStored, C!Deliveries, C!Copies, C!Event
  <2> QED BY <2>1, IdsOfRows DEF PathInv, StreamHasRows, Committed
<1>3. CASE UNCHANGED <<graph, dlq>>
  <2>1. Reported' = Reported
    BY <1>1, <1>3 DEF Reported, C!Event
  <2> QED BY <1>1, <1>3, <2>1 DEF Delivery!dvars
<1>4. ASSUME step # "idle", graph' = C!Ingest(graph, Envelope[C!Event(cur.copy)]), dlq' = dlq
      PROVE  Delivery!Next
  <2>1. PICK e \in Events : e = C!Event(cur.copy) /\ e \in Committed
    BY <1>2, <1>4 DEF Committed
  <2>2. Reported' = Reported
    BY <1>1, <1>4 DEF Reported, C!Event
  <2>3. graph' = Delivery!Ingest(graph, Envelope[e])
    BY <1>4, <2>1, SameIngest
  <2>4. Delivery!Apply(e)
    BY <1>1, <2>1, <2>2, <2>3 DEF Delivery!Apply
  <2> QED BY <2>4 DEF Delivery!Next
<1>5. ASSUME step # "idle", graph' = graph, dlq' = [dlq EXCEPT ![cur.copy] = 1]
      PROVE  Delivery!Next
  <2>1. PICK e \in Events : e = C!Event(cur.copy) /\ e \in Committed
    BY <1>2, <1>5 DEF Committed
  <2>2. /\ cur.copy \in C!Copies /\ dlq'[cur.copy] > 0
        /\ \A m \in C!Copies : m # cur.copy => dlq'[m] = dlq[m]
    BY <1>2, <1>5 DEF PathInv, WorkerTypes
  <2>3. Reported' = Reported \cup {e}
    <3>1. ASSUME NEW d \in Events
          PROVE  (\E m \in C!Copies : C!Event(m) = d /\ dlq'[m] > 0)
                   <=> d = e \/ (\E m \in C!Copies : C!Event(m) = d /\ dlq[m] > 0)
      BY <2>1, <2>2
    <3>2. Reported' = {d \in Events : status[d] = "dead_letter"
                          \/ \E m \in C!Copies : C!Event(m) = d /\ dlq'[m] > 0}
      BY <1>1 DEF Reported, C!Event, C!Copies
    <3> QED BY <3>1, <3>2 DEF Reported
  <2>4. Delivery!Report(e)
    BY <1>1, <1>5, <2>1, <2>3 DEF Delivery!Report
  <2> QED BY <2>4 DEF Delivery!Next
<1>6. \A m \in C!Copies : C!Deliver(m) \/ C!AckWaitExpires(m) => UNCHANGED <<graph, dlq>>
  BY DEF C!Deliver, C!AckWaitExpires
<1>7. C!Receive \/ C!IngestFails \/ C!Settle \/ C!Nak \/ C!AnswerLost \/ C!RecordFails \/ C!Crash
        => UNCHANGED <<graph, dlq>>
  BY DEF C!Receive, C!IngestFails, C!Settle, C!Nak, C!AnswerLost, C!RecordFails, C!Crash
<1>8. C!IngestCommits \/ C!IngestReplyLost
        => step # "idle" /\ graph' = C!Ingest(graph, Envelope[C!Event(cur.copy)]) /\ dlq' = dlq
  BY DEF C!IngestCommits, C!IngestReplyLost
<1>9. C!RecordDeadLetter
        => step # "idle" /\ graph' = graph /\ dlq' = [dlq EXCEPT ![cur.copy] = 1]
  BY DEF C!RecordDeadLetter
<1> QED
  BY <1>3, <1>4, <1>5, <1>6, <1>7, <1>8, <1>9
     DEF C!WorkerNext, C!ProcessMessage, C!WorkerFault

\* Outbox worker and context worker together deliver as EventDelivery says,
\* whatever fails, is lost or comes twice in between (main of both workers).
THEOREM PathImplementsDelivery == Spec => DeliveryKept
<1>1. Init => Delivery!Init
  <2> SUFFICES ASSUME Init
               PROVE  Delivery!Init
    OBVIOUS
  <2>1. Committed = {}
    BY DEF Init, O!Init, O!Ids, Committed
  <2>2. Reported = {}
    BY DEF Init, O!Init, O!Ids, C!WorkerInit, Reported
  <2>3. graph = Delivery!EmptyGraph
    BY DEF Init, C!WorkerInit, C!EmptyGraph, Delivery!EmptyGraph
  <2> QED BY <2>1, <2>2, <2>3 DEF Delivery!Init
<1>2. PathInv /\ [Next]_pvars => [Delivery!Next]_(Delivery!dvars)
  <2> SUFFICES ASSUME PathInv, [Next]_pvars
               PROVE  Delivery!Next \/ UNCHANGED Delivery!dvars
    OBVIOUS
  <2>1. CASE UNCHANGED pvars
    BY <2>1 DEF pvars, outbox, worker, Delivery!dvars, Committed, Reported, C!Event, C!Copies
  <2> QED BY <2>1, OutboxDelivers, WorkerDelivers DEF Next
<1> QED BY <1>1, <1>2, PathInvariant, PTL DEF Spec, DeliveryKept, Delivery!Spec
=============================================================================
