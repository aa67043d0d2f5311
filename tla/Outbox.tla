------------------------------- MODULE Outbox -------------------------------
(***************************************************************************)
(* The transactional outbox: the table outbox_events, the insert that the  *)
(* API's handlers make in the transaction of their mutation                *)
(* (internal/outbox), and the replicas of cmd/outbox-worker that claim     *)
(* rows, publish them to JetStream and record the outcome.                 *)
(*                                                                         *)
(* Every statement a worker sends is an action of its own, because another *)
(* replica, a crash or a failed statement may come between any two.  Time  *)
(* is abstracted to what the claim query asks of it: whether               *)
(* next_attempt_at has passed, and whether locked_at is older than five    *)
(* minutes.                                                                *)
(***************************************************************************)
EXTENDS Naturals, FiniteSets

CONSTANTS
    Events,       \* ids of the events the API's handlers write
    NoticeIds,    \* ids uuid.New() gives to dead-letter notices
    None,         \* no row
    Workers,      \* replicas of cmd/outbox-worker
    BatchSize,    \* rows one claim takes at most (50 in the code)
    MaxAttempts,  \* failed publishes before a dead letter (5 in the code)
    MaxFaults     \* bound: crashes and failed statements in one behaviour

Ids == Events \cup NoticeIds

ASSUME OutboxAssumption ==
    /\ IsFiniteSet(Events) /\ IsFiniteSet(NoticeIds)
    /\ Events \cap NoticeIds = {}
    /\ None \notin Ids
    /\ BatchSize \in Nat \ {0}
    /\ MaxAttempts \in Nat \ {0}
    /\ MaxFaults \in Nat

VARIABLES
    status,   \* outbox_events.status, "absent" before the insert commits
    attempts, \* outbox_events.attempts
    due,      \* next_attempt_at <= NOW()
    lock,     \* locked_at: NULL, set, or set more than five minutes ago
    created,  \* rank of created_at among the rows
    about,    \* the row a dead-letter notice is about (its aggregate_id)
    inflight, \* publishes of the row given up on that may still arrive
    stored,   \* copies of the row's message that JetStream has stored
    pc,       \* where each worker is in processBatch
    batch,    \* rows a worker has selected and not begun to publish
    cur,      \* the row a worker is publishing or recording
    count,    \* the local variable attempts of markFailed
    fails,    \* history: failed publishes of the row so far
    faults    \* crashes and failed statements so far

rows == <<status, attempts, due, lock, created, about>>
local == <<pc, batch, cur, count>>
stream == <<inflight, stored>>
vars == <<rows, stream, local, fails, faults>>

Statuses == {"absent", "pending", "processing", "sent", "failed", "dead_letter"}
Locks == {"null", "fresh", "stale"}
PCs == {"idle", "selected", "claimed", "loop", "acked", "nacked", "counted", "notice"}

TypeOK ==
    /\ status \in [Ids -> Statuses]
    /\ attempts \in [Ids -> Nat]
    /\ due \in [Ids -> BOOLEAN]
    /\ lock \in [Ids -> Locks]
    /\ created \in [Ids -> Nat]
    /\ about \in [Ids -> Ids \cup {None}]
    /\ inflight \in [Ids -> Nat]
    /\ stored \in [Ids -> Nat]
    /\ pc \in [Workers -> PCs]
    /\ batch \in [Workers -> SUBSET Ids]
    /\ cur \in [Workers -> Ids \cup {None}]
    /\ count \in [Workers -> Nat]
    /\ fails \in [Ids -> Nat]
    /\ faults \in Nat

Init ==
    /\ status = [i \in Ids |-> "absent"]
    /\ attempts = [i \in Ids |-> 0]
    /\ due = [i \in Ids |-> FALSE]
    /\ lock = [i \in Ids |-> "null"]
    /\ created = [i \in Ids |-> 0]
    /\ about = [i \in Ids |-> None]
    /\ inflight = [i \in Ids |-> 0]
    /\ stored = [i \in Ids |-> 0]
    /\ pc = [w \in Workers |-> "idle"]
    /\ batch = [w \in Workers |-> {}]
    /\ cur = [w \in Workers |-> None]
    /\ count = [w \in Workers |-> 0]
    /\ fails = [i \in Ids |-> 0]
    /\ faults = 0

-----------------------------------------------------------------------------
(* The table *)

Rows == {i \in Ids : status[i] # "absent"}

\* INSERT INTO outbox_events with status 'pending' and next_attempt_at NOW();
\* attempts and locked_at take the column defaults.
Insert(i, subject) ==
    /\ status' = [status EXCEPT ![i] = "pending"]
    /\ due' = [due EXCEPT ![i] = TRUE]
    /\ created' = [created EXCEPT ![i] = Cardinality(Rows) + 1]
    /\ about' = [about EXCEPT ![i] = subject]
    /\ attempts' = [attempts EXCEPT ![i] = 0]
    /\ lock' = [lock EXCEPT ![i] = "null"]

\* outbox.Write: the row commits together with the handler's mutation.
WriteEvent(e) ==
    /\ status[e] = "absent"
    /\ Insert(e, None)
    /\ UNCHANGED <<stream, local, fails, faults>>

\* The clock reaches next_attempt_at.
BackoffElapses(i) ==
    /\ status[i] \in {"pending", "failed"}
    /\ ~due[i]
    /\ due' = [due EXCEPT ![i] = TRUE]
    /\ UNCHANGED <<status, attempts, lock, created, about, stream, local, fails, faults>>

\* Five minutes pass since locked_at.
LockAges(i) ==
    /\ lock[i] = "fresh"
    /\ lock' = [lock EXCEPT ![i] = "stale"]
    /\ UNCHANGED <<status, attempts, due, created, about, stream, local, fails, faults>>

-----------------------------------------------------------------------------
(* Claiming a batch *)

\* Rows that FOR UPDATE has locked in the claim transaction of some worker.
RowLocked(i) == \E w \in Workers : pc[w] = "selected" /\ i \in batch[w]

\* Mutant: FOR UPDATE SKIP LOCKED is dropped.
ClaimableUnlocked(i) ==
    status[i] \in {"pending", "failed"} /\ due[i] /\ lock[i] # "fresh"

\* Mutant: failed rows are not claimed again.
ClaimablePending(i) ==
    status[i] = "pending" /\ due[i] /\ lock[i] # "fresh" /\ ~RowLocked(i)

\* Mutant: the claim also takes over 'processing' rows whose lock is stale.
ClaimableTakeover(i) ==
    /\ \/ status[i] \in {"pending", "failed"} /\ due[i]
       \/ status[i] = "processing"
    /\ lock[i] # "fresh"
    /\ ~RowLocked(i)

\* Mutant: dead letters are claimed again.
ClaimableDead(i) ==
    /\ status[i] \in {"pending", "failed", "dead_letter"}
    /\ due[i]
    /\ lock[i] # "fresh"
    /\ ~RowLocked(i)

\* The WHERE clause of the claim query, with SKIP LOCKED.
Claimable(i) ==
    /\ status[i] \in {"pending", "failed"}
    /\ due[i]
    /\ lock[i] # "fresh"
    /\ ~RowLocked(i)

\* ORDER BY created_at LIMIT batchSize.
OldestFirst(s) ==
    LET all == {i \in Ids : Claimable(i)} IN
    /\ s \subseteq all
    /\ Cardinality(s) = BatchSize \/ s = all
    /\ Cardinality(s) <= BatchSize
    /\ \A i \in s, j \in all \ s : created[i] <= created[j]

\* A tick of the worker: SELECT ... FOR UPDATE SKIP LOCKED found rows.
SelectBatch(w) ==
    /\ pc[w] = "idle"
    /\ \E s \in SUBSET Ids :
        /\ s # {}
        /\ OldestFirst(s)
        /\ batch' = [batch EXCEPT ![w] = s]
    /\ pc' = [pc EXCEPT ![w] = "selected"]
    /\ UNCHANGED <<rows, stream, cur, count, fails, faults>>

\* What the claim transaction writes.
MarkProcessing(w) ==
    /\ status' = [i \in Ids |-> IF i \in batch[w] THEN "processing" ELSE status[i]]
    /\ lock' = [i \in Ids |-> IF i \in batch[w] THEN "fresh" ELSE lock[i]]
    /\ UNCHANGED <<attempts, due, created, about>>

CommitClaim(w) ==
    /\ pc[w] = "selected"
    /\ MarkProcessing(w)
    /\ pc' = [pc EXCEPT ![w] = "claimed"]
    /\ UNCHANGED <<stream, batch, cur, count, fails, faults>>

\* fetchClaimed reads the claimed rows back, in no particular order.
FetchClaimed(w) ==
    /\ pc[w] = "claimed"
    /\ pc' = [pc EXCEPT ![w] = "loop"]
    /\ UNCHANGED <<rows, stream, batch, cur, count, fails, faults>>

-----------------------------------------------------------------------------
(* Publishing one event *)

\* Mutant: nc.Publish of core NATS, which returns before anything is stored.
PublishCore(w, i, ack) ==
    /\ pc[w] = "loop"
    /\ i \in batch[w]
    /\ batch' = [batch EXCEPT ![w] = @ \ {i}]
    /\ cur' = [cur EXCEPT ![w] = i]
    /\ inflight' = [inflight EXCEPT ![i] = @ + 1]
    /\ pc' = [pc EXCEPT ![w] = IF ack THEN "acked" ELSE "nacked"]
    /\ fails' = IF ack THEN fails ELSE [fails EXCEPT ![i] = @ + 1]
    /\ UNCHANGED <<rows, stored, count, faults>>

\* js.Publish: an acknowledgement means the stream has stored the message.
\* Without one the message may have been lost, or stored with the reply lost,
\* or be on its way still when the worker gives up waiting.
Publish(w, i, ack) ==
    /\ pc[w] = "loop"
    /\ i \in batch[w]
    /\ batch' = [batch EXCEPT ![w] = @ \ {i}]
    /\ cur' = [cur EXCEPT ![w] = i]
    /\ IF ack
       THEN /\ stored' = [stored EXCEPT ![i] = @ + 1]
            /\ pc' = [pc EXCEPT ![w] = "acked"]
            /\ UNCHANGED <<inflight, fails>>
       ELSE /\ inflight' = [inflight EXCEPT ![i] = @ + 1]
            /\ pc' = [pc EXCEPT ![w] = "nacked"]
            /\ fails' = [fails EXCEPT ![i] = @ + 1]
            /\ UNCHANGED stored
    /\ UNCHANGED <<rows, count, faults>>

\* A publish nobody waits for any more reaches the stream.
ArriveLate(i) ==
    /\ inflight[i] > 0
    /\ inflight' = [inflight EXCEPT ![i] = @ - 1]
    /\ stored' = [stored EXCEPT ![i] = @ + 1]
    /\ UNCHANGED <<rows, local, fails, faults>>

BatchDone(w) ==
    /\ pc[w] = "loop"
    /\ batch[w] = {}
    /\ pc' = [pc EXCEPT ![w] = "idle"]
    /\ UNCHANGED <<rows, stream, batch, cur, count, fails, faults>>

\* The worker goes on to the next event of its batch.
NextEvent(w) ==
    /\ pc' = [pc EXCEPT ![w] = "loop"]
    /\ cur' = [cur EXCEPT ![w] = None]
    /\ count' = [count EXCEPT ![w] = 0]
    /\ UNCHANGED batch

MarkSent(w) ==
    /\ pc[w] = "acked"
    /\ status' = [status EXCEPT ![cur[w]] = "sent"]
    /\ lock' = [lock EXCEPT ![cur[w]] = "null"]
    /\ NextEvent(w)
    /\ UNCHANGED <<attempts, due, created, about, stream, fails, faults>>

-----------------------------------------------------------------------------
(* markFailed: three statements outside any transaction *)

ReadAttempts(w) ==
    /\ pc[w] = "nacked"
    /\ count' = [count EXCEPT ![w] = attempts[cur[w]] + 1]
    /\ pc' = [pc EXCEPT ![w] = "counted"]
    /\ UNCHANGED <<rows, stream, batch, cur, fails, faults>>

\* Mutant: the retry leaves locked_at set.
ScheduleRetryLocked(w) ==
    /\ pc[w] = "counted"
    /\ count[w] < MaxAttempts
    /\ status' = [status EXCEPT ![cur[w]] = "failed"]
    /\ attempts' = [attempts EXCEPT ![cur[w]] = count[w]]
    /\ due' = [due EXCEPT ![cur[w]] = FALSE]
    /\ NextEvent(w)
    /\ UNCHANGED <<lock, created, about, stream, fails, faults>>

\* Below the limit the row is scheduled again after a backoff.
ScheduleRetry(w) ==
    /\ pc[w] = "counted"
    /\ count[w] < MaxAttempts
    /\ status' = [status EXCEPT ![cur[w]] = "failed"]
    /\ attempts' = [attempts EXCEPT ![cur[w]] = count[w]]
    /\ due' = [due EXCEPT ![cur[w]] = FALSE]
    /\ lock' = [lock EXCEPT ![cur[w]] = "null"]
    /\ NextEvent(w)
    /\ UNCHANGED <<created, about, stream, fails, faults>>

\* Mutant: no recursion guard.
NeedsNoticeAlways(i) == i \in Ids

\* Mutant: the guard is inverted.
NeedsNoticeInverted(i) == i \in NoticeIds

\* Only a row that is not itself a notice gets a notice (recursion guard).
NeedsNotice(i) == i \notin NoticeIds

\* After the UPDATE (or its failure) of the dead-letter branch.
AfterDeadLetter(w) ==
    IF NeedsNotice(cur[w])
    THEN pc' = [pc EXCEPT ![w] = "notice"] /\ UNCHANGED <<batch, cur, count>>
    ELSE NextEvent(w)

\* Mutant: the limit is off by one.
DeadLetterEarly(w) ==
    /\ pc[w] = "counted"
    /\ count[w] + 1 >= MaxAttempts
    /\ status' = [status EXCEPT ![cur[w]] = "dead_letter"]
    /\ attempts' = [attempts EXCEPT ![cur[w]] = count[w]]
    /\ lock' = [lock EXCEPT ![cur[w]] = "null"]
    /\ AfterDeadLetter(w)
    /\ UNCHANGED <<due, created, about, stream, fails, faults>>

DeadLetter(w) ==
    /\ pc[w] = "counted"
    /\ count[w] >= MaxAttempts
    /\ status' = [status EXCEPT ![cur[w]] = "dead_letter"]
    /\ attempts' = [attempts EXCEPT ![cur[w]] = count[w]]
    /\ lock' = [lock EXCEPT ![cur[w]] = "null"]
    /\ AfterDeadLetter(w)
    /\ UNCHANGED <<due, created, about, stream, fails, faults>>

InsertNotice(w) ==
    /\ pc[w] = "notice"
    /\ \E n \in NoticeIds : status[n] = "absent" /\ Insert(n, cur[w])
    /\ NextEvent(w)
    /\ UNCHANGED <<stream, fails, faults>>

-----------------------------------------------------------------------------
(* Faults: failed statements, whose errors the code ignores, and crashes *)

Fault ==
    /\ faults < MaxFaults
    /\ faults' = faults + 1

GoIdle(w) ==
    /\ pc' = [pc EXCEPT ![w] = "idle"]
    /\ batch' = [batch EXCEPT ![w] = {}]
    /\ cur' = [cur EXCEPT ![w] = None]
    /\ count' = [count EXCEPT ![w] = 0]

\* The process dies and is restarted; an open claim transaction rolls back.
Crash(w) ==
    /\ Fault
    /\ pc[w] # "idle"
    /\ GoIdle(w)
    /\ UNCHANGED <<rows, stream, fails>>

\* The claim transaction fails and rolls back.
ClaimFails(w) ==
    /\ Fault
    /\ pc[w] = "selected"
    /\ GoIdle(w)
    /\ UNCHANGED <<rows, stream, fails>>

\* The claim commits and the reply to COMMIT is lost: processBatch returns.
ClaimReplyLost(w) ==
    /\ Fault
    /\ pc[w] = "selected"
    /\ MarkProcessing(w)
    /\ GoIdle(w)
    /\ UNCHANGED <<stream, fails>>

\* fetchClaimed fails and processBatch returns with the rows claimed, or it
\* reads only some of them (rows.Err is not looked at) and goes on with those.
FetchFails(w) ==
    /\ Fault
    /\ pc[w] = "claimed"
    /\ \/ GoIdle(w)
       \/ /\ \E s \in SUBSET batch[w] : batch' = [batch EXCEPT ![w] = s]
          /\ pc' = [pc EXCEPT ![w] = "loop"]
          /\ UNCHANGED <<cur, count>>
    /\ UNCHANGED <<rows, stream, fails>>

\* The SELECT of markFailed fails: attempts keeps its zero value.
ReadAttemptsFails(w) ==
    /\ Fault
    /\ pc[w] = "nacked"
    /\ count' = [count EXCEPT ![w] = 1]
    /\ pc' = [pc EXCEPT ![w] = "counted"]
    /\ UNCHANGED <<rows, stream, batch, cur, fails>>

\* The UPDATE of markSent or markFailed, or the INSERT of the notice, fails.
RecordFails(w) ==
    /\ Fault
    /\ \/ pc[w] \in {"acked", "notice"} /\ NextEvent(w)
       \/ pc[w] = "counted" /\ count[w] < MaxAttempts /\ NextEvent(w)
       \/ pc[w] = "counted" /\ count[w] >= MaxAttempts /\ AfterDeadLetter(w)
    /\ UNCHANGED <<rows, stream, fails>>

-----------------------------------------------------------------------------
WorkerStep(w) ==
    \/ SelectBatch(w)
    \/ CommitClaim(w)
    \/ FetchClaimed(w)
    \/ \E i \in Ids, ack \in BOOLEAN : Publish(w, i, ack)
    \/ BatchDone(w)
    \/ MarkSent(w)
    \/ ReadAttempts(w)
    \/ ScheduleRetry(w)
    \/ DeadLetter(w)
    \/ InsertNotice(w)

WorkerFault(w) ==
    \/ Crash(w)
    \/ ClaimFails(w)
    \/ ClaimReplyLost(w)
    \/ FetchFails(w)
    \/ ReadAttemptsFails(w)
    \/ RecordFails(w)

Next ==
    \/ \E e \in Events : WriteEvent(e)
    \/ \E i \in Ids : BackoffElapses(i) \/ LockAges(i) \/ ArriveLate(i)
    \/ \E w \in Workers : WorkerStep(w) \/ WorkerFault(w)

Spec == Init /\ [][Next]_vars

\* The ticker keeps every running worker moving, and the clock advances.
Fairness ==
    /\ \A w \in Workers : WF_vars(WorkerStep(w))
    /\ \A i \in Ids : WF_vars(BackoffElapses(i))

FairSpec == Spec /\ Fairness

-----------------------------------------------------------------------------
(* Properties *)

Settled(i) == status[i] \in {"sent", "dead_letter"}

\* The rows a worker works on: those it has selected or claimed, and the one
\* whose outcome it still has to record.
Held(w) ==
    batch[w] \cup (IF pc[w] \in {"acked", "nacked", "counted"} THEN {cur[w]} ELSE {})

\* No two replicas ever work on the same row: the row locks of the claim
\* transaction and then the status 'processing' keep the others away, although
\* locked_by is the same constant for every replica (claimEvents).
ExclusiveHold ==
    \A v, w \in Workers : v # w => Held(v) \cap Held(w) = {}

\* A row is marked sent only when the stream holds its message: an
\* acknowledgement that never came is retried, never recorded as sent
\* (publishOne, markSent).
SentIsStored ==
    \A i \in Ids : status[i] = "sent" => stored[i] > 0

\* No event is given up before its publish has failed MaxAttempts times, also
\* when the count was read wrong on the way (markFailed).
DeadLetterEarned ==
    \A i \in Ids : status[i] = "dead_letter" => fails[i] >= MaxAttempts

\* A notice reports an event of the API, never another notice, and one whose
\* retries were spent; no event is reported twice (recursion guard of
\* markFailed).
NoticesSound ==
    /\ \A n \in NoticeIds : status[n] # "absent" =>
            about[n] \in Events /\ fails[about[n]] >= MaxAttempts
    /\ \A m, n \in NoticeIds :
            about[m] = about[n] /\ about[m] # None => m = n

\* A row that waits to be claimed carries no lock: the clause of the claim
\* query that lets a stale lock through never decides anything, since every
\* statement that makes a row claimable again clears locked_at.
WaitingUnlocked ==
    \A i \in Ids : status[i] \in {"pending", "failed"} => lock[i] = "null"

\* The outcome of a row is final: nothing reopens or rewrites a row that was
\* sent or dead-lettered, whatever the replicas do concurrently.
SettledIsFinal ==
    [][\A i \in Ids : Settled(i) =>
            status'[i] = status[i] /\ attempts'[i] = attempts[i]]_vars

\* A row no worker will touch again: claimed, and held by nobody.
Stranded(i) ==
    /\ status[i] = "processing"
    /\ \A w \in Workers : i \notin Held(w)

\* Every committed event is sent or dead-lettered in the end; only a crash or
\* a failed statement can leave it stranded in 'processing'.
SettledUnlessFault ==
    \A e \in Events :
        status[e] # "absent" ~> (Settled(e) \/ (faults > 0 /\ Stranded(e)))

\* An operator hears of every dead letter: its notice is written in the end,
\* unless a fault hit between the two statements.
NoticeFollows ==
    \A e \in Events :
        status[e] = "dead_letter" ~>
            (faults > 0 \/ \E n \in NoticeIds : about[n] = e)

\* What ADR-006 says of the outbox: no event is lost, whatever fails.
NoEventLost ==
    \A e \in Events : status[e] # "absent" ~> Settled(e)
=============================================================================
