---------------------------- MODULE OutboxProofs ----------------------------
(***************************************************************************)
(* Theorems about Outbox for every number of events, replicas and faults.  *)
(* The argument: the row locks of the claim transaction and then the       *)
(* status 'processing' give each row to one worker at a time (IndHold);    *)
(* what a worker remembers of the row it holds agrees with the table       *)
(* (IndWork); and a notice exists only for a row that no worker holds and  *)
(* none can claim (IndNotice).                                             *)
(***************************************************************************)
EXTENDS Outbox, FiniteSetTheorems, TLAPS

\* The row a worker holds or has yet to report.
Busy(w) ==
    batch[w] \cup (IF pc[w] \in {"acked", "nacked", "counted", "notice"}
                   THEN {cur[w]} ELSE {})

IndHold ==
    /\ \A w \in Workers :
        /\ pc[w] = "idle" => batch[w] = {}
        /\ pc[w] = "selected" => \A i \in batch[w] : status[i] \in {"pending", "failed"}
        /\ pc[w] # "selected" => \A i \in batch[w] : status[i] = "processing"
        /\ pc[w] \in {"acked", "nacked", "counted"} =>
                cur[w] \in Ids /\ status[cur[w]] = "processing"
        /\ pc[w] = "notice" =>
                cur[w] \in Events /\ status[cur[w]] \in {"processing", "dead_letter"}
        /\ pc[w] \in {"acked", "nacked", "counted", "notice"} => cur[w] \notin batch[w]
    /\ \A v, w \in Workers : v # w => Busy(v) \cap Busy(w) = {}

IndWork ==
    /\ \A i \in Ids :
        /\ attempts[i] <= fails[i]
        /\ status[i] = "sent" => stored[i] > 0
        /\ status[i] = "dead_letter" => fails[i] >= MaxAttempts
        /\ status[i] \in {"pending", "failed"} => lock[i] = "null"
    /\ \A w \in Workers :
        /\ pc[w] = "acked" => stored[cur[w]] > 0
        /\ pc[w] = "nacked" => fails[cur[w]] >= attempts[cur[w]] + 1
        /\ pc[w] = "counted" => fails[cur[w]] >= count[w]
        /\ pc[w] = "notice" => fails[cur[w]] >= MaxAttempts

IndNotice ==
    /\ \A n \in NoticeIds :
        /\ status[n] = "absent" => about[n] = None
        /\ status[n] # "absent" =>
            /\ about[n] \in Events
            /\ fails[about[n]] >= MaxAttempts
            /\ status[about[n]] \in {"processing", "dead_letter"}
            /\ \A w \in Workers : about[n] \notin Busy(w)
    /\ \A m, n \in NoticeIds : about[m] = about[n] /\ about[m] # None => m = n

IndInv == TypeOK /\ IndHold /\ IndWork /\ IndNotice

\* The table is finite, so the rank of the next row is a number.
LEMMA RowsFinite == IsFiniteSet(Rows)
  BY OutboxAssumption, FS_Union, FS_Subset DEF Rows, Ids

\* No step leaves the types; what the workers remember is needed for the row
\* they name to exist.
LEMMA TypesPreserved == ASSUME IndInv, Next PROVE TypeOK'
<1> USE OutboxAssumption DEF IndInv, TypeOK, IndHold, IndWork, IndNotice, Busy,
        Ids, Statuses, Locks, PCs, stream
<1>0. Cardinality(Rows) \in Nat
  BY RowsFinite, FS_CardinalityType
<1>1. ASSUME NEW e \in Events, WriteEvent(e) PROVE TypeOK'
  BY <1>0, <1>1 DEF WriteEvent, Insert, local
<1>2. ASSUME NEW i \in Ids, BackoffElapses(i) PROVE TypeOK'
  BY <1>2 DEF BackoffElapses, local
<1>3. ASSUME NEW i \in Ids, LockAges(i) PROVE TypeOK'
  BY <1>3 DEF LockAges, local
<1>4. ASSUME NEW i \in Ids, ArriveLate(i) PROVE TypeOK'
  BY <1>4 DEF ArriveLate, rows, local
<1>5. ASSUME NEW w \in Workers, SelectBatch(w) PROVE TypeOK'
  BY <1>5 DEF SelectBatch, OldestFirst, Claimable, RowLocked, rows
<1>6. ASSUME NEW w \in Workers, CommitClaim(w) PROVE TypeOK'
  BY <1>6 DEF CommitClaim, MarkProcessing
<1>7. ASSUME NEW w \in Workers, FetchClaimed(w) PROVE TypeOK'
  BY <1>7 DEF FetchClaimed, rows
<1>8. ASSUME NEW w \in Workers, NEW i \in Ids, NEW ack \in BOOLEAN,
             Publish(w, i, ack) PROVE TypeOK'
  <2>1. CASE ack
    BY <1>8, <2>1 DEF Publish, rows
  <2>2. CASE ~ack
    BY SMTT(40), <1>8, <2>2 DEF Publish, rows
  <2> QED
    BY <2>1, <2>2
<1>9. ASSUME NEW w \in Workers, BatchDone(w) PROVE TypeOK'
  BY <1>9 DEF BatchDone, rows
<1>10. ASSUME NEW w \in Workers, MarkSent(w) PROVE TypeOK'
  BY <1>10 DEF MarkSent, NextEvent
<1>11. ASSUME NEW w \in Workers, ReadAttempts(w) PROVE TypeOK'
  BY <1>11 DEF ReadAttempts, rows
<1>12. ASSUME NEW w \in Workers, ScheduleRetry(w) PROVE TypeOK'
  BY <1>12 DEF ScheduleRetry, NextEvent
<1>13. ASSUME NEW w \in Workers, DeadLetter(w) PROVE TypeOK'
  <2>1. CASE cur[w] \in NoticeIds
    BY SMTT(40), <1>13, <2>1 DEF DeadLetter, AfterDeadLetter, NeedsNotice, NextEvent
  <2>2. CASE cur[w] \notin NoticeIds
    BY <1>13, <2>2 DEF DeadLetter, AfterDeadLetter, NeedsNotice
  <2> QED
    BY <2>1, <2>2
<1>14. ASSUME NEW w \in Workers, InsertNotice(w) PROVE TypeOK'
  BY <1>0, <1>14 DEF InsertNotice, Insert, NextEvent
<1>15. ASSUME NEW w \in Workers, Crash(w) PROVE TypeOK'
  BY <1>15 DEF Crash, Fault, GoIdle, rows
<1>16. ASSUME NEW w \in Workers, ClaimFails(w) PROVE TypeOK'
  BY <1>16 DEF ClaimFails, Fault, GoIdle, rows
<1>17. ASSUME NEW w \in Workers, ClaimReplyLost(w) PROVE TypeOK'
  BY <1>17 DEF ClaimReplyLost, Fault, GoIdle, MarkProcessing
<1>18. ASSUME NEW w \in Workers, FetchFails(w) PROVE TypeOK'
  <2>1. CASE GoIdle(w)
    BY <1>18, <2>1 DEF FetchFails, Fault, GoIdle, rows
  <2>2. ASSUME NEW s \in SUBSET batch[w], batch' = [batch EXCEPT ![w] = s],
               pc' = [pc EXCEPT ![w] = "loop"], UNCHANGED <<cur, count>>
        PROVE TypeOK'
    BY <1>18, <2>2 DEF FetchFails, Fault, rows
  <2> QED
    BY <1>18, <2>1, <2>2 DEF FetchFails
<1>19. ASSUME NEW w \in Workers, ReadAttemptsFails(w) PROVE TypeOK'
  BY <1>19 DEF ReadAttemptsFails, Fault, rows
<1>20. ASSUME NEW w \in Workers, RecordFails(w) PROVE TypeOK'
  <2>1. CASE NextEvent(w)
    BY <1>20, <2>1 DEF RecordFails, Fault, NextEvent, rows
  <2>2. CASE pc[w] = "counted" /\ count[w] >= MaxAttempts /\ cur[w] \notin NoticeIds
    BY <1>20, <2>2 DEF RecordFails, Fault, AfterDeadLetter, NeedsNotice, rows
  <2> QED
    BY <1>20, <2>1, <2>2 DEF RecordFails, AfterDeadLetter, NeedsNotice
<1> HIDE DEF IndInv, TypeOK, IndHold, IndWork, IndNotice, Busy, Ids
<1> QED
  BY <1>1, <1>2, <1>3, <1>4, <1>5, <1>6, <1>7, <1>8, <1>9, <1>10,
     <1>11, <1>12, <1>13, <1>14, <1>15, <1>16, <1>17, <1>18, <1>19, <1>20
     DEF Next, WorkerStep, WorkerFault

\* No step lets two workers hold one row.
LEMMA HoldPreserved == ASSUME IndInv, Next PROVE IndHold'
<1> USE OutboxAssumption DEF IndInv, TypeOK, IndHold, IndWork, IndNotice, Busy,
        Ids, Statuses, Locks, PCs, stream
<1>1. ASSUME NEW e \in Events, WriteEvent(e) PROVE IndHold'
  BY <1>1 DEF WriteEvent, Insert, local
<1>2. ASSUME NEW i \in Ids, BackoffElapses(i) PROVE IndHold'
  BY <1>2 DEF BackoffElapses, local
<1>3. ASSUME NEW i \in Ids, LockAges(i) PROVE IndHold'
  BY <1>3 DEF LockAges, local
<1>4. ASSUME NEW i \in Ids, ArriveLate(i) PROVE IndHold'
  BY <1>4 DEF ArriveLate, rows, local
<1>5. ASSUME NEW w \in Workers, SelectBatch(w) PROVE IndHold'
  BY SMTT(40), <1>5 DEF SelectBatch, OldestFirst, Claimable, RowLocked, rows
<1>6. ASSUME NEW w \in Workers, CommitClaim(w) PROVE IndHold'
  BY <1>6 DEF CommitClaim, MarkProcessing
<1>7. ASSUME NEW w \in Workers, FetchClaimed(w) PROVE IndHold'
  BY <1>7 DEF FetchClaimed, rows
<1>8. ASSUME NEW w \in Workers, NEW i \in Ids, NEW ack \in BOOLEAN,
             Publish(w, i, ack) PROVE IndHold'
  <2>1. CASE ack
    BY <1>8, <2>1 DEF Publish, rows
  <2>2. CASE ~ack
    BY <1>8, <2>2 DEF Publish, rows
  <2> QED
    BY <2>1, <2>2
<1>9. ASSUME NEW w \in Workers, BatchDone(w) PROVE IndHold'
  BY <1>9 DEF BatchDone, rows
<1>10. ASSUME NEW w \in Workers, MarkSent(w) PROVE IndHold'
  BY <1>10 DEF MarkSent, NextEvent
<1>11. ASSUME NEW w \in Workers, ReadAttempts(w) PROVE IndHold'
  BY <1>11 DEF ReadAttempts, rows
<1>12. ASSUME NEW w \in Workers, ScheduleRetry(w) PROVE IndHold'
  BY <1>12 DEF ScheduleRetry, NextEvent
<1>13. ASSUME NEW w \in Workers, DeadLetter(w) PROVE IndHold'
  <2>1. CASE cur[w] \in NoticeIds
    BY <1>13, <2>1 DEF DeadLetter, AfterDeadLetter, NeedsNotice, NextEvent
  <2>2. CASE cur[w] \notin NoticeIds
    BY <1>13, <2>2 DEF DeadLetter, AfterDeadLetter, NeedsNotice
  <2> QED
    BY <2>1, <2>2
<1>14. ASSUME NEW w \in Workers, InsertNotice(w) PROVE IndHold'
  BY <1>14 DEF InsertNotice, Insert, NextEvent
<1>15. ASSUME NEW w \in Workers, Crash(w) PROVE IndHold'
  BY <1>15 DEF Crash, Fault, GoIdle, rows
<1>16. ASSUME NEW w \in Workers, ClaimFails(w) PROVE IndHold'
  BY <1>16 DEF ClaimFails, Fault, GoIdle, rows
<1>17. ASSUME NEW w \in Workers, ClaimReplyLost(w) PROVE IndHold'
  BY <1>17 DEF ClaimReplyLost, Fault, GoIdle, MarkProcessing
<1>18. ASSUME NEW w \in Workers, FetchFails(w) PROVE IndHold'
  <2>1. CASE GoIdle(w)
    BY <1>18, <2>1 DEF FetchFails, Fault, GoIdle, rows
  <2>2. ASSUME NEW s \in SUBSET batch[w], batch' = [batch EXCEPT ![w] = s],
               pc' = [pc EXCEPT ![w] = "loop"], UNCHANGED <<cur, count>>
        PROVE IndHold'
    BY <1>18, <2>2 DEF FetchFails, Fault, rows
  <2> QED
    BY <1>18, <2>1, <2>2 DEF FetchFails
<1>19. ASSUME NEW w \in Workers, ReadAttemptsFails(w) PROVE IndHold'
  BY <1>19 DEF ReadAttemptsFails, Fault, rows
<1>20. ASSUME NEW w \in Workers, RecordFails(w) PROVE IndHold'
  <2>1. CASE NextEvent(w)
    BY <1>20, <2>1 DEF RecordFails, Fault, NextEvent, rows
  <2>2. CASE pc[w] = "counted" /\ count[w] >= MaxAttempts /\ cur[w] \notin NoticeIds
    BY <1>20, <2>2 DEF RecordFails, Fault, AfterDeadLetter, NeedsNotice, rows
  <2> QED
    BY <1>20, <2>1, <2>2 DEF RecordFails, AfterDeadLetter, NeedsNotice
<1> HIDE DEF IndInv, TypeOK, IndHold, IndWork, IndNotice, Busy, Ids
<1> QED
  BY <1>1, <1>2, <1>3, <1>4, <1>5, <1>6, <1>7, <1>8, <1>9, <1>10,
     <1>11, <1>12, <1>13, <1>14, <1>15, <1>16, <1>17, <1>18, <1>19, <1>20
     DEF Next, WorkerStep, WorkerFault

\* No step breaks the agreement of the table with what publishing did.
LEMMA WorkPreserved == ASSUME IndInv, Next PROVE IndWork'
<1> USE OutboxAssumption DEF IndInv, TypeOK, IndHold, IndWork, IndNotice, Busy,
        Ids, Statuses, Locks, PCs, stream
<1>1. ASSUME NEW e \in Events, WriteEvent(e) PROVE IndWork'
  BY <1>1 DEF WriteEvent, Insert, local
<1>2. ASSUME NEW i \in Ids, BackoffElapses(i) PROVE IndWork'
  BY <1>2 DEF BackoffElapses, local
<1>3. ASSUME NEW i \in Ids, LockAges(i) PROVE IndWork'
  BY <1>3 DEF LockAges, local
<1>4. ASSUME NEW i \in Ids, ArriveLate(i) PROVE IndWork'
  BY <1>4 DEF ArriveLate, rows, local
<1>5. ASSUME NEW w \in Workers, SelectBatch(w) PROVE IndWork'
  BY <1>5 DEF SelectBatch, OldestFirst, Claimable, RowLocked, rows
<1>6. ASSUME NEW w \in Workers, CommitClaim(w) PROVE IndWork'
  BY <1>6 DEF CommitClaim, MarkProcessing
<1>7. ASSUME NEW w \in Workers, FetchClaimed(w) PROVE IndWork'
  BY <1>7 DEF FetchClaimed, rows
<1>8. ASSUME NEW w \in Workers, NEW i \in Ids, NEW ack \in BOOLEAN,
             Publish(w, i, ack) PROVE IndWork'
  <2>1. CASE ack
    BY SMTT(40), <1>8, <2>1 DEF Publish, rows
  <2>2. CASE ~ack
    <3>1. /\ fails' = [fails EXCEPT ![i] = fails[i] + 1]
          /\ pc' = [pc EXCEPT ![w] = "nacked"]
          /\ cur' = [cur EXCEPT ![w] = i]
          /\ UNCHANGED <<attempts, status, stored, lock, count>>
      BY <1>8, <2>2 DEF Publish, rows
    <3>2. \A j \in Ids : fails[j] <= fails'[j] /\ attempts[j] \in Nat /\ fails'[j] \in Nat
      BY <3>1
    <3>3. \A v \in Workers \ {w} : pc'[v] = pc[v] /\ cur'[v] = cur[v]
      BY <3>1
    <3>4. fails'[i] >= attempts[i] + 1
      BY <3>1, <3>2
    <3> QED
      BY <3>1, <3>2, <3>3, <3>4
  <2> QED
    BY <2>1, <2>2
<1>9. ASSUME NEW w \in Workers, BatchDone(w) PROVE IndWork'
  BY <1>9 DEF BatchDone, rows
<1>10. ASSUME NEW w \in Workers, MarkSent(w) PROVE IndWork'
  BY <1>10 DEF MarkSent, NextEvent
<1>11. ASSUME NEW w \in Workers, ReadAttempts(w) PROVE IndWork'
  BY <1>11 DEF ReadAttempts, rows
<1>12. ASSUME NEW w \in Workers, ScheduleRetry(w) PROVE IndWork'
  BY <1>12 DEF ScheduleRetry, NextEvent
<1>13. ASSUME NEW w \in Workers, DeadLetter(w) PROVE IndWork'
  <2>1. CASE cur[w] \in NoticeIds
    BY <1>13, <2>1 DEF DeadLetter, AfterDeadLetter, NeedsNotice, NextEvent
  <2>2. CASE cur[w] \notin NoticeIds
    BY <1>13, <2>2 DEF DeadLetter, AfterDeadLetter, NeedsNotice
  <2> QED
    BY <2>1, <2>2
<1>14. ASSUME NEW w \in Workers, InsertNotice(w) PROVE IndWork'
  BY <1>14 DEF InsertNotice, Insert, NextEvent
<1>15. ASSUME NEW w \in Workers, Crash(w) PROVE IndWork'
  BY <1>15 DEF Crash, Fault, GoIdle, rows
<1>16. ASSUME NEW w \in Workers, ClaimFails(w) PROVE IndWork'
  BY <1>16 DEF ClaimFails, Fault, GoIdle, rows
<1>17. ASSUME NEW w \in Workers, ClaimReplyLost(w) PROVE IndWork'
  BY <1>17 DEF ClaimReplyLost, Fault, GoIdle, MarkProcessing
<1>18. ASSUME NEW w \in Workers, FetchFails(w) PROVE IndWork'
  <2>1. CASE GoIdle(w)
    BY <1>18, <2>1 DEF FetchFails, Fault, GoIdle, rows
  <2>2. ASSUME NEW s \in SUBSET batch[w], batch' = [batch EXCEPT ![w] = s],
               pc' = [pc EXCEPT ![w] = "loop"], UNCHANGED <<cur, count>>
        PROVE IndWork'
    BY <1>18, <2>2 DEF FetchFails, Fault, rows
  <2> QED
    BY <1>18, <2>1, <2>2 DEF FetchFails
<1>19. ASSUME NEW w \in Workers, ReadAttemptsFails(w) PROVE IndWork'
  BY <1>19 DEF ReadAttemptsFails, Fault, rows
<1>20. ASSUME NEW w \in Workers, RecordFails(w) PROVE IndWork'
  <2>1. CASE NextEvent(w)
    BY <1>20, <2>1 DEF RecordFails, Fault, NextEvent, rows
  <2>2. CASE pc[w] = "counted" /\ count[w] >= MaxAttempts /\ cur[w] \notin NoticeIds
    BY <1>20, <2>2 DEF RecordFails, Fault, AfterDeadLetter, NeedsNotice, rows
  <2> QED
    BY <1>20, <2>1, <2>2 DEF RecordFails, AfterDeadLetter, NeedsNotice
<1> HIDE DEF IndInv, TypeOK, IndHold, IndWork, IndNotice, Busy, Ids
<1> QED
  BY <1>1, <1>2, <1>3, <1>4, <1>5, <1>6, <1>7, <1>8, <1>9, <1>10,
     <1>11, <1>12, <1>13, <1>14, <1>15, <1>16, <1>17, <1>18, <1>19, <1>20
     DEF Next, WorkerStep, WorkerFault

\* No step writes a second notice for a row or reopens a reported row.
LEMMA NoticePreserved == ASSUME IndInv, Next PROVE IndNotice'
<1> USE OutboxAssumption DEF IndInv, TypeOK, IndHold, IndWork, IndNotice, Busy,
        Ids, Statuses, Locks, PCs, stream
<1>1. ASSUME NEW e \in Events, WriteEvent(e) PROVE IndNotice'
  BY <1>1 DEF WriteEvent, Insert, local
<1>2. ASSUME NEW i \in Ids, BackoffElapses(i) PROVE IndNotice'
  BY <1>2 DEF BackoffElapses, local
<1>3. ASSUME NEW i \in Ids, LockAges(i) PROVE IndNotice'
  BY <1>3 DEF LockAges, local
<1>4. ASSUME NEW i \in Ids, ArriveLate(i) PROVE IndNotice'
  BY <1>4 DEF ArriveLate, rows, local
<1>5. ASSUME NEW w \in Workers, SelectBatch(w) PROVE IndNotice'
  BY <1>5 DEF SelectBatch, OldestFirst, Claimable, RowLocked, rows
<1>6. ASSUME NEW w \in Workers, CommitClaim(w) PROVE IndNotice'
  BY <1>6 DEF CommitClaim, MarkProcessing
<1>7. ASSUME NEW w \in Workers, FetchClaimed(w) PROVE IndNotice'
  BY <1>7 DEF FetchClaimed, rows
<1>8. ASSUME NEW w \in Workers, NEW i \in Ids, NEW ack \in BOOLEAN,
             Publish(w, i, ack) PROVE IndNotice'
  <2>1. CASE ack
    BY <1>8, <2>1 DEF Publish, rows
  <2>2. CASE ~ack
    BY <1>8, <2>2 DEF Publish, rows
  <2> QED
    BY <2>1, <2>2
<1>9. ASSUME NEW w \in Workers, BatchDone(w) PROVE IndNotice'
  BY <1>9 DEF BatchDone, rows
<1>10. ASSUME NEW w \in Workers, MarkSent(w) PROVE IndNotice'
  BY <1>10 DEF MarkSent, NextEvent
<1>11. ASSUME NEW w \in Workers, ReadAttempts(w) PROVE IndNotice'
  BY <1>11 DEF ReadAttempts, rows
<1>12. ASSUME NEW w \in Workers, ScheduleRetry(w) PROVE IndNotice'
  BY <1>12 DEF ScheduleRetry, NextEvent
<1>13. ASSUME NEW w \in Workers, DeadLetter(w) PROVE IndNotice'
  <2>1. CASE cur[w] \in NoticeIds
    BY <1>13, <2>1 DEF DeadLetter, AfterDeadLetter, NeedsNotice, NextEvent
  <2>2. CASE cur[w] \notin NoticeIds
    BY <1>13, <2>2 DEF DeadLetter, AfterDeadLetter, NeedsNotice
  <2> QED
    BY <2>1, <2>2
<1>14. ASSUME NEW w \in Workers, InsertNotice(w) PROVE IndNotice'
  BY <1>14 DEF InsertNotice, Insert, NextEvent
<1>15. ASSUME NEW w \in Workers, Crash(w) PROVE IndNotice'
  BY <1>15 DEF Crash, Fault, GoIdle, rows
<1>16. ASSUME NEW w \in Workers, ClaimFails(w) PROVE IndNotice'
  BY <1>16 DEF ClaimFails, Fault, GoIdle, rows
<1>17. ASSUME NEW w \in Workers, ClaimReplyLost(w) PROVE IndNotice'
  BY <1>17 DEF ClaimReplyLost, Fault, GoIdle, MarkProcessing
<1>18. ASSUME NEW w \in Workers, FetchFails(w) PROVE IndNotice'
  <2>1. CASE GoIdle(w)
    BY <1>18, <2>1 DEF FetchFails, Fault, GoIdle, rows
  <2>2. ASSUME NEW s \in SUBSET batch[w], batch' = [batch EXCEPT ![w] = s],
               pc' = [pc EXCEPT ![w] = "loop"], UNCHANGED <<cur, count>>
        PROVE IndNotice'
    BY <1>18, <2>2 DEF FetchFails, Fault, rows
  <2> QED
    BY <1>18, <2>1, <2>2 DEF FetchFails
<1>19. ASSUME NEW w \in Workers, ReadAttemptsFails(w) PROVE IndNotice'
  BY <1>19 DEF ReadAttemptsFails, Fault, rows
<1>20. ASSUME NEW w \in Workers, RecordFails(w) PROVE IndNotice'
  <2>1. CASE NextEvent(w)
    BY <1>20, <2>1 DEF RecordFails, Fault, NextEvent, rows
  <2>2. CASE pc[w] = "counted" /\ count[w] >= MaxAttempts /\ cur[w] \notin NoticeIds
    BY <1>20, <2>2 DEF RecordFails, Fault, AfterDeadLetter, NeedsNotice, rows
  <2> QED
    BY <1>20, <2>1, <2>2 DEF RecordFails, AfterDeadLetter, NeedsNotice
<1> HIDE DEF IndInv, TypeOK, IndHold, IndWork, IndNotice, Busy, Ids
<1> QED
  BY <1>1, <1>2, <1>3, <1>4, <1>5, <1>6, <1>7, <1>8, <1>9, <1>10,
     <1>11, <1>12, <1>13, <1>14, <1>15, <1>16, <1>17, <1>18, <1>19, <1>20
     DEF Next, WorkerStep, WorkerFault

\* The invariant behind every theorem of this module.
THEOREM Inductive == Spec => []IndInv
<1>1. Init => IndInv
  BY OutboxAssumption DEF Init, IndInv, TypeOK, IndHold, IndWork, IndNotice,
     Busy, Ids, Statuses, Locks, PCs
<1>2. IndInv /\ [Next]_vars => IndInv'
  <2> SUFFICES ASSUME IndInv, [Next]_vars PROVE IndInv'
    OBVIOUS
  <2>1. CASE Next
    BY <2>1, TypesPreserved, HoldPreserved, WorkPreserved, NoticePreserved DEF IndInv
  <2>2. CASE UNCHANGED vars
    BY <2>2 DEF IndInv, TypeOK, IndHold, IndWork, IndNotice, Busy, vars, rows, stream, local
  <2> QED
    BY <2>1, <2>2
<1> QED
  BY <1>1, <1>2, PTL DEF Spec

\* Every variable keeps its type.
THEOREM TypeCorrect == Spec => []TypeOK
<1>1. IndInv => TypeOK
  BY DEF IndInv
<1> QED
  BY <1>1, Inductive, PTL

\* However many replicas of the worker run, a row is worked on by one of them.
THEOREM Exclusive == Spec => []ExclusiveHold
<1>1. IndInv => ExclusiveHold
  BY DEF IndInv, IndHold, ExclusiveHold, Held, Busy
<1> QED
  BY <1>1, Inductive, PTL

\* What is marked sent is in the stream.
THEOREM NothingSentUnstored == Spec => []SentIsStored
<1>1. IndInv => SentIsStored
  BY DEF IndInv, IndWork, SentIsStored
<1> QED
  BY <1>1, Inductive, PTL

\* A dead letter has used all its attempts, for every attempt limit.
THEOREM DeadLettersEarned == Spec => []DeadLetterEarned
<1>1. IndInv => DeadLetterEarned
  BY DEF IndInv, IndWork, DeadLetterEarned
<1> QED
  BY <1>1, Inductive, PTL

\* Notices are about events of the API, earned, and unique.
THEOREM NoticesCorrect == Spec => []NoticesSound
<1>1. IndInv => NoticesSound
  BY OutboxAssumption DEF IndInv, IndNotice, NoticesSound, Ids
<1> QED
  BY <1>1, Inductive, PTL

\* The stale-lock clause of the claim query never decides a claim.
THEOREM StaleClauseIdle == Spec => []WaitingUnlocked
<1>1. IndInv => WaitingUnlocked
  BY DEF IndInv, IndWork, WaitingUnlocked
<1> QED
  BY <1>1, Inductive, PTL

\* A row that was sent or dead-lettered is never rewritten: every statement of
\* a worker is about a row it holds, and a held row is not settled.
THEOREM SettledStaysSettled == Spec => SettledIsFinal
<1>1. ASSUME IndInv, [Next]_vars, NEW i \in Ids, Settled(i)
      PROVE status'[i] = status[i] /\ attempts'[i] = attempts[i]
  <2> USE OutboxAssumption DEF IndInv, TypeOK, IndHold, IndWork, IndNotice, Busy,
        Ids, Settled, rows, local, NextEvent, GoIdle, AfterDeadLetter
  <2>1. CASE \E e \in Events : WriteEvent(e)
    BY <1>1, <2>1 DEF WriteEvent, Insert
  <2>2. CASE \E j \in Ids : BackoffElapses(j) \/ LockAges(j) \/ ArriveLate(j)
    BY <1>1, <2>2 DEF BackoffElapses, LockAges, ArriveLate
  <2>3. ASSUME NEW w \in Workers, WorkerStep(w)
        PROVE status'[i] = status[i] /\ attempts'[i] = attempts[i]
    BY <1>1, <2>3 DEF WorkerStep, SelectBatch, CommitClaim, MarkProcessing, FetchClaimed,
       Publish, BatchDone, MarkSent, ReadAttempts, ScheduleRetry, DeadLetter,
       InsertNotice, Insert
  <2>4. ASSUME NEW w \in Workers, WorkerFault(w)
        PROVE status'[i] = status[i] /\ attempts'[i] = attempts[i]
    BY <1>1, <2>4 DEF WorkerFault, Crash, ClaimFails, ClaimReplyLost, MarkProcessing,
       FetchFails, ReadAttemptsFails, RecordFails
  <2>5. CASE UNCHANGED vars
    BY <1>1, <2>5 DEF vars
  <2> QED
    BY <1>1, <2>1, <2>2, <2>3, <2>4, <2>5 DEF Next
<1>2. IndInv /\ [Next]_vars =>
        [\A i \in Ids : Settled(i) =>
            status'[i] = status[i] /\ attempts'[i] = attempts[i]]_vars
  BY <1>1
<1> QED
  BY <1>2, Inductive, PTL DEF Spec, SettledIsFinal
=============================================================================
