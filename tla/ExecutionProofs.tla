-------------------------- MODULE ExecutionProofs --------------------------
(***************************************************************************)
(* Proofs about Execution, for any number of actions, windows, tools,      *)
(* proposals and requests in progress.  A step of one component leaves the *)
(* variables of the others alone, except for the table of approvals, where *)
(* it touches no row that another one reads: so each component has an      *)
(* invariant of its own that every step of Execution keeps.                *)
(***************************************************************************)
EXTENDS Execution, Sequences, FiniteSetTheorems, TLAPS

-----------------------------------------------------------------------------
(* Actions on Proxmox: the inductive invariant *)

\* The steps of a request past its look at the approval, before its record.
PastSteps == {"verified", "cleared", "answered", "erred"}
Past(c, a) == caller[c].id = a /\ caller[c].step \in PastSteps

\* What a request is about.
IndIds ==
    /\ \A c \in Callers :
        /\ caller[c].step \in P!Executing \cup {"blocking", "ended"} =>
            caller[c].id \in P!Actions
        /\ caller[c].step \in {"closing", "closed", "expired"} => caller[c].id \in Windows
    /\ \A w \in lapsed : window[w] = "open"

\* Each check that a request has passed found its fact.
IndHeld ==
    \A c \in Callers :
        /\ caller[c].step \in {"windowed", "loaded"} \cup PastSteps => "window" \in held[c]
        /\ caller[c].step \in PastSteps => "approval" \in held[c]
        /\ caller[c].step \in PastSteps \ {"verified"} => "approvers" \in held[c]

\* As long as nothing excuses an action, its one call is still to be recorded
\* by the request that made it, or is recorded with the approval, after which
\* no request is past its look at it.
IndCalls ==
    /\ \A a \in P!Actions \ excused :
        /\ calls[a] <= 1
        /\ calls[a] = 1 =>
            approval[a].executed \/ \E c \in Callers : P!At(c, "answered") /\ caller[c].id = a
        /\ approval[a].executed => \A c \in Callers : ~Past(c, a)
    /\ \A a \in P!Actions :
        /\ action[a] = "succeeded" \/ approval[a].executed => a \in answered
        /\ a \in outcome => action[a] \in {"succeeded", "failed"}
    /\ \A c \in Callers :
        /\ P!At(c, "answered") => caller[c].id \in answered
        /\ P!At(c, "ended") => action[caller[c].id] \in {"succeeded", "failed"}

\* One window is open at a time, and none while a request is about to open one;
\* a window that is announced as over, or about to be, was inserted and is over.
IndWindows ==
    /\ ~crowded =>
        /\ \A v, w \in Windows : window[v] = "open" /\ window[w] = "open" => v = w
        /\ \A c \in Callers : P!At(c, "opening") => \A w \in Windows : window[w] # "open"
    /\ \A w \in ended : window[w] \in {"closed", "expired"}
    /\ \A c \in Callers :
        /\ P!At(c, "closing") => window[caller[c].id] # "absent"
        /\ caller[c].step \in {"closed", "expired"} =>
                window[caller[c].id] \in {"closed", "expired"}
        /\ \A w \in caller[c].todo : window[w] # "absent"

ProxmoxInv == P!PTypeOK /\ IndIds /\ IndHeld /\ IndCalls /\ IndWindows

-----------------------------------------------------------------------------
(* Rows of approval_requests *)

\* A decision leaves executed_at alone, and the row a row.
LEMMA RowMoves ==
    ASSUME P!RowTypeOK, NEW r \in Requests, P!RowRequested(r) \/ P!RowDecided(r)
    PROVE  /\ P!RowTypeOK'
           /\ \A q \in Requests : approval'[q].executed = approval[q].executed
           /\ \A q \in Requests \ {r} : approval'[q] = approval[q]
<1> USE DEF P!RowTypeOK
<1>1. CASE P!RowRequested(r)
  BY <1>1 DEF P!RowRequested, P!Rows, P!RowStatuses
<1>2. CASE P!RowApproved(r)
  <2>1. PICK s \in P!RowStatuses :
            approval' = [approval EXCEPT ![r].status = s, ![r].approvers = @ + 1]
    BY <1>2 DEF P!RowApproved, P!Rows, P!RowStatuses
  <2>2. approval[r] \in P!Rows
    OBVIOUS
  <2>3. PICK n \in Nat : n = approval[r].approvers + 1
    BY <2>2 DEF P!Rows
  <2>4. approval' = [approval EXCEPT ![r] =
            [approval[r] EXCEPT !.status = s, !.approvers = n]]
    BY <2>1, <2>3
  <2>5. [approval[r] EXCEPT !.status = s, !.approvers = n] \in P!Rows
    BY <2>2 DEF P!Rows
  <2>6. [approval[r] EXCEPT !.status = s, !.approvers = n].executed = approval[r].executed
    BY <2>2 DEF P!Rows
  <2> QED BY <2>4, <2>5, <2>6
<1>3. CASE P!RowRefused(r)
  BY <1>3 DEF P!RowRefused, P!Rows, P!RowStatuses
<1>4. CASE P!RowOverdue(r)
  BY <1>4 DEF P!RowOverdue, P!Rows, P!RowStatuses
<1> QED BY <1>1, <1>2, <1>3, <1>4 DEF P!RowDecided

\* The row of an approval that was used.
LEMMA RowDone ==
    ASSUME P!RowTypeOK, NEW r \in Requests, P!RowExecuted(r)
    PROVE  /\ P!RowTypeOK'
           /\ approval'[r].executed
           /\ approval'[r].approvers = approval[r].approvers
           /\ \A q \in Requests \ {r} : approval'[q] = approval[q]
BY DEF P!RowExecuted, P!RowTypeOK, P!Rows, P!RowStatuses

-----------------------------------------------------------------------------
(* What becomes of a request for an action or a window *)

\* It goes on, ...
LEMMA Proceeded ==
    ASSUME P!PTypeOK, NEW c \in Callers, NEW step \in P!CallerSteps, P!Proceeds(c, step)
    PROVE  /\ caller' \in [Callers -> P!CallerStates]
           /\ caller'[c].step = step /\ caller'[c].id = caller[c].id
           /\ caller'[c].todo = caller[c].todo
           /\ \A d \in Callers \ {c} : caller'[d] = caller[d]
BY DEF P!PTypeOK, P!Proceeds, P!CallerStates

\* ... begins, ...
LEMMA Begun ==
    ASSUME P!PTypeOK, NEW c \in Callers, NEW step \in P!CallerSteps,
           NEW id \in P!Actions \cup Windows \cup {NoId}, P!Begins(c, step, id)
    PROVE  /\ caller' \in [Callers -> P!CallerStates]
           /\ caller'[c].step = step /\ caller'[c].id = id /\ caller'[c].todo = {}
           /\ \A d \in Callers \ {c} : caller'[d] = caller[d]
BY DEF P!PTypeOK, P!Begins, P!CallerStates

\* ... or ends.
LEMMA Finished ==
    ASSUME P!PTypeOK, NEW c \in Callers, P!Finishes(c)
    PROVE  /\ caller' \in [Callers -> P!CallerStates]
           /\ caller'[c].step = "idle" /\ caller'[c].id = NoId /\ caller'[c].todo = {}
           /\ \A d \in Callers \ {c} : caller'[d] = caller[d]
BY DEF P!PTypeOK, P!Finishes, P!Free, P!CallerStates, P!CallerSteps

\* The steps of a request that only read, ...
Reads(c) ==
    \/ \E a \in P!Actions : P!BeginExecute(c, a) \/ P!ReadEndedAction(c, a)
    \/ P!CheckWindow(c)
    \/ P!LoadAction(c)
    \/ P!CheckApproval(c)
    \/ P!CheckRequirements(c)
    \/ P!Refuse(c)
    \/ P!BeginOpen(c)
    \/ \E w \in Windows : P!BeginClose(c, w)
    \/ P!SelectStale(c)
    \/ P!ReportWindow(c)

\* ... and what the request knows after one of them.
Learns(c) ==
    LET now == caller[c]
        next == caller'[c]
    IN  /\ UNCHANGED <<P!rows, P!history>>
        /\ caller' \in [Callers -> P!CallerStates]
        /\ \A d \in Callers \ {c} : caller'[d] = caller[d]
        /\ now.step # "answered"
        /\ next.step \notin {"answered", "erred", "closed", "expired"}
        /\ next.step \in P!Executing \cup {"blocking", "ended"} => next.id \in P!Actions
        /\ next.step = "ended" => action[next.id] \in {"succeeded", "failed"}
        /\ next.step = "windowed" => P!ActiveMutationWindow
        /\ next.step = "loaded" => now.step = "windowed"
        /\ next.step = "verified" =>
            now.step = "loaded" /\ next.id = now.id /\ P!Usable(next.id)
        /\ next.step = "cleared" =>
            /\ now.step = "verified" /\ next.id = now.id
            /\ approval[next.id].approvers >= P!MinApprovers(TypeOf[next.id])
        /\ next.step = "closing" => next.id \in Windows /\ window[next.id] = "open"
        /\ next.step = "opening" => \A w \in Windows : window[w] # "open"
        /\ next.todo \in {now.todo, {}, lapsed}

\* A step that only reads teaches a request what it checks.
LEMMA ReadsLearn ==
    ASSUME P!PTypeOK, IndIds, NEW c \in Callers, Reads(c)
    PROVE  Learns(c)
<1> USE DEF P!CallerSteps, P!At, P!Executing
<1>1. ASSUME NEW a \in P!Actions, P!BeginExecute(c, a)
      PROVE  Learns(c)
  BY <1>1, Begun DEF P!BeginExecute, Learns
<1>2. ASSUME NEW a \in P!Actions, P!ReadEndedAction(c, a)
      PROVE  Learns(c)
  BY <1>2, Begun DEF P!ReadEndedAction, Learns
<1>3. CASE P!CheckWindow(c)
  BY <1>3, Proceeded DEF P!CheckWindow, Learns, IndIds
<1>4. CASE P!LoadAction(c)
  <2>1. CASE P!Finishes(c)
    BY <1>4, <2>1, Finished DEF P!LoadAction, Learns
  <2>2. CASE P!Proceeds(c, "loaded")
    BY <1>4, <2>2, Proceeded DEF P!LoadAction, Learns, IndIds
  <2> QED BY <1>4, <2>1, <2>2 DEF P!LoadAction
<1>5. CASE P!CheckApproval(c)
  BY <1>5, Proceeded DEF P!CheckApproval, Learns, IndIds
<1>6. CASE P!CheckRequirements(c)
  BY <1>6, Proceeded DEF P!CheckRequirements, Learns, IndIds
<1>7. CASE P!Refuse(c)
  BY <1>7, Proceeded DEF P!Refuse, Learns, IndIds
<1>8. CASE P!BeginOpen(c)
  BY <1>8, Begun DEF P!BeginOpen, P!NoOpenWindow, Learns
<1>9. ASSUME NEW w \in Windows, P!BeginClose(c, w)
      PROVE  Learns(c)
  BY <1>9, Begun DEF P!BeginClose, Learns
<1>10. CASE P!SelectStale(c)
  <2>1. /\ caller' \in [Callers -> P!CallerStates]
        /\ caller'[c].step = "sweeping" /\ caller'[c].todo = lapsed
        /\ \A d \in Callers \ {c} : caller'[d] = caller[d]
    BY <1>10 DEF P!SelectStale, P!PTypeOK, P!CallerStates
  <2> QED BY <1>10, <2>1 DEF P!SelectStale, Learns
<1>11. CASE P!ReportWindow(c)
  BY <1>11, Finished DEF P!ReportWindow, Learns
<1> QED BY <1>1, <1>2, <1>3, <1>4, <1>5, <1>6, <1>7, <1>8, <1>9, <1>10, <1>11 DEF Reads

\* The steps of ProxmoxActions, sorted by what they write.
LEMMA StepsSorted ==
    P!PSteps <=>
        \/ \E a \in P!Actions : P!CreateAction(a) \/ P!Decide(a)
        \/ \E w \in Windows : P!WindowLapses(w)
        \/ \E c \in Callers :
            \/ Reads(c)
            \/ P!Call(c)
            \/ P!RecordSuccess(c)
            \/ P!RecordFailure(c)
            \/ P!RecordOutcome(c)
            \/ P!GiveUp(c)
            \/ \E w \in Windows : P!InsertWindow(c, w) \/ P!ExpireWindow(c, w)
            \/ P!CloseWindow(c)
            \/ P!AnnounceClosed(c)
            \/ P!AnnounceExpired(c)
BY DEF P!PSteps, P!Execute, P!ServeWindow, Reads

-----------------------------------------------------------------------------
(* Types *)

\* Every step keeps the types.
LEMMA ProxmoxTypes ==
    ASSUME P!PTypeOK, IndIds, P!PNext
    PROVE  P!PTypeOK'
<1> USE DEF P!rows, P!history
<1>1. P!Actions \subseteq Requests
  BY ExecutionAssumption DEF P!ProxmoxAssumption
<1>2. held' \in [Callers -> SUBSET P!Facts]
  BY DEF P!PNext, P!Remember, P!PTypeOK, P!Holding
<1>3. ASSUME NEW a \in P!Actions, P!CreateAction(a)
      PROVE  P!PTypeOK'
  BY <1>1, <1>2, <1>3, RowMoves DEF P!CreateAction, P!PTypeOK
<1>4. ASSUME NEW a \in P!Actions, P!Decide(a)
      PROVE  P!PTypeOK'
  BY <1>1, <1>2, <1>4, RowMoves DEF P!Decide, P!PTypeOK
<1>5. ASSUME NEW w \in Windows, P!WindowLapses(w)
      PROVE  P!PTypeOK'
  BY <1>2, <1>5 DEF P!WindowLapses, P!PTypeOK, P!RowTypeOK
<1>6. ASSUME NEW c \in Callers
      PROVE  /\ Reads(c) => P!PTypeOK'
             /\ P!RecordOutcome(c) \/ P!GiveUp(c) => P!PTypeOK'
             /\ P!AnnounceClosed(c) => P!PTypeOK'
  <2>1. CASE Reads(c)
    BY <1>2, <2>1, ReadsLearn DEF Learns, P!PTypeOK, P!RowTypeOK
  <2>2. CASE P!RecordOutcome(c)
    <3>1. caller[c].id \in P!Actions
      BY <2>2 DEF P!RecordOutcome, P!At, IndIds
    <3> QED BY <1>2, <2>2, <3>1, Finished DEF P!RecordOutcome, P!PTypeOK, P!RowTypeOK
  <2>3. CASE P!GiveUp(c)
    <3>1. P!At(c, "answered") => caller[c].id \in P!Actions
      BY DEF P!At, IndIds, P!Executing
    <3> QED BY <1>2, <2>3, <3>1, Finished DEF P!GiveUp, P!PTypeOK, P!RowTypeOK
  <2>4. CASE P!AnnounceClosed(c)
    <3>1. caller[c].id \in Windows
      BY <2>4 DEF P!AnnounceClosed, P!At, IndIds
    <3> QED BY <1>2, <2>4, <3>1, Finished DEF P!AnnounceClosed, P!PTypeOK, P!RowTypeOK
  <2> QED BY <2>1, <2>2, <2>3, <2>4
<1>7. ASSUME NEW c \in Callers, P!Call(c)
      PROVE  P!PTypeOK'
  <2>1. caller[c].id \in P!Actions
    BY <1>7 DEF P!Call, P!At, IndIds, P!Executing
  <2>2. caller' \in [Callers -> P!CallerStates]
    BY <1>7, Proceeded DEF P!Call, P!CallerSteps
  <2>3. calls' \in [P!Actions -> Nat]
    BY <1>7, <2>1 DEF P!Call, P!PTypeOK
  <2>4. answered' \subseteq P!Actions /\ excused' \subseteq P!Actions
    BY <1>7, <2>1 DEF P!Call, P!PTypeOK
  <2> QED BY <1>2, <1>7, <2>2, <2>3, <2>4 DEF P!Call, P!PTypeOK, P!RowTypeOK
<1>8. ASSUME NEW c \in Callers, P!RecordSuccess(c)
      PROVE  P!PTypeOK'
  <2>1. caller[c].id \in P!Actions
    BY <1>8 DEF P!RecordSuccess, P!At, IndIds, P!Executing
  <2>2. P!RowTypeOK'
    BY <1>1, <1>8, <2>1, RowDone DEF P!RecordSuccess, P!PTypeOK, P!RowTypeOK
  <2>3. caller' \in [Callers -> P!CallerStates]
    BY <1>8, Finished DEF P!RecordSuccess
  <2>4. /\ action' \in [P!Actions -> {"absent", "pending", "succeeded", "failed"}]
        /\ excused' \subseteq P!Actions
    BY <1>8, <2>1 DEF P!RecordSuccess, P!PTypeOK
  <2> QED BY <1>2, <1>8, <2>2, <2>3, <2>4 DEF P!RecordSuccess, P!PTypeOK
<1>9. ASSUME NEW c \in Callers, P!RecordFailure(c)
      PROVE  P!PTypeOK'
  <2>1. caller[c].id \in P!Actions
    BY <1>9 DEF P!RecordFailure, IndIds, P!Executing
  <2> QED BY <1>2, <1>9, <2>1, Finished DEF P!RecordFailure, P!PTypeOK, P!RowTypeOK
<1>10. ASSUME NEW c \in Callers, NEW w \in Windows, P!InsertWindow(c, w)
       PROVE  P!PTypeOK'
  BY <1>2, <1>10, Finished
     DEF P!InsertWindow, P!PTypeOK, P!RowTypeOK, P!WindowStatuses
<1>11. ASSUME NEW c \in Callers, P!CloseWindow(c)
       PROVE  P!PTypeOK'
  <2>1. caller[c].id \in Windows
    BY <1>11 DEF P!CloseWindow, P!At, IndIds
  <2>2. window' \in [Windows -> P!WindowStatuses] /\ lapsed' \subseteq Windows
    BY <1>11, <2>1 DEF P!CloseWindow, P!Ends, P!PTypeOK, P!WindowStatuses
  <2>3. caller' \in [Callers -> P!CallerStates]
    BY <1>11, Proceeded DEF P!CloseWindow, P!CallerSteps
  <2> QED BY <1>2, <1>11, <2>2, <2>3 DEF P!CloseWindow, P!PTypeOK, P!RowTypeOK
<1>12. ASSUME NEW c \in Callers, NEW w \in Windows, P!ExpireWindow(c, w)
       PROVE  P!PTypeOK'
  <2>1. window' \in [Windows -> P!WindowStatuses] /\ lapsed' \subseteq Windows
    BY <1>12 DEF P!ExpireWindow, P!Ends, P!PTypeOK, P!WindowStatuses
  <2>2. caller' \in [Callers -> P!CallerStates]
    BY <1>12 DEF P!ExpireWindow, P!PTypeOK, P!CallerStates, P!CallerSteps
  <2> QED BY <1>2, <1>12, <2>1, <2>2 DEF P!ExpireWindow, P!PTypeOK, P!RowTypeOK
<1>13. ASSUME NEW c \in Callers, P!AnnounceExpired(c)
       PROVE  P!PTypeOK'
  <2>1. caller[c].id \in Windows
    BY <1>13 DEF P!AnnounceExpired, P!At, IndIds
  <2>2. caller' \in [Callers -> P!CallerStates]
    <3>1. caller' = [caller EXCEPT ![c] = [caller[c] EXCEPT !.step = "sweeping", !.id = NoId]]
      BY <1>13 DEF P!AnnounceExpired
    <3>2. caller[c] \in P!CallerStates
      BY DEF P!PTypeOK
    <3>3. [caller[c] EXCEPT !.step = "sweeping", !.id = NoId] \in P!CallerStates
      BY <3>2 DEF P!CallerStates, P!CallerSteps
    <3> QED BY <3>1, <3>3 DEF P!PTypeOK
  <2> QED BY <1>2, <1>13, <2>1, <2>2 DEF P!AnnounceExpired, P!PTypeOK, P!RowTypeOK
<1> QED
  BY <1>3, <1>4, <1>5, <1>6, <1>7, <1>8, <1>9, <1>10, <1>11, <1>12, <1>13, StepsSorted
     DEF P!PNext

-----------------------------------------------------------------------------
(* What a request is about, and what it has seen *)

\* Every step keeps IndIds.
LEMMA IdsPreserved ==
    ASSUME P!PTypeOK, IndIds, P!PSteps
    PROVE  IndIds'
<1> USE DEF P!rows, P!history, P!At, P!Executing
<1>1. ASSUME UNCHANGED <<caller, window, lapsed>>
      PROVE  IndIds'
  BY <1>1 DEF IndIds
<1>2. ASSUME NEW c \in Callers, UNCHANGED <<window, lapsed>>,
             \A d \in Callers \ {c} : caller'[d] = caller[d],
             caller'[c].step \in P!Executing \cup {"blocking", "ended"} =>
                caller'[c].id \in P!Actions,
             caller'[c].step \in {"closing", "closed", "expired"} => caller'[c].id \in Windows
      PROVE  IndIds'
  BY <1>2 DEF IndIds
<1>3. ASSUME NEW c \in Callers, Reads(c)
      PROVE  IndIds'
  <2>1. Learns(c)
    BY <1>3, ReadsLearn
  <2> QED BY <1>2, <2>1 DEF Learns
<1>4. ASSUME NEW c \in Callers,
             \/ P!RecordSuccess(c) \/ P!RecordFailure(c) \/ P!RecordOutcome(c)
             \/ P!GiveUp(c) \/ P!AnnounceClosed(c)
      PROVE  IndIds'
  BY <1>2, <1>4, Finished
     DEF P!RecordSuccess, P!RecordFailure, P!RecordOutcome, P!GiveUp, P!AnnounceClosed
<1>5. ASSUME NEW c \in Callers, P!Call(c)
      PROVE  IndIds'
  <2>1. P!Proceeds(c, "answered") \/ P!Proceeds(c, "erred")
    BY <1>5 DEF P!Call
  <2>2. /\ caller'[c].id = caller[c].id
        /\ \A d \in Callers \ {c} : caller'[d] = caller[d]
        /\ caller'[c].step \in {"answered", "erred"}
    BY <2>1, Proceeded DEF P!CallerSteps
  <2>3. caller[c].id \in P!Actions
    BY <1>5 DEF P!Call, IndIds
  <2> QED BY <1>2, <1>5, <2>2, <2>3 DEF P!Call
<1>6. ASSUME NEW a \in P!Actions, P!CreateAction(a) \/ P!Decide(a)
      PROVE  IndIds'
  BY <1>1, <1>6 DEF P!CreateAction, P!Decide
<1>7. ASSUME NEW w \in Windows, P!WindowLapses(w)
      PROVE  IndIds'
  BY <1>7 DEF P!WindowLapses, IndIds
<1>8. ASSUME NEW c \in Callers, NEW w \in Windows, P!InsertWindow(c, w)
      PROVE  IndIds'
  <2>1. /\ caller'[c].step = "idle"
        /\ \A d \in Callers \ {c} : caller'[d] = caller[d]
    BY <1>8, Finished DEF P!InsertWindow
  <2>2. \A v \in lapsed : window'[v] = "open"
    BY <1>8 DEF P!InsertWindow, P!PTypeOK, IndIds
  <2> QED BY <1>8, <2>1, <2>2 DEF P!InsertWindow, IndIds
<1>9. ASSUME NEW c \in Callers, P!CloseWindow(c)
      PROVE  IndIds'
  <2>1. /\ caller'[c].step = "closed" /\ caller'[c].id = caller[c].id
        /\ \A d \in Callers \ {c} : caller'[d] = caller[d]
    BY <1>9, Proceeded DEF P!CloseWindow, P!CallerSteps
  <2>2. caller[c].id \in Windows
    BY <1>9 DEF P!CloseWindow, IndIds
  <2>3. \A v \in lapsed' : window'[v] = "open"
    BY <1>9, <2>2 DEF P!CloseWindow, P!Ends, P!PTypeOK, IndIds
  <2> QED BY <2>1, <2>2, <2>3 DEF IndIds
<1>10. ASSUME NEW c \in Callers, NEW w \in Windows, P!ExpireWindow(c, w)
       PROVE  IndIds'
  <2>1. /\ caller'[c].step = "expired" /\ caller'[c].id = w
        /\ \A d \in Callers \ {c} : caller'[d] = caller[d]
    BY <1>10 DEF P!ExpireWindow, P!PTypeOK
  <2>2. \A v \in lapsed' : window'[v] = "open"
    BY <1>10 DEF P!ExpireWindow, P!Ends, P!PTypeOK, IndIds
  <2> QED BY <2>1, <2>2 DEF IndIds
<1>11. ASSUME NEW c \in Callers, P!AnnounceExpired(c)
       PROVE  IndIds'
  <2>1. /\ caller'[c].step = "sweeping"
        /\ \A d \in Callers \ {c} : caller'[d] = caller[d]
    BY <1>11 DEF P!AnnounceExpired, P!PTypeOK, P!CallerStates
  <2> QED BY <1>2, <1>11, <2>1 DEF P!AnnounceExpired
<1> QED
  BY <1>3, <1>4, <1>5, <1>6, <1>7, <1>8, <1>9, <1>10, <1>11, StepsSorted

\* Every step keeps IndHeld: what a request has seen is remembered.
LEMMA HeldPreserved ==
    ASSUME P!PTypeOK, P!PTypeOK', IndIds, IndHeld, P!PNext
    PROVE  IndHeld'
<1> USE DEF P!At, P!Executing
<1>1. \A c \in Callers :
        caller'[c].step \in P!Executing => held'[c] = held[c] \cup P!Holding(c)'
  BY DEF P!PNext, P!Remember
<1>2. ASSUME NEW c \in Callers,
             caller'[c].step \in {"windowed", "loaded"} \cup PastSteps
                => "window" \in held[c] \/ "window" \in P!Holding(c)',
             caller'[c].step \in PastSteps
                => "approval" \in held[c] \/ "approval" \in P!Holding(c)',
             caller'[c].step \in PastSteps \ {"verified"}
                => "approvers" \in held[c] \/ "approvers" \in P!Holding(c)'
      PROVE  /\ caller'[c].step \in {"windowed", "loaded"} \cup PastSteps => "window" \in held'[c]
             /\ caller'[c].step \in PastSteps => "approval" \in held'[c]
             /\ caller'[c].step \in PastSteps \ {"verified"} => "approvers" \in held'[c]
  BY <1>1, <1>2 DEF PastSteps
<1>3. ASSUME NEW c \in Callers,
             \/ caller'[c] = caller[c]
             \/ caller'[c].step \notin {"windowed", "loaded"} \cup PastSteps
             \/ caller[c].step = "cleared" /\ caller'[c].step \in {"answered", "erred"}
      PROVE  /\ caller'[c].step \in {"windowed", "loaded"} \cup PastSteps => "window" \in held'[c]
             /\ caller'[c].step \in PastSteps => "approval" \in held'[c]
             /\ caller'[c].step \in PastSteps \ {"verified"} => "approvers" \in held'[c]
  BY <1>1, <1>3 DEF PastSteps, IndHeld
<1>4. ASSUME NEW c \in Callers, Reads(c), NEW d \in Callers
      PROVE  /\ caller'[d].step \in {"windowed", "loaded"} \cup PastSteps => "window" \in held'[d]
             /\ caller'[d].step \in PastSteps => "approval" \in held'[d]
             /\ caller'[d].step \in PastSteps \ {"verified"} => "approvers" \in held'[d]
  <2>1. Learns(c)
    BY <1>4, ReadsLearn
  <2>2. CASE d # c
    BY <1>3, <2>1, <2>2 DEF Learns
  <2>3. CASE d = c
    <3>1. caller'[c].step = "windowed" => "window" \in P!Holding(c)'
      BY <2>1 DEF Learns, P!rows, P!ActiveMutationWindow, P!Holding, P!Facts
    <3>2. caller'[c].step = "loaded" => caller[c].step = "windowed"
      BY <2>1 DEF Learns
    <3>3. caller'[c].step = "verified" =>
            caller[c].step = "loaded" /\ "approval" \in P!Holding(c)'
      BY <2>1 DEF Learns, P!rows, P!Usable, P!Holding, P!Facts
    <3>4. caller'[c].step = "cleared" =>
            caller[c].step = "verified" /\ "approvers" \in P!Holding(c)'
      BY <2>1 DEF Learns, P!rows, P!MinApprovers, P!Holding, P!Facts
    <3>5. caller'[c].step \notin {"answered", "erred"}
      BY <2>1 DEF Learns
    <3> QED BY <1>2, <2>3, <3>1, <3>2, <3>3, <3>4, <3>5 DEF PastSteps, IndHeld
  <2> QED BY <2>2, <2>3
<1>5. ASSUME NEW c \in Callers, P!Call(c), NEW d \in Callers
      PROVE  \/ caller'[d] = caller[d]
             \/ caller[d].step = "cleared" /\ caller'[d].step \in {"answered", "erred"}
  <2>1. P!Proceeds(c, "answered") \/ P!Proceeds(c, "erred")
    BY <1>5 DEF P!Call
  <2>2. /\ \A e \in Callers \ {c} : caller'[e] = caller[e]
        /\ caller'[c].step \in {"answered", "erred"}
    BY <2>1, Proceeded DEF P!CallerSteps
  <2> QED BY <1>5, <2>2 DEF P!Call
<1>6. ASSUME NEW c \in Callers, NEW d \in Callers,
             \/ P!RecordSuccess(c) \/ P!RecordFailure(c) \/ P!RecordOutcome(c)
             \/ P!GiveUp(c) \/ P!AnnounceClosed(c)
             \/ \E w \in Windows : P!InsertWindow(c, w)
      PROVE  caller'[d] = caller[d] \/ caller'[d].step = "idle"
  <2>1. P!Finishes(c)
    BY <1>6 DEF P!RecordSuccess, P!RecordFailure, P!RecordOutcome, P!GiveUp,
                P!AnnounceClosed, P!InsertWindow
  <2> QED BY <2>1, Finished
<1>7. ASSUME NEW c \in Callers, NEW d \in Callers,
             \/ P!CloseWindow(c) \/ P!AnnounceExpired(c)
             \/ \E w \in Windows : P!ExpireWindow(c, w)
      PROVE  caller'[d] = caller[d] \/ caller'[d].step \in {"closed", "sweeping", "expired"}
  <2>1. CASE P!CloseWindow(c)
    BY <2>1, Proceeded DEF P!CloseWindow, P!CallerSteps
  <2>2. CASE P!AnnounceExpired(c)
    BY <2>2 DEF P!AnnounceExpired, P!PTypeOK, P!CallerStates
  <2>3. CASE \E w \in Windows : P!ExpireWindow(c, w)
    BY <2>3 DEF P!ExpireWindow, P!PTypeOK, P!CallerStates
  <2> QED BY <1>7, <2>1, <2>2, <2>3
<1>8. ASSUME NEW d \in Callers
      PROVE  /\ caller'[d].step \in {"windowed", "loaded"} \cup PastSteps => "window" \in held'[d]
             /\ caller'[d].step \in PastSteps => "approval" \in held'[d]
             /\ caller'[d].step \in PastSteps \ {"verified"} => "approvers" \in held'[d]
  <2>1. CASE \/ \E a \in P!Actions : P!CreateAction(a) \/ P!Decide(a)
             \/ \E w \in Windows : P!WindowLapses(w)
    <3>1. UNCHANGED caller
      BY <2>1 DEF P!CreateAction, P!Decide, P!WindowLapses
    <3> QED BY <1>3, <3>1
  <2>2. CASE \E c \in Callers : Reads(c)
    BY <1>4, <2>2
  <2>3. CASE \E c \in Callers : P!Call(c)
    BY <1>3, <1>5, <2>3
  <2>4. CASE \E c \in Callers :
             \/ P!RecordSuccess(c) \/ P!RecordFailure(c) \/ P!RecordOutcome(c)
             \/ P!GiveUp(c) \/ P!AnnounceClosed(c)
             \/ \E w \in Windows : P!InsertWindow(c, w)
    BY <1>3, <1>6, <2>4 DEF PastSteps
  <2>5. CASE \E c \in Callers :
             \/ P!CloseWindow(c) \/ P!AnnounceExpired(c)
             \/ \E w \in Windows : P!ExpireWindow(c, w)
    BY <1>3, <1>7, <2>5 DEF PastSteps
  <2> QED BY <2>1, <2>2, <2>3, <2>4, <2>5, StepsSorted DEF P!PNext
<1> QED BY <1>8 DEF IndHeld

-----------------------------------------------------------------------------
(* Calls, and what the tables say of them *)

\* What bears on IndCalls, but for the requests, is left alone.
SameCalls(a) ==
    /\ calls'[a] = calls[a]
    /\ a \in excused => a \in excused'
    /\ approval'[a].executed = approval[a].executed
    /\ action'[a] = action[a]
    /\ a \in answered' <=> a \in answered
    /\ a \in outcome' <=> a \in outcome

\* Every step keeps IndCalls.
LEMMA CallsPreserved ==
    ASSUME P!PTypeOK, IndIds, IndCalls, P!PSteps
    PROVE  IndCalls'
<1> USE DEF P!rows, P!history, P!At, PastSteps
<1>1. P!Actions \subseteq Requests
  BY ExecutionAssumption DEF P!ProxmoxAssumption
<1>2. ASSUME \A a \in P!Actions : SameCalls(a), NEW c \in Callers,
             \A d \in Callers \ {c} : caller'[d] = caller[d],
             caller[c].step # "answered" \/ caller[c].id \in excused' \/ caller' = caller,
             caller' = caller \/ caller'[c].step # "answered",
             caller' = caller \/ (caller'[c].step = "ended" =>
                caller'[c].id \in P!Actions /\ action[caller'[c].id] \in {"succeeded", "failed"}),
             caller' = caller \/ (caller'[c].step \in PastSteps =>
                /\ caller'[c].id = caller[c].id
                /\ \/ caller[c].step \in PastSteps
                   \/ caller[c].id \in P!Actions /\ ~approval[caller[c].id].executed)
      PROVE  IndCalls'
  <2>1. CASE caller' = caller
    BY <1>2, <2>1 DEF IndCalls, SameCalls, Past, IndIds, P!Executing
  <2>2. CASE caller' # caller
    <3>1. ASSUME NEW a \in P!Actions, a \notin excused'
          PROVE  /\ calls'[a] <= 1
                 /\ calls'[a] = 1 =>
                     \/ approval'[a].executed
                     \/ \E d \in Callers : caller'[d].step = "answered" /\ caller'[d].id = a
                 /\ approval'[a].executed => \A d \in Callers : ~Past(d, a)'
      <4>1. a \notin excused /\ SameCalls(a)
        BY <1>2, <3>1 DEF SameCalls
      <4>2. /\ calls[a] <= 1
            /\ calls[a] = 1 =>
                \/ approval[a].executed
                \/ \E d \in Callers : caller[d].step = "answered" /\ caller[d].id = a
            /\ approval[a].executed => \A d \in Callers : ~Past(d, a)
        BY <3>1, <4>1 DEF IndCalls
      <4>3. ASSUME NEW d \in Callers, caller[d].step = "answered" /\ caller[d].id = a
            PROVE  caller'[d] = caller[d]
        BY <1>2, <2>2, <3>1, <4>3
      <4>4. ASSUME approval[a].executed, NEW d \in Callers
            PROVE  ~Past(d, a)'
        <5>1. ~Past(d, a)
          BY <4>2, <4>4
        <5>2. CASE d # c
          BY <1>2, <5>1, <5>2 DEF Past
        <5>3. CASE d = c
          BY <1>2, <2>2, <4>4, <5>1, <5>3 DEF Past
        <5> QED BY <5>2, <5>3
      <4>5. calls'[a] <= 1
        BY <4>1, <4>2 DEF SameCalls
      <4>6. calls'[a] = 1 =>
              \/ approval'[a].executed
              \/ \E d \in Callers : caller'[d].step = "answered" /\ caller'[d].id = a
        BY <4>1, <4>2, <4>3 DEF SameCalls
      <4> QED BY <4>1, <4>4, <4>5, <4>6 DEF SameCalls
    <3>2. \A a \in P!Actions :
            /\ action'[a] = "succeeded" \/ approval'[a].executed => a \in answered'
            /\ a \in outcome' => action'[a] \in {"succeeded", "failed"}
      BY <1>2 DEF IndCalls, SameCalls
    <3>3. ASSUME NEW d \in Callers
          PROVE  /\ caller'[d].step = "answered" => caller'[d].id \in answered'
                 /\ caller'[d].step = "ended" =>
                        action'[caller'[d].id] \in {"succeeded", "failed"}
      <4>1. CASE d # c
        <5>1. caller[d].step \in {"answered", "ended"} => caller[d].id \in P!Actions
          BY DEF IndIds, P!Executing
        <5> QED BY <1>2, <4>1, <5>1 DEF IndCalls, SameCalls
      <4>2. CASE d = c
        BY <1>2, <2>2, <4>2 DEF SameCalls
      <4> QED BY <4>1, <4>2
    <3> QED BY <3>1, <3>2, <3>3 DEF IndCalls
  <2> QED BY <2>1, <2>2
<1>3. ASSUME NEW c \in Callers, Reads(c)
      PROVE  IndCalls'
  <2>1. Learns(c)
    BY <1>3, ReadsLearn
  <2>2. caller[c].step = "loaded" => caller[c].id \in P!Actions
    BY DEF IndIds, P!Executing
  <2>3. caller'[c].step \in PastSteps =>
            /\ caller'[c].id = caller[c].id
            /\ \/ caller[c].step \in PastSteps
               \/ caller[c].id \in P!Actions /\ ~approval[caller[c].id].executed
    BY <2>1, <2>2 DEF Learns, P!Usable
  <2>4. \A a \in P!Actions : SameCalls(a)
    BY <2>1 DEF Learns, SameCalls
  <2> QED BY <1>2, <2>1, <2>3, <2>4 DEF Learns, P!Executing
<1>4. ASSUME NEW c \in Callers, P!GiveUp(c) \/ P!AnnounceClosed(c)
      PROVE  IndCalls'
  <2>1. \A a \in P!Actions : SameCalls(a)
    BY <1>4 DEF P!GiveUp, P!AnnounceClosed, SameCalls
  <2>2. caller[c].step = "answered" => caller[c].id \in excused'
    BY <1>4 DEF P!GiveUp, P!AnnounceClosed
  <2> QED BY <1>2, <1>4, <2>1, <2>2, Finished DEF P!GiveUp, P!AnnounceClosed
<1>5. ASSUME NEW c \in Callers, NEW w \in Windows, P!InsertWindow(c, w) \/ P!ExpireWindow(c, w)
      PROVE  IndCalls'
  <2>1. \A a \in P!Actions : SameCalls(a)
    BY <1>5 DEF P!InsertWindow, P!ExpireWindow, SameCalls
  <2>2. /\ \A d \in Callers \ {c} : caller'[d] = caller[d]
        /\ caller'[c].step \in {"idle", "expired"}
    BY <1>5, Finished DEF P!InsertWindow, P!ExpireWindow, P!PTypeOK
  <2>3. caller[c].step # "answered"
    BY <1>5 DEF P!InsertWindow, P!ExpireWindow
  <2> QED BY <1>2, <2>1, <2>2, <2>3
<1>6. ASSUME NEW c \in Callers, P!CloseWindow(c) \/ P!AnnounceExpired(c)
      PROVE  IndCalls'
  <2>1. \A a \in P!Actions : SameCalls(a)
    BY <1>6 DEF P!CloseWindow, P!AnnounceExpired, SameCalls
  <2>2. /\ \A d \in Callers \ {c} : caller'[d] = caller[d]
        /\ caller'[c].step \in {"closed", "sweeping"}
    <3>1. CASE P!CloseWindow(c)
      BY <3>1, Proceeded DEF P!CloseWindow, P!CallerSteps
    <3>2. CASE P!AnnounceExpired(c)
      BY <3>2 DEF P!AnnounceExpired, P!PTypeOK, P!CallerStates
    <3> QED BY <1>6, <3>1, <3>2
  <2>3. caller[c].step # "answered"
    BY <1>6 DEF P!CloseWindow, P!AnnounceExpired
  <2> QED BY <1>2, <2>1, <2>2, <2>3
<1>7. ASSUME NEW a \in P!Actions, P!Decide(a)
      PROVE  IndCalls'
  <2>1. \A b \in P!Actions : SameCalls(b)
    BY <1>1, <1>7, RowMoves DEF P!Decide, P!PTypeOK, SameCalls
  <2>2. caller' = caller
    BY <1>7 DEF P!Decide
  <2> QED BY <1>2, <1>7, <2>1, <2>2 DEF P!Decide, IndCalls, SameCalls, Past, IndIds, P!Executing
<1>8. ASSUME NEW w \in Windows, P!WindowLapses(w)
      PROVE  IndCalls'
  BY <1>8 DEF P!WindowLapses, IndCalls, Past
<1>9. ASSUME NEW a \in P!Actions, P!CreateAction(a)
      PROVE  IndCalls'
  <2>1. \A r \in Requests : approval'[r].executed = approval[r].executed
    BY <1>1, <1>9, RowMoves DEF P!CreateAction, P!PTypeOK
  <2>2. /\ action[a] = "absent" /\ action'[a] = "pending"
        /\ \A b \in P!Actions \ {a} : action'[b] = action[b]
        /\ UNCHANGED <<caller, calls, excused, answered, outcome>>
    BY <1>9 DEF P!CreateAction, P!PTypeOK
  <2>3. \A d \in Callers : caller[d].step = "ended" => caller[d].id # a
    BY <2>2 DEF IndCalls
  <2>4. \A d \in Callers : caller[d].step = "ended" => caller[d].id \in P!Actions
    BY DEF IndIds
  <2> QED BY <1>1, <2>1, <2>2, <2>3, <2>4 DEF IndCalls, Past
<1>10. ASSUME NEW c \in Callers, P!RecordOutcome(c)
       PROVE  IndCalls'
  <2>1. /\ caller'[c].step = "idle"
        /\ \A d \in Callers \ {c} : caller'[d] = caller[d]
        /\ caller[c].step = "ended"
        /\ action[caller[c].id] \in {"succeeded", "failed"}
        /\ outcome' = outcome \cup {caller[c].id}
        /\ UNCHANGED <<approval, action, calls, excused, answered>>
    BY <1>10, Finished DEF P!RecordOutcome, IndCalls
  <2>2. \A d \in Callers : caller[d].step = "answered" <=> caller'[d].step = "answered"
    BY <2>1
  <2>3. \A d \in Callers : caller[d].step = "answered" => caller'[d] = caller[d]
    BY <2>1
  <2>4. \A d \in Callers, a \in P!Actions : Past(d, a)' => Past(d, a)
    BY <2>1 DEF Past
  <2>5. \A d \in Callers : caller'[d].step = "ended" => caller'[d] = caller[d]
    BY <2>1
  <2> QED BY <2>1, <2>2, <2>3, <2>4, <2>5 DEF IndCalls
<1>11. ASSUME NEW c \in Callers, P!RecordFailure(c)
       PROVE  IndCalls'
  <2>1. caller[c].id \in P!Actions
    BY <1>11 DEF P!RecordFailure, IndIds, P!Executing
  <2>2. /\ caller'[c].step = "idle"
        /\ \A d \in Callers \ {c} : caller'[d] = caller[d]
        /\ caller[c].step \in {"erred", "blocking"}
        /\ action'[caller[c].id] = "failed"
        /\ \A a \in P!Actions \ {caller[c].id} : action'[a] = action[a]
        /\ UNCHANGED <<approval, outcome, calls, excused, answered>>
    BY <1>11, <2>1, Finished DEF P!RecordFailure, P!PTypeOK
  <2>3. \A d \in Callers : caller[d].step = "answered" => caller'[d] = caller[d]
    BY <2>2
  <2>4. \A d \in Callers, a \in P!Actions : Past(d, a)' => Past(d, a)
    BY <2>2 DEF Past
  <2>5. \A d \in Callers : caller'[d].step \in {"answered", "ended"} =>
            caller'[d] = caller[d] /\ caller[d].id \in P!Actions
    BY <2>2 DEF IndIds, P!Executing
  <2>6. \A a \in P!Actions :
            /\ action'[a] = "succeeded" => action[a] = "succeeded"
            /\ action[a] \in {"succeeded", "failed"} => action'[a] \in {"succeeded", "failed"}
    BY <2>1, <2>2
  <2> QED BY <2>2, <2>3, <2>4, <2>5, <2>6 DEF IndCalls
<1>12. ASSUME NEW c \in Callers, P!RecordSuccess(c)
       PROVE  IndCalls'
  <2> DEFINE b == caller[c].id
  <2>1. b \in P!Actions /\ caller[c].step = "answered" /\ b \in answered
    BY <1>12 DEF P!RecordSuccess, IndIds, IndCalls, P!Executing
  <2>2. /\ caller'[c].step = "idle"
        /\ \A d \in Callers \ {c} : caller'[d] = caller[d]
        /\ action'[b] = "succeeded"
        /\ \A a \in P!Actions \ {b} : action'[a] = action[a]
        /\ UNCHANGED <<outcome, calls, answered>>
    BY <1>12, <2>1, Finished DEF P!RecordSuccess, P!PTypeOK
  <2>3. /\ b \notin excused' => approval'[b].executed
        /\ \A a \in P!Actions \ {b} : approval'[a] = approval[a]
    <3>1. CASE approval[b].status = "approved"
      BY <1>1, <1>12, <2>1, <3>1, RowDone DEF P!RecordSuccess, P!PTypeOK
    <3>2. CASE approval[b].status # "approved"
      BY <1>12, <2>1, <3>2 DEF P!RecordSuccess
    <3> QED BY <3>1, <3>2
  <2>4. /\ excused \subseteq excused'
        /\ \A a \in excused' : a = b \/ a \in excused
        /\ b \notin excused' => ~P!InFlight(c, b)
    BY <1>12 DEF P!RecordSuccess
  <2>5. \A d \in Callers, a \in P!Actions : Past(d, a)' => Past(d, a) /\ d # c
    BY <2>2 DEF Past
  <2>6. b \notin excused' =>
            \A d \in Callers : ~(caller'[d].id = b /\ caller'[d].step \in PastSteps)
    BY <2>1, <2>4, <2>5 DEF P!InFlight, Past
  <2>7. ASSUME NEW a \in P!Actions \ excused'
        PROVE  /\ calls'[a] <= 1
               /\ calls'[a] = 1 =>
                   \/ approval'[a].executed
                   \/ \E d \in Callers : caller'[d].step = "answered" /\ caller'[d].id = a
               /\ approval'[a].executed => \A d \in Callers : ~Past(d, a)'
    <3>1. CASE a = b
      <4>1. a \notin excused
        BY <2>4, <2>7
      <4>2. calls'[a] <= 1
        BY <2>2, <2>7, <4>1 DEF IndCalls
      <4>3. approval'[a].executed
        BY <2>3, <2>7, <3>1
      <4>4. \A d \in Callers : ~Past(d, a)'
        BY <2>6, <2>7, <3>1 DEF Past
      <4> QED BY <4>2, <4>3, <4>4
    <3>2. CASE a # b
      <4>1. \A d \in Callers :
                caller[d].step = "answered" /\ caller[d].id = a => caller'[d] = caller[d]
        BY <2>2, <3>2
      <4> QED BY <2>2, <2>3, <2>4, <2>5, <2>7, <3>2, <4>1 DEF IndCalls
    <3> QED BY <3>1, <3>2
  <2>8. ASSUME NEW a \in P!Actions
        PROVE  /\ action'[a] = "succeeded" \/ approval'[a].executed => a \in answered'
               /\ a \in outcome' => action'[a] \in {"succeeded", "failed"}
    <3>1. CASE a = b
      BY <2>1, <2>2, <3>1
    <3>2. CASE a # b
      BY <2>2, <2>3, <3>2 DEF IndCalls
    <3> QED BY <3>1, <3>2
  <2>9. ASSUME NEW d \in Callers
        PROVE  /\ caller'[d].step = "answered" => caller'[d].id \in answered'
               /\ caller'[d].step = "ended" =>
                    action'[caller'[d].id] \in {"succeeded", "failed"}
    <3>1. CASE d = c
      BY <2>2, <3>1
    <3>2. CASE d # c
      <4>1. caller[d].step = "ended" => caller[d].id \in P!Actions
        BY DEF IndIds
      <4> QED BY <2>2, <3>2, <4>1 DEF IndCalls
    <3> QED BY <3>1, <3>2
  <2> QED BY <2>7, <2>8, <2>9 DEF IndCalls
<1>13. ASSUME NEW c \in Callers, P!Call(c)
       PROVE  IndCalls'
  <2> DEFINE b == caller[c].id
  <2>1. b \in P!Actions /\ caller[c].step = "cleared" /\ Past(c, b)
    BY <1>13 DEF P!Call, IndIds, P!Executing, Past
  <2>2. /\ calls'[b] = calls[b] + 1 /\ calls[b] \in Nat
        /\ \A a \in P!Actions \ {b} : calls'[a] = calls[a]
        /\ UNCHANGED <<approval, action, outcome>>
    BY <1>13, <2>1 DEF P!Call, P!PTypeOK
  <2>3. P!Proceeds(c, "answered") \/ P!Proceeds(c, "erred")
    BY <1>13 DEF P!Call
  <2>4. /\ caller'[c].id = b
        /\ caller'[c].step \in {"answered", "erred"}
        /\ \A d \in Callers \ {c} : caller'[d] = caller[d]
    BY <2>3, Proceeded DEF P!CallerSteps
  <2>5. /\ caller'[c].step = "answered" => b \in answered'
        /\ answered \subseteq answered'
        /\ \A a \in answered' : a = b \/ a \in answered
        /\ excused \subseteq excused'
        /\ \A a \in excused' : a = b \/ a \in excused
        /\ b \notin excused' => caller'[c].step = "answered" /\ ~P!InFlight(c, b)
    <3>1. CASE P!Proceeds(c, "answered") /\ answered' = answered \cup {b}
                /\ excused' = IF P!InFlight(c, b) THEN excused \cup {b} ELSE excused
      <4>1. caller'[c].step = "answered"
        BY <3>1, Proceeded DEF P!CallerSteps
      <4> QED BY <3>1, <4>1
    <3>2. CASE P!Proceeds(c, "erred") /\ excused' = excused \cup {b} /\ UNCHANGED answered
      <4>1. caller'[c].step = "erred"
        BY <3>2, Proceeded DEF P!CallerSteps
      <4> QED BY <3>2, <4>1
    <3> QED BY <1>13, <3>1, <3>2 DEF P!Call
  <2>6. \A d \in Callers, a \in P!Actions : Past(d, a)' => Past(d, a)
    BY <2>1, <2>4 DEF Past
  <2>7. ASSUME b \notin excused'
        PROVE  calls[b] = 0
    <3>1. b \notin excused
      BY <2>5, <2>7
    <3>2. ~approval[b].executed
      BY <2>1, <3>1 DEF IndCalls
    <3>3. ~ \E d \in Callers : caller[d].step = "answered" /\ caller[d].id = b
      BY <2>1, <2>5, <2>7 DEF P!InFlight
    <3>4. calls[b] <= 1 /\ calls[b] # 1
      BY <2>1, <3>1, <3>2, <3>3 DEF IndCalls
    <3> QED BY <2>2, <3>4
  <2>8. ASSUME NEW a \in P!Actions \ excused'
        PROVE  /\ calls'[a] <= 1
               /\ calls'[a] = 1 =>
                   \/ approval'[a].executed
                   \/ \E d \in Callers : caller'[d].step = "answered" /\ caller'[d].id = a
               /\ approval'[a].executed => \A d \in Callers : ~Past(d, a)'
    <3>1. CASE a = b
      <4>1. calls'[a] = 1
        BY <2>2, <2>7, <2>8, <3>1
      <4>2. caller'[c].step = "answered" /\ caller'[c].id = a
        BY <2>4, <2>5, <2>8, <3>1
      <4>3. ~approval'[a].executed
        BY <2>1, <2>2, <2>5, <2>8, <3>1 DEF IndCalls
      <4> QED BY <4>1, <4>2, <4>3
    <3>2. CASE a # b
      <4>1. \A d \in Callers :
                caller[d].step = "answered" /\ caller[d].id = a => caller'[d] = caller[d]
        BY <2>1, <2>4, <3>2
      <4> QED BY <2>2, <2>5, <2>6, <2>8, <3>2, <4>1 DEF IndCalls
    <3> QED BY <3>1, <3>2
  <2>9. \A a \in P!Actions :
            /\ action'[a] = "succeeded" \/ approval'[a].executed => a \in answered'
            /\ a \in outcome' => action'[a] \in {"succeeded", "failed"}
    BY <2>2, <2>5 DEF IndCalls
  <2>10. ASSUME NEW d \in Callers
         PROVE  /\ caller'[d].step = "answered" => caller'[d].id \in answered'
                /\ caller'[d].step = "ended" =>
                     action'[caller'[d].id] \in {"succeeded", "failed"}
    <3>1. CASE d = c
      BY <2>4, <2>5, <3>1
    <3>2. CASE d # c
      BY <2>2, <2>4, <2>5, <3>2 DEF IndCalls
    <3> QED BY <3>1, <3>2
  <2> QED BY <2>8, <2>9, <2>10 DEF IndCalls
<1> QED
  BY <1>3, <1>4, <1>5, <1>6, <1>7, <1>8, <1>9, <1>10, <1>11, <1>12, <1>13, StepsSorted

-----------------------------------------------------------------------------
(* Windows *)

\* What bears on the windows is left alone: no request moves but c, and only to
\* where the table of windows lets it.
LEMMA WindowsStay ==
    ASSUME P!PTypeOK, IndWindows, NEW c \in Callers,
           UNCHANGED <<window, ended, crowded>>,
           \A d \in Callers \ {c} : caller'[d] = caller[d],
           caller'[c].step = "opening" => \A w \in Windows : window[w] # "open",
           caller'[c].step = "closing" => window[caller'[c].id] # "absent",
           caller'[c].step \notin {"closed", "expired"},
           \A w \in caller'[c].todo : window[w] # "absent"
    PROVE  IndWindows'
BY DEF IndWindows, P!At

\* A window that has ended, or been found so, is still there, and over.
LEMMA WindowEnds ==
    ASSUME P!PTypeOK, IndWindows, NEW w \in Windows, window[w] # "absent",
           NEW status \in {"closed", "expired"}, P!Ends(w, status)
    PROVE  /\ window'[w] \in {"closed", "expired"}
           /\ \A v \in Windows :
                /\ window'[v] = "open" => window[v] = "open"
                /\ window[v] # "absent" => window'[v] # "absent"
                /\ window[v] \in {"closed", "expired"} => window'[v] \in {"closed", "expired"}
BY DEF P!Ends, P!PTypeOK, P!WindowStatuses

\* Every step keeps IndWindows.
LEMMA WindowsPreserved ==
    ASSUME P!PTypeOK, IndIds, IndWindows, P!PSteps
    PROVE  IndWindows'
<1> USE DEF P!rows, P!history, P!At
<1>1. \A c \in Callers : caller[c].todo \subseteq Windows
  BY DEF P!PTypeOK, P!CallerStates
<1>2. ASSUME NEW c \in Callers, Reads(c)
      PROVE  IndWindows'
  <2>1. Learns(c)
    BY <1>2, ReadsLearn
  <2>2. \A w \in caller'[c].todo : window[w] # "absent"
    BY <2>1 DEF Learns, IndWindows, IndIds
  <2> QED BY <2>1, <2>2, WindowsStay DEF Learns
<1>3. ASSUME NEW c \in Callers,
             \/ P!RecordSuccess(c) \/ P!RecordFailure(c) \/ P!RecordOutcome(c) \/ P!GiveUp(c)
      PROVE  IndWindows'
  BY <1>3, Finished, WindowsStay
     DEF P!RecordSuccess, P!RecordFailure, P!RecordOutcome, P!GiveUp
<1>4. ASSUME NEW c \in Callers, P!Call(c)
      PROVE  IndWindows'
  <2>1. P!Proceeds(c, "answered") \/ P!Proceeds(c, "erred")
    BY <1>4 DEF P!Call
  <2>2. /\ caller'[c].todo = caller[c].todo
        /\ caller'[c].step \in {"answered", "erred"}
        /\ \A d \in Callers \ {c} : caller'[d] = caller[d]
    BY <2>1, Proceeded DEF P!CallerSteps
  <2>3. \A w \in caller'[c].todo : window[w] # "absent"
    BY <2>2 DEF IndWindows
  <2> QED BY <1>4, <2>2, <2>3, WindowsStay DEF P!Call
<1>5. ASSUME \/ \E a \in P!Actions : P!CreateAction(a) \/ P!Decide(a)
             \/ \E w \in Windows : P!WindowLapses(w)
      PROVE  IndWindows'
  <2>1. UNCHANGED <<caller, window, ended, crowded>>
    BY <1>5 DEF P!CreateAction, P!Decide, P!WindowLapses
  <2> QED BY <2>1 DEF IndWindows
<1>6. ASSUME NEW c \in Callers, P!AnnounceClosed(c)
      PROVE  IndWindows'
  <2>1. window[caller[c].id] \in {"closed", "expired"}
    BY <1>6 DEF P!AnnounceClosed, IndWindows
  <2>2. /\ caller'[c].step = "idle" /\ caller'[c].todo = {}
        /\ \A d \in Callers \ {c} : caller'[d] = caller[d]
    BY <1>6, Finished DEF P!AnnounceClosed
  <2> QED BY <1>6, <2>1, <2>2 DEF P!AnnounceClosed, IndWindows
<1>7. ASSUME NEW c \in Callers, P!AnnounceExpired(c)
      PROVE  IndWindows'
  <2>1. window[caller[c].id] \in {"closed", "expired"}
    BY <1>7 DEF P!AnnounceExpired, IndWindows
  <2>2. /\ caller'[c].step = "sweeping" /\ caller'[c].todo = caller[c].todo
        /\ \A d \in Callers \ {c} : caller'[d] = caller[d]
    BY <1>7 DEF P!AnnounceExpired, P!PTypeOK, P!CallerStates
  <2>3. /\ ended' = ended \cup {caller[c].id}
        /\ UNCHANGED <<window, crowded>>
    BY <1>7 DEF P!AnnounceExpired
  <2>4. ASSUME NEW d \in Callers
        PROVE  /\ caller'[d].step = "opening" => caller[d].step = "opening"
               /\ caller'[d].step = "closing" => window[caller'[d].id] # "absent"
               /\ caller'[d].step \in {"closed", "expired"} =>
                        window[caller'[d].id] \in {"closed", "expired"}
               /\ \A v \in caller'[d].todo : window[v] # "absent"
    BY <2>2 DEF IndWindows
  <2> QED BY <2>1, <2>3, <2>4 DEF IndWindows
<1>8. ASSUME NEW c \in Callers, NEW w \in Windows, P!InsertWindow(c, w)
      PROVE  IndWindows'
  <2>1. /\ caller'[c].step = "idle" /\ caller'[c].todo = {}
        /\ \A d \in Callers \ {c} : caller'[d] = caller[d]
    BY <1>8, Finished DEF P!InsertWindow
  <2>2. /\ window[w] = "absent" /\ window'[w] = "open"
        /\ \A v \in Windows \ {w} : window'[v] = window[v]
        /\ caller[c].step = "opening"
        /\ crowded' = (crowded \/ P!Opening(c) # {})
        /\ ended' = ended
    BY <1>8 DEF P!InsertWindow, P!PTypeOK
  <2>3. ASSUME ~crowded'
        PROVE  /\ \A v \in Windows : window[v] # "open"
               /\ \A d \in Callers : caller'[d].step # "opening"
    <3>1. ~crowded
      BY <2>2, <2>3
    <3>2. P!Opening(c) = {}
      BY <2>2, <2>3
    <3>3. \A v \in Windows : window[v] # "open"
      BY <2>2, <3>1 DEF IndWindows
    <3>4. \A d \in Callers \ {c} : caller[d].step # "opening"
      BY <3>2 DEF P!Opening
    <3> QED BY <2>1, <3>3, <3>4
  <2>4. ASSUME ~crowded', NEW u \in Windows, NEW v \in Windows,
               window'[u] = "open", window'[v] = "open"
        PROVE  u = v
    BY <2>2, <2>3, <2>4
  <2>5. \A v \in ended' : window'[v] \in {"closed", "expired"}
    BY <2>2 DEF IndWindows, P!PTypeOK
  <2>6. ASSUME NEW d \in Callers
        PROVE  /\ caller'[d].step = "closing" => window'[caller'[d].id] # "absent"
               /\ caller'[d].step \in {"closed", "expired"} =>
                        window'[caller'[d].id] \in {"closed", "expired"}
               /\ \A v \in caller'[d].todo : window'[v] # "absent"
    <3>1. CASE d = c
      BY <2>1, <3>1
    <3>2. CASE d # c
      <4>1. caller'[d] = caller[d]
        BY <2>1, <3>2
      <4>2. caller[d].step \in {"closing", "closed", "expired"} => caller[d].id \in Windows
        BY DEF IndIds
      <4> QED BY <1>1, <2>2, <4>1, <4>2 DEF IndWindows
    <3> QED BY <3>1, <3>2
  <2> QED BY <2>3, <2>4, <2>5, <2>6 DEF IndWindows
<1>9. ASSUME NEW c \in Callers, NEW w \in Windows, window[w] # "absent",
             NEW status \in {"closed", "expired"}, P!Ends(w, status),
             caller'[c].step \in {"closed", "expired"}, caller'[c].id = w,
             caller'[c].todo \subseteq caller[c].todo,
             \A d \in Callers \ {c} : caller'[d] = caller[d],
             UNCHANGED <<ended, crowded>>
      PROVE  IndWindows'
  <2>1. /\ window'[w] \in {"closed", "expired"}
        /\ \A v \in Windows :
             /\ window'[v] = "open" => window[v] = "open"
             /\ window[v] # "absent" => window'[v] # "absent"
             /\ window[v] \in {"closed", "expired"} => window'[v] \in {"closed", "expired"}
    BY <1>9, WindowEnds
  <2>2. ASSUME ~crowded'
        PROVE  /\ \A u, v \in Windows : window'[u] = "open" /\ window'[v] = "open" => u = v
               /\ (\E d \in Callers : caller'[d].step = "opening") =>
                    \A v \in Windows : window'[v] # "open"
    BY <1>9, <2>1, <2>2 DEF IndWindows
  <2>3. \A v \in ended' : window'[v] \in {"closed", "expired"}
    BY <1>9, <2>1 DEF IndWindows, P!PTypeOK
  <2>4. ASSUME NEW d \in Callers
        PROVE  /\ caller'[d].step = "closing" => window'[caller'[d].id] # "absent"
               /\ caller'[d].step \in {"closed", "expired"} =>
                        window'[caller'[d].id] \in {"closed", "expired"}
               /\ \A v \in caller'[d].todo : window'[v] # "absent"
    <3>1. CASE d = c
      BY <1>1, <1>9, <2>1, <3>1 DEF IndWindows
    <3>2. CASE d # c
      <4>1. caller'[d] = caller[d]
        BY <1>9, <3>2
      <4>2. caller[d].step \in {"closing", "closed", "expired"} => caller[d].id \in Windows
        BY DEF IndIds
      <4> QED BY <1>1, <2>1, <4>1, <4>2 DEF IndWindows
    <3> QED BY <3>1, <3>2
  <2> QED BY <2>2, <2>3, <2>4 DEF IndWindows
<1>10. ASSUME NEW c \in Callers, P!CloseWindow(c)
       PROVE  IndWindows'
  <2>1. /\ caller'[c].step = "closed" /\ caller'[c].id = caller[c].id
        /\ caller'[c].todo = caller[c].todo
        /\ \A d \in Callers \ {c} : caller'[d] = caller[d]
    BY <1>10, Proceeded DEF P!CloseWindow, P!CallerSteps
  <2>2. caller[c].id \in Windows /\ window[caller[c].id] # "absent"
    BY <1>10 DEF P!CloseWindow, IndIds, IndWindows
  <2> QED BY <1>9, <1>10, <2>1, <2>2 DEF P!CloseWindow
<1>11. ASSUME NEW c \in Callers, NEW w \in Windows, P!ExpireWindow(c, w)
       PROVE  IndWindows'
  <2>1. /\ caller'[c].step = "expired" /\ caller'[c].id = w
        /\ caller'[c].todo \subseteq caller[c].todo
        /\ \A d \in Callers \ {c} : caller'[d] = caller[d]
    BY <1>11 DEF P!ExpireWindow, P!PTypeOK
  <2>2. window[w] # "absent"
    BY <1>11 DEF P!ExpireWindow, IndWindows
  <2> QED BY <1>9, <1>11, <2>1, <2>2 DEF P!ExpireWindow
<1> QED
  BY <1>2, <1>3, <1>4, <1>5, <1>6, <1>7, <1>8, <1>10, <1>11, StepsSorted

-----------------------------------------------------------------------------
(* The invariant of the actions on Proxmox *)

\* It holds before anything was asked for, ...
LEMMA ProxmoxInit == P!PInit => ProxmoxInv
<1> SUFFICES ASSUME P!PInit
             PROVE  ProxmoxInv
  OBVIOUS
<1>1. P!Free \in P!CallerStates /\ P!AbsentRow \in P!Rows
  BY DEF P!Free, P!CallerStates, P!CallerSteps, P!AbsentRow, P!Rows, P!RowStatuses
<1>2. P!PTypeOK
  BY <1>1 DEF P!PInit, P!RowInit, P!PTypeOK, P!RowTypeOK, P!WindowStatuses
<1>3. \A c \in Callers : caller[c].step = "idle" /\ caller[c].todo = {}
  BY DEF P!PInit, P!Free
<1>4. IndIds /\ IndHeld
  BY <1>3 DEF P!PInit, IndIds, IndHeld, PastSteps, P!Executing
<1>5. IndCalls
  <2>1. \A r \in Requests : ~approval[r].executed
    BY DEF P!PInit, P!RowInit, P!AbsentRow
  <2>2. P!Actions \subseteq Requests
    BY ExecutionAssumption DEF P!ProxmoxAssumption
  <2> QED BY <1>3, <2>1, <2>2 DEF P!PInit, IndCalls, P!At
<1>6. IndWindows
  BY <1>3 DEF P!PInit, IndWindows, P!At
<1> QED BY <1>2, <1>4, <1>5, <1>6 DEF ProxmoxInv

\* ... every step of the component keeps it, ...
LEMMA ProxmoxStep == ProxmoxInv /\ P!PNext => ProxmoxInv'
<1> SUFFICES ASSUME ProxmoxInv, P!PNext
             PROVE  ProxmoxInv'
  OBVIOUS
<1>1. P!PTypeOK /\ IndIds /\ IndHeld /\ IndCalls /\ IndWindows /\ P!PSteps
  BY DEF ProxmoxInv, P!PNext
<1>2. P!PTypeOK'
  BY <1>1, ProxmoxTypes
<1>3. IndIds' /\ IndCalls' /\ IndWindows'
  BY <1>1, IdsPreserved, CallsPreserved, WindowsPreserved
<1>4. IndHeld'
  BY <1>1, <1>2, HeldPreserved
<1> QED BY <1>2, <1>3, <1>4 DEF ProxmoxInv

\* ... and so does a step of another one.
LEMMA ProxmoxSpared ==
    ASSUME ProxmoxInv, UNCHANGED proxmox, P!RowTypeOK',
           \A a \in P!Actions : approval'[a] = approval[a]
    PROVE  ProxmoxInv'
<1> USE DEF proxmox
<1>1. P!PTypeOK'
  BY DEF ProxmoxInv, P!PTypeOK
<1>2. IndIds' /\ IndHeld' /\ IndWindows'
  BY DEF ProxmoxInv, IndIds, IndHeld, IndWindows, P!At
<1>3. IndCalls'
  BY DEF ProxmoxInv, IndCalls, Past, P!At
<1> QED BY <1>1, <1>2, <1>3 DEF ProxmoxInv

-----------------------------------------------------------------------------
(* The tool gateway: the inductive invariant *)

GatewayTypes ==
    /\ P!RowTypeOK
    /\ intention \in [Intentions -> {"absent", "proposed", "executed", "blocked"}]
    /\ effects \in [Intentions -> SUBSET {"succeeded", "refused"}]
    /\ server \in [Servers -> G!Jobs]
    /\ \A s \in Servers : ~G!At(s, "idle") => server[s].intention \in Intentions
    /\ used \in [G!ToolRequests -> Nat]
    /\ contested \subseteq G!ToolRequests

\* A usable row has its approver, and so has one that a request may use; unless
\* its use is contested, a row in use is approved and unused, and one that was
\* used says so and is in use no more.
IndUse ==
    \A r \in G!ToolRequests :
        /\ approval[r].status = "approved" \/ used[r] >= 1 \/ G!InUse(r) # {} =>
            approval[r].approvers >= 1
        /\ approval[r].executed => used[r] >= 1
        /\ r \notin contested =>
            /\ G!InUse(r) # {} => used[r] = 0 /\ approval[r].status = "approved"
            /\ used[r] = 0 \/ (used[r] = 1 /\ approval[r].executed)

\* An intention's status has its effect on record.
IndEffects ==
    \A i \in Intentions :
        /\ intention[i] = "executed" => "succeeded" \in effects[i]
        /\ intention[i] = "blocked" => "refused" \in effects[i]

GatewayInv == GatewayTypes /\ IndUse /\ IndEffects

-----------------------------------------------------------------------------
(* Steps of the gateway *)

\* The rows that the components speak of are the same ones.
LEMMA SameRows ==
    /\ G!RowInit <=> P!RowInit
    /\ \A r \in Requests :
        /\ G!RowRequested(r) <=> P!RowRequested(r)
        /\ G!RowAutoApproved(r) <=> P!RowAutoApproved(r)
        /\ G!RowDecided(r) <=> P!RowDecided(r)
        /\ G!RowExecuted(r) <=> P!RowExecuted(r)
        /\ G!Usable(r) <=> P!Usable(r)
BY DEF G!RowInit, P!RowInit, G!AbsentRow, P!AbsentRow, G!RowRequested, P!RowRequested,
       G!RowAutoApproved, P!RowAutoApproved,
       G!RowDecided, P!RowDecided, G!RowApproved, P!RowApproved, G!RowRefused, P!RowRefused,
       G!RowOverdue, P!RowOverdue, G!RowExecuted, P!RowExecuted, G!Usable, P!Usable

\* No decision takes an approver away, and none is needed for what was approved.
LEMMA ApproversGrow ==
    ASSUME P!RowTypeOK, NEW r \in Requests,
           P!RowRequested(r) \/ G!RowAutoApproved(r) \/ P!RowDecided(r)
    PROVE  /\ P!RowTypeOK'
           /\ \A q \in Requests \ {r} : approval'[q] = approval[q]
           /\ approval'[r].executed = approval[r].executed
           /\ approval[r].approvers >= 1 => approval'[r].approvers >= 1
           /\ approval'[r].status = "approved" =>
                approval[r].status = "approved" \/ approval'[r].approvers >= 1
<1> USE DEF P!RowTypeOK
<1>1. approval[r] \in P!Rows /\ approval[r].approvers \in Nat
  BY DEF P!Rows
<1>2. CASE P!RowRequested(r)
  BY <1>1, <1>2 DEF P!RowRequested, P!Rows, P!RowStatuses
<1>3. CASE G!RowAutoApproved(r)
  <2>1. approval' = [approval EXCEPT ![r] =
            [approval[r] EXCEPT !.status = "approved", !.approvers = 1]]
    BY <1>3 DEF G!RowAutoApproved
  <2>2. [approval[r] EXCEPT !.status = "approved", !.approvers = 1] \in P!Rows
    BY <1>1 DEF P!Rows, P!RowStatuses
  <2>3. /\ [approval[r] EXCEPT !.status = "approved", !.approvers = 1].executed
                = approval[r].executed
        /\ [approval[r] EXCEPT !.status = "approved", !.approvers = 1].approvers = 1
    BY <1>1 DEF P!Rows
  <2> QED BY <2>1, <2>2, <2>3
<1>4. CASE P!RowApproved(r)
  <2>1. PICK s \in P!RowStatuses :
            approval' = [approval EXCEPT ![r].status = s, ![r].approvers = @ + 1]
    BY <1>1, <1>4 DEF P!RowApproved, P!Rows, P!RowStatuses
  <2>2. PICK n \in Nat : n = approval[r].approvers + 1
    BY <1>1
  <2>3. approval' = [approval EXCEPT ![r] =
            [approval[r] EXCEPT !.status = s, !.approvers = n]]
    BY <2>1, <2>2
  <2>4. [approval[r] EXCEPT !.status = s, !.approvers = n] \in P!Rows
    BY <1>1 DEF P!Rows
  <2>5. [approval[r] EXCEPT !.status = s, !.approvers = n].executed = approval[r].executed
    BY <1>1 DEF P!Rows
  <2>6. [approval[r] EXCEPT !.status = s, !.approvers = n].approvers = n
    BY <1>1 DEF P!Rows
  <2>7. n >= 1
    BY <1>1, <2>2
  <2>8. approval'[r] = [approval[r] EXCEPT !.status = s, !.approvers = n]
    BY <2>3
  <2>9. approval' \in [Requests -> P!Rows] /\ \A q \in Requests \ {r} : approval'[q] = approval[q]
    BY <2>3, <2>4
  <2> QED BY <2>5, <2>6, <2>7, <2>8, <2>9
<1>5. CASE P!RowRefused(r)
  BY <1>1, <1>5 DEF P!RowRefused, P!Rows, P!RowStatuses
<1>6. CASE P!RowOverdue(r)
  BY <1>1, <1>6 DEF P!RowOverdue, P!Rows, P!RowStatuses
<1> QED BY <1>2, <1>3, <1>4, <1>5, <1>6 DEF P!RowDecided

\* The steps of a request to the gateway that only read, ...
Asks(s) ==
    \/ \E a \in Agents, t \in Tools, rank \in Levels, i \in Intentions :
        \E r \in G!ToolRequests \cup {NoId} : G!BeginTool(s, a, t, rank, i, r)
    \/ G!CheckAgent(s)
    \/ G!CheckGrant(s)
    \/ G!CheckVerified(s)
    \/ G!Deny(s)
    \/ G!GiveUpTool(s)

\* ... and what it knows after one of them: if it may use an approval, that this
\* is usable.
Hears(s) ==
    /\ UNCHANGED G!gvars
    /\ server' \in [Servers -> G!Jobs]
    /\ \A z \in Servers \ {s} : server'[z] = server[z]
    /\ server'[s].step # "idle" => server'[s].intention \in Intentions
    /\ server'[s].step = "allowed" /\ server'[s].request \in G!ToolRequests =>
        P!Usable(server'[s].request)

\* A request that looks at a usable approval, or at none, knows as much.
LEMMA AsksHear ==
    ASSUME GatewayTypes, NEW s \in Servers, Asks(s)
    PROVE  Hears(s)
<1> USE DEF G!At
<1>1. server[s] \in G!Jobs /\ server \in [Servers -> G!Jobs]
  BY DEF GatewayTypes
<1>2. NoId \notin G!ToolRequests /\ G!ToolRequests \subseteq Requests /\ Levels \subseteq 0..5
  BY ExecutionAssumption DEF G!GatewayAssumption, G!RegistryAssumption
<1>3. ASSUME NEW step \in {"known", "granted", "allowed", "denied"},
             G!Proceeds(s, step), server[s].step # "idle"
      PROVE  /\ server' \in [Servers -> G!Jobs]
             /\ \A z \in Servers \ {s} : server'[z] = server[z]
             /\ server'[s].step = step
             /\ server'[s].request = server[s].request
             /\ server'[s].intention \in Intentions
  BY <1>1, <1>3 DEF G!Proceeds, G!Jobs, GatewayTypes
<1>4. ASSUME NEW a \in Agents, NEW t \in Tools, NEW rank \in Levels, NEW i \in Intentions,
             NEW r \in G!ToolRequests \cup {NoId}, G!BeginTool(s, a, t, rank, i, r)
      PROVE  Hears(s)
  BY <1>1, <1>2, <1>4 DEF G!BeginTool, Hears, G!Jobs
<1>5. CASE G!CheckAgent(s)
  BY <1>3, <1>5 DEF G!CheckAgent, Hears
<1>6. CASE G!CheckGrant(s)
  <2>1. CASE G!Proceeds(s, "granted")
    BY <1>3, <1>6, <2>1 DEF G!CheckGrant, Hears
  <2>2. CASE server' = [server EXCEPT ![s].step = "allowed", ![s].request = NoId]
    <3>1. server' = [server EXCEPT ![s] =
            [server[s] EXCEPT !.step = "allowed", !.request = NoId]]
      BY <2>2
    <3>2. [server[s] EXCEPT !.step = "allowed", !.request = NoId] \in G!Jobs
      BY <1>1 DEF G!Jobs
    <3>3. server' \in [Servers -> G!Jobs] /\ \A z \in Servers \ {s} : server'[z] = server[z]
      BY <1>1, <3>1, <3>2
    <3>4. server'[s].request = NoId /\ server'[s].intention = server[s].intention
      BY <1>1, <3>1 DEF G!Jobs
    <3> QED BY <1>2, <1>6, <3>3, <3>4 DEF G!CheckGrant, Hears, GatewayTypes
  <2> QED BY <1>6, <2>1, <2>2 DEF G!CheckGrant
<1>7. CASE G!CheckVerified(s)
  BY <1>2, <1>3, <1>7, SameRows DEF G!CheckVerified, G!Verified, Hears
<1>8. CASE G!Deny(s)
  BY <1>3, <1>8 DEF G!Deny, Hears
<1>9. CASE G!GiveUpTool(s)
  BY <1>1, <1>9 DEF G!GiveUpTool, G!Frees, G!NoJob, G!Jobs, Hears
<1> QED BY <1>4, <1>5, <1>6, <1>7, <1>8, <1>9 DEF Asks

\* A step that keeps the rows, and brings no request into use, keeps IndUse.
LEMMA UseKept ==
    ASSUME IndUse, UNCHANGED <<approval, used, contested>>,
           \A r \in G!ToolRequests : G!InUse(r)' \subseteq G!InUse(r)
    PROVE  IndUse'
BY DEF IndUse

\* Every step of the component keeps its invariant: using a tool is the one
\* that marks an approval, and deciding about one contests its use.
LEMMA GatewayStep == GatewayInv /\ G!GNext => GatewayInv'
<1> SUFFICES ASSUME GatewayInv, G!GNext
             PROVE  GatewayInv'
  OBVIOUS
<1> USE DEF G!gvars, G!identities
<1>1. GatewayTypes /\ IndUse /\ IndEffects
  BY DEF GatewayInv
<1>2. NoId \notin G!ToolRequests /\ G!ToolRequests \subseteq Requests
  BY ExecutionAssumption DEF G!GatewayAssumption
<1>3. ASSUME NEW s \in Servers, Asks(s)
      PROVE  GatewayInv'
  <2>1. Hears(s)
    BY <1>1, <1>3, AsksHear
  <2>2. GatewayTypes'
    BY <1>1, <2>1 DEF Hears, GatewayTypes, G!At, P!RowTypeOK
  <2>3. ASSUME NEW r \in G!ToolRequests
        PROVE  G!InUse(r)' # {} =>
                G!InUse(r) # {} \/ (approval[r].status = "approved" /\ ~approval[r].executed)
    <3>1. ASSUME NEW z \in Servers, server'[z].step = "allowed", server'[z].request = r
          PROVE  G!InUse(r) # {} \/ (approval[r].status = "approved" /\ ~approval[r].executed)
      <4>1. CASE z = s
        BY <2>1, <3>1, <4>1 DEF Hears, P!Usable
      <4>2. CASE z # s
        BY <2>1, <3>1, <4>2 DEF Hears, G!InUse
      <4> QED BY <4>1, <4>2
    <3> QED BY <3>1 DEF G!InUse
  <2>4. IndUse'
    <3>1. UNCHANGED <<approval, used, contested>>
      BY <2>1 DEF Hears
    <3> QED BY <1>1, <2>3, <3>1 DEF IndUse
  <2>5. IndEffects'
    BY <1>1, <2>1 DEF Hears, IndEffects
  <2> QED BY <2>2, <2>4, <2>5 DEF GatewayInv
<1>4. ASSUME UNCHANGED <<approval, intention, effects, used, contested, server>>
      PROVE  GatewayInv'
  BY <1>1, <1>4 DEF GatewayInv, GatewayTypes, IndUse, IndEffects, G!InUse, G!At, P!RowTypeOK
<1>5. ASSUME NEW i \in Intentions, G!CreateIntention(i)
      PROVE  GatewayInv'
  <2>1. GatewayTypes'
    BY <1>1, <1>5 DEF G!CreateIntention, GatewayTypes, G!At, P!RowTypeOK
  <2>2. IndUse'
    BY <1>1, <1>5 DEF G!CreateIntention, IndUse, G!InUse
  <2>3. IndEffects'
    BY <1>1, <1>5 DEF G!CreateIntention, IndEffects, GatewayTypes
  <2> QED BY <2>1, <2>2, <2>3 DEF GatewayInv
<1>6. ASSUME NEW r \in G!ToolRequests, G!RequestApproval(r) \/ G!DecideApproval(r)
      PROVE  GatewayInv'
  <2>1. P!RowRequested(r) \/ G!RowAutoApproved(r) \/ P!RowDecided(r)
    BY <1>2, <1>6, SameRows DEF G!RequestApproval, G!DecideApproval
  <2>2. /\ P!RowTypeOK'
        /\ \A q \in Requests \ {r} : approval'[q] = approval[q]
        /\ approval'[r].executed = approval[r].executed
        /\ approval[r].approvers >= 1 => approval'[r].approvers >= 1
        /\ approval'[r].status = "approved" =>
             approval[r].status = "approved" \/ approval'[r].approvers >= 1
    BY <1>1, <1>2, <2>1, ApproversGrow DEF GatewayTypes
  <2>3. /\ UNCHANGED <<intention, effects, used, server>>
        /\ contested \subseteq contested'
        /\ contested' \subseteq contested \cup {r}
        /\ G!InUse(r) # {} => r \in contested' \/ approval[r].status = "absent"
    BY <1>2, <1>6, SameRows
       DEF G!RequestApproval, G!DecideApproval, G!RowRequested, G!RowAutoApproved
  <2>4. GatewayTypes'
    BY <1>1, <2>2, <2>3 DEF GatewayTypes, G!At
  <2>5. \A q \in G!ToolRequests : G!InUse(q)' = G!InUse(q)
    BY <2>3 DEF G!InUse
  <2>6. IndUse'
    <3>1. ASSUME NEW q \in G!ToolRequests
          PROVE  /\ approval'[q].status = "approved" \/ used'[q] >= 1 \/ G!InUse(q)' # {} =>
                        approval'[q].approvers >= 1
                 /\ approval'[q].executed => used'[q] >= 1
                 /\ q \notin contested' =>
                     /\ G!InUse(q)' # {} => used'[q] = 0 /\ approval'[q].status = "approved"
                     /\ used'[q] = 0 \/ (used'[q] = 1 /\ approval'[q].executed)
      <4>1. CASE q = r
        <5>1. r \notin contested' /\ G!InUse(r) # {} => FALSE
          BY <1>1, <2>3 DEF IndUse
        <5> QED BY <1>1, <2>2, <2>3, <2>5, <4>1, <5>1 DEF IndUse
      <4>2. CASE q # r
        BY <1>1, <1>2, <2>2, <2>3, <2>5, <4>2 DEF IndUse
      <4> QED BY <4>1, <4>2
    <3> QED BY <3>1 DEF IndUse
  <2>7. IndEffects'
    BY <1>1, <2>3 DEF IndEffects
  <2> QED BY <2>4, <2>6, <2>7 DEF GatewayInv
<1>7. ASSUME NEW s \in Servers, G!Frees(s)
      PROVE  /\ server' \in [Servers -> G!Jobs]
             /\ server'[s].step = "idle"
             /\ \A z \in Servers \ {s} : server'[z] = server[z]
             /\ \A r \in G!ToolRequests : G!InUse(r)' = G!InUse(r) \ {s}
  <2>1. /\ server' \in [Servers -> G!Jobs]
        /\ server'[s].step = "idle"
        /\ \A z \in Servers \ {s} : server'[z] = server[z]
    BY <1>1, <1>7 DEF G!Frees, G!NoJob, G!Jobs, GatewayTypes
  <2> QED BY <2>1 DEF G!InUse
<1>8. ASSUME NEW s \in Servers, G!RecordDecision(s)
      PROVE  GatewayInv'
  <2>1. server[s].intention \in Intentions
    BY <1>1, <1>8 DEF G!RecordDecision, GatewayTypes, G!At
  <2>2. G!Frees(s)
    BY <1>8 DEF G!RecordDecision
  <2>3. GatewayTypes'
    BY <1>1, <1>7, <1>8, <2>1, <2>2 DEF G!RecordDecision, GatewayTypes, G!At, P!RowTypeOK
  <2>4. IndUse'
    BY <1>1, <1>7, <1>8, <2>2, UseKept DEF G!RecordDecision
  <2>5. IndEffects'
    BY <1>1, <1>8, <2>1 DEF G!RecordDecision, IndEffects, GatewayTypes
  <2> QED BY <2>3, <2>4, <2>5 DEF GatewayInv
<1>9. ASSUME NEW s \in Servers, G!ExecuteTool(s)
      PROVE  GatewayInv'
  <2>1. server[s].intention \in Intentions /\ server[s].step = "allowed"
    BY <1>1, <1>9 DEF G!ExecuteTool, GatewayTypes, G!At
  <2>2. G!Frees(s)
    BY <1>9 DEF G!ExecuteTool
  <2>3. /\ intention' \in [Intentions -> {"absent", "proposed", "executed", "blocked"}]
        /\ effects' \in [Intentions -> SUBSET {"succeeded", "refused"}]
        /\ IndEffects'
    BY <1>1, <1>9, <2>1 DEF G!ExecuteTool, GatewayTypes, IndEffects
  <2>4. /\ server' \in [Servers -> G!Jobs]
        /\ \A z \in Servers : ~G!At(z, "idle")' => server'[z].intention \in Intentions
    BY <1>1, <1>7, <2>2 DEF GatewayTypes, G!At
  <2>5. CASE server[s].request = NoId
    <3>1. UNCHANGED <<approval, used, contested>>
      BY <1>9, <2>5 DEF G!ExecuteTool
    <3>2. IndUse'
      BY <1>1, <1>7, <2>2, <3>1, UseKept
    <3>3. GatewayTypes'
      BY <1>1, <2>3, <2>4, <3>1 DEF GatewayTypes, P!RowTypeOK
    <3> QED BY <2>3, <3>2, <3>3 DEF GatewayInv
  <2>6. CASE server[s].request # NoId
    <3>1. PICK r \in G!ToolRequests : r = server[s].request
      BY <1>1, <2>6 DEF GatewayTypes, G!Jobs
    <3>2. /\ used' = [used EXCEPT ![r] = @ + 1]
          /\ IF approval[r].status = "approved" THEN P!RowExecuted(r) ELSE UNCHANGED approval
          /\ contested' = IF G!InUse(r) # {s} THEN contested \cup {r} ELSE contested
      BY <1>2, <1>9, <2>6, <3>1, SameRows DEF G!ExecuteTool
    <3>3. s \in G!InUse(r)
      BY <2>1, <3>1 DEF G!InUse
    <3>4. /\ P!RowTypeOK'
          /\ \A q \in Requests \ {r} : approval'[q] = approval[q]
          /\ approval'[r].approvers = approval[r].approvers
          /\ approval[r].status = "approved" => approval'[r].executed
          /\ approval'[r].status = "approved" => approval[r].status = "approved"
      <4>1. CASE approval[r].status = "approved"
        BY <1>1, <1>2, <3>2, <4>1, RowDone DEF GatewayTypes
      <4>2. CASE approval[r].status # "approved"
        BY <1>1, <3>2, <4>2 DEF GatewayTypes, P!RowTypeOK
      <4> QED BY <4>1, <4>2
    <3>5. /\ used[r] \in Nat /\ used'[r] = used[r] + 1
          /\ used' \in [G!ToolRequests -> Nat]
          /\ \A q \in G!ToolRequests \ {r} : used'[q] = used[q]
      BY <1>1, <3>2 DEF GatewayTypes
    <3>6. /\ contested' \subseteq G!ToolRequests
          /\ \A q \in G!ToolRequests \ {r} : q \in contested' <=> q \in contested
          /\ contested \subseteq contested'
          /\ r \notin contested' => G!InUse(r) = {s}
      BY <1>1, <3>2 DEF GatewayTypes
    <3>7. GatewayTypes'
      BY <2>3, <2>4, <3>4, <3>5, <3>6 DEF GatewayTypes
    <3>8. ASSUME NEW q \in G!ToolRequests
          PROVE  /\ approval'[q].status = "approved" \/ used'[q] >= 1 \/ G!InUse(q)' # {} =>
                        approval'[q].approvers >= 1
                 /\ approval'[q].executed => used'[q] >= 1
                 /\ q \notin contested' =>
                     /\ G!InUse(q)' # {} => used'[q] = 0 /\ approval'[q].status = "approved"
                     /\ used'[q] = 0 \/ (used'[q] = 1 /\ approval'[q].executed)
      <4>1. G!InUse(q)' = G!InUse(q) \ {s}
        BY <1>7, <2>2
      <4>2. CASE q = r
        <5>1. approval'[r].approvers >= 1
          BY <1>1, <3>3, <3>4 DEF IndUse
        <5>2. used'[r] >= 1
          BY <3>5
        <5>3. ASSUME r \notin contested'
              PROVE  G!InUse(r)' = {} /\ used'[r] = 1 /\ approval'[r].executed
          <6>1. used[r] = 0 /\ approval[r].status = "approved"
            BY <1>1, <3>3, <3>6, <5>3 DEF IndUse
          <6> QED BY <3>4, <3>5, <3>6, <4>1, <4>2, <5>3, <6>1
        <5> QED BY <4>2, <5>1, <5>2, <5>3
      <4>3. CASE q # r
        <5>1. approval'[q] = approval[q]
          BY <1>2, <3>4, <4>3
        <5> QED BY <1>1, <3>5, <3>6, <4>1, <4>3, <5>1 DEF IndUse
      <4> QED BY <4>2, <4>3
    <3>9. IndUse'
      BY <3>8 DEF IndUse
    <3> QED BY <2>3, <3>7, <3>9 DEF GatewayInv
  <2> QED BY <2>5, <2>6
<1> QED
  BY <1>3, <1>4, <1>5, <1>6, <1>8, <1>9 DEF G!GNext, G!UseTool, Asks

\* It holds before anything was asked for, ...
LEMMA GatewayInit == G!GInit => GatewayInv
<1> SUFFICES ASSUME G!GInit
             PROVE  GatewayInv
  OBVIOUS
<1>1. G!NoJob \in G!Jobs /\ G!AbsentRow \in P!Rows
  BY DEF G!NoJob, G!Jobs, G!AbsentRow, P!Rows, P!RowStatuses
<1>2. GatewayTypes
  BY <1>1 DEF G!GInit, G!RowInit, GatewayTypes, P!RowTypeOK, G!At, G!NoJob
<1>3. \A r \in G!ToolRequests : G!InUse(r) = {}
  BY DEF G!GInit, G!InUse, G!NoJob
<1>4. IndUse
  <2>1. G!ToolRequests \subseteq Requests
    BY ExecutionAssumption DEF G!GatewayAssumption
  <2>2. \A r \in Requests : approval[r].status = "absent" /\ ~approval[r].executed
    BY DEF G!GInit, G!RowInit, G!AbsentRow
  <2>3. \A r \in G!ToolRequests : used[r] = 0
    BY DEF G!GInit
  <2> QED BY <1>3, <2>1, <2>2, <2>3 DEF IndUse
<1>5. IndEffects
  BY DEF G!GInit, IndEffects
<1> QED BY <1>2, <1>4, <1>5 DEF GatewayInv

\* ... and a step of another component keeps it.
LEMMA GatewaySpared ==
    ASSUME GatewayInv, UNCHANGED gateway, P!RowTypeOK',
           \A r \in G!ToolRequests : approval'[r] = approval[r]
    PROVE  GatewayInv'
BY DEF gateway, GatewayInv, GatewayTypes, IndUse, IndEffects, G!InUse, G!At

-----------------------------------------------------------------------------
(* Remediation: the inductive invariant *)

StepStatuses == {"pending", "executing", "succeeded", "failed"}

RemediationTypes ==
    /\ proposal \in [Proposals -> R!ProposalStatuses]
    /\ plan \in [Proposals -> Plans \cup {<<>>}]
    /\ steps = [p \in Proposals |-> steps[p]]
    /\ \A p \in Proposals : steps[p] \in [DOMAIN plan[p] -> StepStatuses]
    /\ work \in [Workers -> R!Works]
    /\ executions \in [Proposals -> Nat]

\* A request is about a proposal that was made, and at one of its steps; and what
\* the evaluator passed has no risk.
IndWork ==
    /\ \A p \in Proposals : proposal[p] # "absent" => plan[p] \in Plans
    /\ \A s \in Workers :
        /\ R!At(s, "idle") <=> R!On(s) = NoId
        /\ ~R!At(s, "idle") => R!On(s) \in Proposals /\ proposal[R!On(s)] # "absent"
        /\ R!At(s, "starting") => work[s].index = 1 /\ ~work[s].failed
        /\ work[s].step \in R!ExecutingSteps \ {"finishing"} =>
            work[s].index \in 1..Len(plan[R!On(s)])
        /\ R!At(s, "passed") => RiskOf[R!Step(s).tool] = "low"

\* A step that succeeded has no risk.
IndRisk ==
    \A p \in Proposals : \A n \in DOMAIN plan[p] :
        steps[p][n] = "succeeded" => RiskOf[plan[p][n].tool] = "low"

AllSucceeded(p) == \A n \in DOMAIN steps[p] : steps[p][n] = "succeeded"
SomeFailed(p) == \E n \in DOMAIN steps[p] : steps[p][n] = "failed"

\* What a request has read of a proposal still holds, and what it did is what
\* it remembers.
Accurate(s, p) ==
    /\ R!At(s, "approving") => proposal[p] \in R!Approvable
    /\ R!At(s, "cancelling") => proposal[p] \in R!Cancellable
    /\ R!At(s, "starting") => proposal[p] = "approved"
    /\ work[s].step \in R!ExecutingSteps =>
        /\ proposal[p] = "executing"
        /\ \A z \in Workers \ {s} : R!On(z) # p
        /\ IF R!At(s, "finishing")
           THEN IF work[s].failed THEN SomeFailed(p) ELSE AllSucceeded(p)
           ELSE IF work[s].failed
                THEN \E n \in DOMAIN steps[p] : n < work[s].index /\ steps[p][n] = "failed"
                ELSE \A n \in DOMAIN steps[p] : n < work[s].index => steps[p][n] = "succeeded"

Told(p) ==
    /\ proposal[p] \in {"absent", "draft", "proposed", "approved"} => executions[p] = 0
    /\ proposal[p] \in {"executing", "completed", "failed"} => executions[p] = 1
    /\ proposal[p] = "executing" => R!Attended(p)
    /\ proposal[p] = "completed" => AllSucceeded(p)
    /\ proposal[p] = "failed" => SomeFailed(p)
    /\ proposal[p] = "cancelled" =>
        executions[p] = 0 \/ (executions[p] = 1 /\ SomeFailed(p))

\* So it is of every proposal that no two requests wrote at once and of whose
\* execution no statement was lost.
IndClean ==
    \A p \in Proposals \ (clobbered \cup interrupted) :
        /\ \A s \in Workers : R!On(s) = p => Accurate(s, p)
        /\ Told(p)

RemediationInv == RemediationTypes /\ IndWork /\ IndRisk /\ IndClean

-----------------------------------------------------------------------------
(* Steps of a remediation *)

\* The plan of a proposal that was made has a first step, and a last one.
LEMMA PlansAreLists ==
    ASSUME RemediationTypes, IndWork, NEW p \in Proposals, proposal[p] # "absent"
    PROVE  /\ Len(plan[p]) \in Nat \ {0}
           /\ DOMAIN plan[p] = 1..Len(plan[p])
           /\ DOMAIN steps[p] = 1..Len(plan[p])
<1>1. plan[p] \in Seq(R!PlanSteps) /\ plan[p] # <<>>
  BY ExecutionAssumption DEF R!RemediationAssumption, IndWork
<1>2. Len(plan[p]) \in Nat \ {0} /\ DOMAIN plan[p] = 1..Len(plan[p])
  BY <1>1
<1> QED BY <1>2 DEF RemediationTypes

\* What a request is about.
LEMMA AboutProposal ==
    ASSUME RemediationTypes, IndWork, NEW s \in Workers, ~R!At(s, "idle")
    PROVE  R!On(s) \in Proposals /\ proposal[R!On(s)] # "absent"
BY DEF IndWork

\* A step of the plan becomes what its UPDATE says, or the UPDATE is lost.
LEMMA StepMarked ==
    ASSUME RemediationTypes, NEW s \in Workers, NEW p \in Proposals, R!On(s) = p,
           work[s].index \in DOMAIN plan[p], NEW status \in StepStatuses,
           R!StepBecomes(s, status)
    PROVE  /\ steps' = [q \in Proposals |-> steps'[q]]
           /\ steps'[p] \in [DOMAIN plan[p] -> StepStatuses]
           /\ \A q \in Proposals \ {p} : steps'[q] = steps[q]
           /\ \A n \in DOMAIN plan[p] \ {work[s].index} : steps'[p][n] = steps[p][n]
           /\ p \notin interrupted' => steps'[p][work[s].index] = status
           /\ steps'[p][work[s].index] \in {status, steps[p][work[s].index]}
           /\ interrupted \subseteq interrupted'
<1> DEFINE i == work[s].index
<1>1. /\ steps = [q \in Proposals |-> steps[q]]
      /\ steps[p] \in [DOMAIN plan[p] -> StepStatuses]
  BY DEF RemediationTypes
<1>2. CASE steps' = [steps EXCEPT ![R!On(s)][work[s].index] = status] /\ UNCHANGED interrupted
  <2>1. steps' = [steps EXCEPT ![p] = [steps[p] EXCEPT ![i] = status]]
    BY <1>2
  <2>2. [steps[p] EXCEPT ![i] = status] \in [DOMAIN plan[p] -> StepStatuses]
    BY <1>1
  <2>3. steps'[p] = [steps[p] EXCEPT ![i] = status]
    BY <1>1, <2>1
  <2>4. steps' = [q \in Proposals |-> steps'[q]] /\ \A q \in Proposals \ {p} : steps'[q] = steps[q]
    BY <1>1, <2>1
  <2>5. /\ steps'[p][i] = status
        /\ \A n \in DOMAIN plan[p] \ {i} : steps'[p][n] = steps[p][n]
    BY <1>1, <2>3
  <2> QED BY <1>2, <2>2, <2>3, <2>4, <2>5
<1>3. CASE R!Loses(s) /\ UNCHANGED steps
  BY <1>1, <1>3 DEF R!Loses
<1> QED BY <1>2, <1>3 DEF R!StepBecomes

\* The steps of a request that write no row of a proposal, ...
Looks(s) ==
    \/ \E p \in Proposals : R!BeginApprove(s, p) \/ R!BeginCancel(s, p) \/ R!BeginExecute(s, p)
    \/ R!RefuseStep(s)
    \/ R!FindExecutor(s)
    \/ R!EvaluateAgent(s)
    \/ R!EvaluateGrant(s)
    \/ R!DenyStep(s)

\* ... and what it is at after one of them.
Sees(s) ==
    LET now == work[s]
        next == work'[s]
    IN  /\ UNCHANGED R!records
        /\ work' \in [Workers -> R!Works]
        /\ \A z \in Workers \ {s} : work'[z] = work[z]
        /\ \/ /\ now.step = "idle"
              /\ next.proposal \in Proposals /\ proposal[next.proposal] # "absent"
              /\ next.index = 1 /\ ~next.failed
              /\ next.step \in {"approving", "cancelling", "starting"}
              /\ next.step = "approving" => proposal[next.proposal] \in R!Approvable
              /\ next.step = "cancelling" => proposal[next.proposal] \in R!Cancellable
              /\ next.step = "starting" => proposal[next.proposal] = "approved"
           \/ /\ now.step \in R!ExecutingSteps \ {"finishing"}
              /\ next.step \in {"found", "identified", "passed", "failing"}
              /\ next.proposal = now.proposal
              /\ next.index = now.index
              /\ next.failed = now.failed
              /\ next.step = "passed" => RiskOf[plan[now.proposal][now.index].tool] = "low"

\* A look reads what its request goes on with.
LEMMA LooksSee ==
    ASSUME RemediationTypes, IndWork, NEW s \in Workers, Looks(s)
    PROVE  Sees(s)
<1> USE DEF R!At, R!On
<1>1. work \in [Workers -> R!Works] /\ work[s] \in R!Works
  BY DEF RemediationTypes
<1>2. ASSUME NEW step \in {"approving", "cancelling", "starting"}, NEW p \in Proposals,
             R!Takes(s, step, p)
      PROVE  /\ UNCHANGED R!records
             /\ work' \in [Workers -> R!Works]
             /\ \A z \in Workers \ {s} : work'[z] = work[z]
             /\ work[s].step = "idle"
             /\ work'[s].step = step /\ work'[s].proposal = p /\ work'[s].index = 1
             /\ ~work'[s].failed
  BY <1>1, <1>2 DEF R!Takes, R!Works
<1>3. ASSUME NEW step \in {"found", "identified", "passed", "failing"}, R!Proceeds(s, step)
      PROVE  /\ work' \in [Workers -> R!Works]
             /\ \A z \in Workers \ {s} : work'[z] = work[z]
             /\ work'[s].step = step /\ work'[s].proposal = work[s].proposal
             /\ work'[s].index = work[s].index /\ work'[s].failed = work[s].failed
  <2>1. work' = [work EXCEPT ![s] = [work[s] EXCEPT !.step = step]]
    BY <1>3 DEF R!Proceeds
  <2>2. [work[s] EXCEPT !.step = step] \in R!Works
    BY <1>1 DEF R!Works, R!ExecutingSteps
  <2>3. /\ [work[s] EXCEPT !.step = step].step = step
        /\ [work[s] EXCEPT !.step = step].proposal = work[s].proposal
        /\ [work[s] EXCEPT !.step = step].index = work[s].index
    BY <1>1 DEF R!Works
  <2>4. [work[s] EXCEPT !.step = step].failed = work[s].failed
    BY <1>1 DEF R!Works
  <2>5. work'[s] = [work[s] EXCEPT !.step = step]
    BY <1>1, <2>1
  <2> QED BY <1>1, <2>1, <2>2, <2>3, <2>4, <2>5
<1>4. ASSUME NEW p \in Proposals, R!BeginApprove(s, p)
      PROVE  Sees(s)
  BY <1>2, <1>4 DEF R!BeginApprove, R!Approvable, Sees
<1>5. ASSUME NEW p \in Proposals, R!BeginCancel(s, p)
      PROVE  Sees(s)
  BY <1>2, <1>5 DEF R!BeginCancel, R!Cancellable, Sees
<1>6. ASSUME NEW p \in Proposals, R!BeginExecute(s, p)
      PROVE  Sees(s)
  BY <1>2, <1>6 DEF R!BeginExecute, Sees
<1>7. CASE R!RefuseStep(s)
  BY <1>3, <1>7 DEF R!RefuseStep, R!ExecutingSteps, Sees
<1>8. CASE R!FindExecutor(s)
  BY <1>3, <1>8 DEF R!FindExecutor, R!ExecutingSteps, Sees
<1>9. CASE R!EvaluateAgent(s)
  BY <1>3, <1>9 DEF R!EvaluateAgent, R!ExecutingSteps, Sees
<1>10. CASE R!EvaluateGrant(s)
  BY <1>3, <1>10 DEF R!EvaluateGrant, R!NeedsApproval, R!Step, R!ExecutingSteps, Sees
<1>11. CASE R!DenyStep(s)
  BY <1>3, <1>11 DEF R!DenyStep, R!ExecutingSteps, Sees
<1> QED BY <1>4, <1>5, <1>6, <1>7, <1>8, <1>9, <1>10, <1>11 DEF Looks

\* A request ends.
LEMMA Left ==
    ASSUME RemediationTypes, NEW s \in Workers, R!Leaves(s)
    PROVE  /\ work' \in [Workers -> R!Works]
           /\ work'[s].step = "idle" /\ work'[s].proposal = NoId
           /\ \A z \in Workers \ {s} : work'[z] = work[z]
BY DEF R!Leaves, R!NoWork, R!Works, RemediationTypes

\* An execution goes on to its next UPDATE.
LEMMA WentOn ==
    ASSUME RemediationTypes, NEW s \in Workers, NEW step \in {"stepping", "step"},
           R!Proceeds(s, step)
    PROVE  /\ work' \in [Workers -> R!Works]
           /\ work'[s].step = step /\ work'[s].proposal = work[s].proposal
           /\ work'[s].index = work[s].index /\ work'[s].failed = work[s].failed
           /\ \A z \in Workers \ {s} : work'[z] = work[z]
<1>1. work \in [Workers -> R!Works] /\ work[s] \in R!Works
  BY DEF RemediationTypes
<1>2. work' = [work EXCEPT ![s] = [work[s] EXCEPT !.step = step]]
  BY DEF R!Proceeds
<1>3. [work[s] EXCEPT !.step = step] \in R!Works
  BY <1>1 DEF R!Works, R!ExecutingSteps
<1>4. /\ [work[s] EXCEPT !.step = step].step = step
      /\ [work[s] EXCEPT !.step = step].proposal = work[s].proposal
      /\ [work[s] EXCEPT !.step = step].index = work[s].index
  BY <1>1 DEF R!Works
<1>5. [work[s] EXCEPT !.step = step].failed = work[s].failed
  BY <1>1 DEF R!Works
<1> QED BY <1>1, <1>2, <1>3, <1>4, <1>5

\* An execution leaves a step behind.
LEMMA Advanced ==
    ASSUME RemediationTypes, IndWork, NEW s \in Workers, NEW failed \in BOOLEAN,
           R!Advances(s, failed)
    PROVE  /\ work' \in [Workers -> R!Works]
           /\ work'[s].proposal = work[s].proposal
           /\ work'[s].index = work[s].index + 1
           /\ work'[s].failed <=> work[s].failed \/ failed
           /\ work'[s].step \in {"stepping", "finishing"}
           /\ work'[s].step = "finishing" => failed \/ work[s].index = Len(plan[R!On(s)])
           /\ work'[s].step = "stepping" => work[s].index # Len(plan[R!On(s)])
           /\ \A z \in Workers \ {s} : work'[z] = work[z]
<1>1. work \in [Workers -> R!Works] /\ work[s] \in R!Works
  BY DEF RemediationTypes
<1>2. PICK step \in {"stepping", "finishing"}, b \in BOOLEAN, n \in Nat :
        /\ n = work[s].index + 1
        /\ b <=> work[s].failed \/ failed
        /\ step = IF work[s].index = Len(plan[R!On(s)]) \/ (failed /\ ~R!Step(s).continue)
                  THEN "finishing" ELSE "stepping"
        /\ work' = [work EXCEPT ![s] =
                [work[s] EXCEPT !.failed = b, !.index = n, !.step = step]]
  <2>1. PICK n \in Nat : n = work[s].index + 1
    BY <1>1 DEF R!Works
  <2>2. PICK b \in BOOLEAN : b = (work[s].failed \/ failed)
    OBVIOUS
  <2>3. PICK step \in {"stepping", "finishing"} :
            step = IF work[s].index = Len(plan[R!On(s)]) \/ (failed /\ ~R!Step(s).continue)
                   THEN "finishing" ELSE "stepping"
    OBVIOUS
  <2>4. work' = [work EXCEPT ![s] =
            [work[s] EXCEPT !.failed = b, !.index = n, !.step = step]]
    BY <2>1, <2>2, <2>3 DEF R!Advances
  <2> QED BY <2>1, <2>2, <2>3, <2>4
<1> DEFINE next == [work[s] EXCEPT !.failed = b, !.index = n, !.step = step]
<1>3. next \in R!Works
  BY <1>1, <1>2 DEF R!Works, R!ExecutingSteps
<1>4. next.proposal = work[s].proposal /\ next.index = n /\ next.step = step
  BY <1>1 DEF R!Works
<1>5. next.failed = b
  BY <1>1 DEF R!Works
<1>6. work'[s] = next
  BY <1>1, <1>2
<1>7. work' \in [Workers -> R!Works] /\ \A z \in Workers \ {s} : work'[z] = work[z]
  BY <1>1, <1>2, <1>3
<1> HIDE DEF next
<1> QED BY <1>2, <1>4, <1>5, <1>6, <1>7

-----------------------------------------------------------------------------
(* Every step of a remediation keeps its invariant *)

\* A look changes no row, and is at a row that is as it was found.
LEMMA LookKeeps ==
    ASSUME RemediationInv, NEW s \in Workers, Looks(s)
    PROVE  RemediationInv'
<1> USE DEF R!At, R!On, R!records, R!ExecutingSteps
<1>1. RemediationTypes /\ IndWork /\ IndRisk /\ IndClean
  BY DEF RemediationInv
<1>2. Sees(s)
  BY <1>1, LooksSee
<1>3. UNCHANGED <<proposal, plan, steps, executions, clobbered, interrupted>>
  BY <1>2 DEF Sees
<1>4. RemediationTypes'
  BY <1>1, <1>2, <1>3 DEF Sees, RemediationTypes
<1>5. IndRisk'
  BY <1>1, <1>3 DEF IndRisk
<1>6. NoId \notin Proposals
  BY ExecutionAssumption DEF R!RemediationAssumption
<1>7. IndWork'
  <2>1. ASSUME NEW z \in Workers
        PROVE  /\ work'[z].step = "idle" <=> work'[z].proposal = NoId
               /\ work'[z].step # "idle" =>
                    work'[z].proposal \in Proposals /\ proposal[work'[z].proposal] # "absent"
               /\ work'[z].step = "starting" => work'[z].index = 1 /\ ~work'[z].failed
               /\ work'[z].step \in R!ExecutingSteps \ {"finishing"} =>
                    work'[z].index \in 1..Len(plan[work'[z].proposal])
               /\ work'[z].step = "passed" =>
                    RiskOf[plan[work'[z].proposal][work'[z].index].tool] = "low"
    <3>1. CASE z = s
      BY <1>1, <1>2, <1>6, <3>1 DEF Sees, IndWork
    <3>2. CASE z # s
      BY ZenonT(30), <1>1, <1>2, <3>2 DEF Sees, IndWork, R!Step
    <3> QED BY <3>1, <3>2
  <2> QED BY <1>1, <1>3, <2>1 DEF IndWork, R!Step
<1>8. ASSUME NEW p \in Proposals, p \notin clobbered, p \notin interrupted
      PROVE  /\ Told(p)'
             /\ \A z \in Workers : work'[z].proposal = p => Accurate(z, p)'
  <2>1. Told(p) /\ \A z \in Workers : work[z].proposal = p => Accurate(z, p)
    BY <1>1, <1>8 DEF IndClean
  <2>2. R!Attended(p) => R!Attended(p)'
    BY <1>2 DEF Sees, R!Attended
  <2>3. Told(p)'
    BY <1>3, <2>1, <2>2 DEF Told, AllSucceeded, SomeFailed
  <2>4. ASSUME NEW z \in Workers, work'[z].proposal = p
        PROVE  Accurate(z, p)'
    <3>1. CASE z # s
      <4>1. work'[z] = work[z] /\ Accurate(z, p)
        BY <1>2, <2>1, <2>4, <3>1 DEF Sees
      <4>2. ASSUME work[z].step \in R!ExecutingSteps
            PROVE  work'[s].proposal # p
        <5>1. proposal[p] = "executing" /\ work[s].proposal # p
          BY <3>1, <4>1, <4>2 DEF Accurate
        <5> QED BY <1>2, <5>1 DEF Sees, R!Approvable, R!Cancellable
      <4>3. ASSUME work[z].step \in R!ExecutingSteps, NEW y \in Workers \ {z}
            PROVE  work'[y].proposal # p
        BY <1>2, <4>1, <4>2, <4>3 DEF Sees, Accurate
      <4> QED BY <1>3, <4>1, <4>3 DEF Accurate, AllSucceeded, SomeFailed
    <3>2. CASE z = s
      <4>1. CASE work[s].step = "idle"
        <5>1. work'[s].step \in {"approving", "cancelling", "starting"}
          BY <1>2, <4>1 DEF Sees
        <5> QED BY <1>2, <1>3, <2>4, <3>2, <4>1, <5>1 DEF Sees, Accurate
      <4>2. CASE work[s].step # "idle"
        <5>1. /\ work[s].step \in R!ExecutingSteps \ {"finishing"}
              /\ work'[s].step \in {"found", "identified", "passed", "failing"}
              /\ work'[s].proposal = work[s].proposal
              /\ work'[s].index = work[s].index
              /\ work'[s].failed = work[s].failed
          BY <1>2, <4>2 DEF Sees
        <5>2. Accurate(s, p)
          BY <2>1, <2>4, <3>2, <5>1
        <5>3. \A y \in Workers \ {s} : work'[y].proposal # p
          BY <1>2, <5>1, <5>2 DEF Sees, Accurate
        <5> QED BY <1>3, <3>2, <5>1, <5>2, <5>3 DEF Accurate
      <4> QED BY <4>1, <4>2
    <3> QED BY <3>1, <3>2
  <2> QED BY <2>3, <2>4
<1>9. IndClean'
  BY <1>3, <1>8 DEF IndClean
<1> QED BY <1>4, <1>5, <1>7, <1>9 DEF RemediationInv

\* A new proposal has no request yet.
LEMMA CreateKeeps ==
    ASSUME RemediationInv, NEW p \in Proposals, NEW source \in {"agent", "operator"},
           NEW new \in Plans, R!CreateProposal(p, source, new)
    PROVE  RemediationInv'
<1> USE DEF R!At, R!On, R!ExecutingSteps
<1>1. RemediationTypes /\ IndWork /\ IndRisk /\ IndClean
  BY DEF RemediationInv
<1>2. /\ UNCHANGED <<work, executions, clobbered, interrupted>>
      /\ proposal[p] = "absent" /\ proposal'[p] \in {"draft", "proposed"}
      /\ proposal' \in [Proposals -> R!ProposalStatuses]
      /\ \A q \in Proposals \ {p} : proposal'[q] = proposal[q]
  BY <1>1 DEF R!CreateProposal, RemediationTypes, R!ProposalStatuses
<1>3. /\ plan' \in [Proposals -> Plans \cup {<<>>}] /\ plan'[p] = new
      /\ \A q \in Proposals \ {p} : plan'[q] = plan[q]
  BY <1>1 DEF R!CreateProposal, RemediationTypes
<1>4. /\ steps' = [q \in Proposals |-> steps'[q]]
      /\ steps'[p] = [n \in DOMAIN new |-> "pending"]
      /\ \A q \in Proposals \ {p} : steps'[q] = steps[q]
  <2>1. steps = [q \in Proposals |-> steps[q]]
    BY <1>1 DEF RemediationTypes
  <2> QED BY <2>1 DEF R!CreateProposal
<1>5. \A s \in Workers : work[s].proposal # p
  BY <1>1, <1>2, ExecutionAssumption DEF IndWork, R!RemediationAssumption
<1>6. RemediationTypes'
  <2>1. ASSUME NEW q \in Proposals
        PROVE  steps'[q] \in [DOMAIN plan'[q] -> StepStatuses]
    BY SMTT(30), <1>1, <1>3, <1>4 DEF RemediationTypes, StepStatuses
  <2> QED BY <1>1, <1>2, <1>3, <1>4, <2>1 DEF RemediationTypes
<1>7. IndWork'
  <2>1. \A q \in Proposals : proposal'[q] # "absent" => plan'[q] \in Plans
    BY <1>1, <1>2, <1>3 DEF IndWork
  <2>2. ASSUME NEW s \in Workers, work[s].step # "idle"
        PROVE  /\ work[s].proposal \in Proposals
               /\ proposal'[work[s].proposal] # "absent"
               /\ plan'[work[s].proposal] = plan[work[s].proposal]
    BY <1>1, <1>2, <1>3, <1>5, <2>2 DEF IndWork
  <2> QED BY <1>1, <1>2, <2>1, <2>2 DEF IndWork, R!Step
<1>8. IndRisk'
  <2>1. ASSUME NEW q \in Proposals, NEW n \in DOMAIN plan'[q], steps'[q][n] = "succeeded"
        PROVE  RiskOf[plan'[q][n].tool] = "low"
    <3>1. CASE q = p
      BY <1>3, <1>4, <2>1, <3>1
    <3>2. CASE q # p
      BY <1>1, <1>3, <1>4, <2>1, <3>2 DEF IndRisk
    <3> QED BY <3>1, <3>2
  <2> QED BY <2>1 DEF IndRisk
<1>9. IndClean'
  <2>1. ASSUME NEW q \in Proposals, q \notin clobbered, q \notin interrupted
        PROVE  Told(q)' /\ \A s \in Workers : work[s].proposal = q => Accurate(s, q)'
    <3>1. CASE q = p
      BY <1>1, <1>2, <1>5, <2>1, <3>1 DEF IndClean, Told
    <3>2. CASE q # p
      <4>1. /\ proposal'[q] = proposal[q] /\ steps'[q] = steps[q]
            /\ UNCHANGED <<work, executions>>
        BY <1>2, <1>4, <3>2
      <4>2. Told(q)'
        BY <1>1, <2>1, <4>1 DEF IndClean, Told, AllSucceeded, SomeFailed, R!Attended
      <4>3. ASSUME NEW s \in Workers, work[s].proposal = q
            PROVE  Accurate(s, q)'
        BY <1>1, <2>1, <4>1, <4>3 DEF IndClean, Accurate, AllSucceeded, SomeFailed
      <4> QED BY <4>2, <4>3
    <3> QED BY <3>1, <3>2
  <2> QED BY <1>2, <2>1 DEF IndClean
<1> QED BY <1>6, <1>7, <1>8, <1>9 DEF RemediationInv

\* A request that ends leaves the others as they were.
LEMMA LeavingKeepsWork ==
    ASSUME RemediationTypes, IndWork, NEW s \in Workers, R!Leaves(s), UNCHANGED plan,
           \A q \in Proposals : proposal[q] # "absent" <=> proposal'[q] # "absent"
    PROVE  IndWork'
<1> USE DEF R!At, R!On
<1>1. /\ work'[s].step = "idle" /\ work'[s].proposal = NoId
      /\ \A z \in Workers \ {s} : work'[z] = work[z]
  BY Left
<1>2. ASSUME NEW z \in Workers
      PROVE  /\ work'[z].step = "idle" <=> work'[z].proposal = NoId
             /\ work'[z].step # "idle" =>
                  work'[z].proposal \in Proposals /\ proposal'[work'[z].proposal] # "absent"
             /\ work'[z].step = "starting" => work'[z].index = 1 /\ ~work'[z].failed
             /\ work'[z].step \in R!ExecutingSteps \ {"finishing"} =>
                  work'[z].index \in 1..Len(plan[work'[z].proposal])
             /\ work'[z].step = "passed" =>
                  RiskOf[plan[work'[z].proposal][work'[z].index].tool] = "low"
  <2>1. CASE z = s
    BY <1>1, <2>1 DEF R!ExecutingSteps
  <2>2. CASE z # s
    BY <1>1, <2>2 DEF IndWork, R!Step
  <2> QED BY <2>1, <2>2
<1> QED BY <1>2 DEF IndWork, R!Step

\* A request ends without a word: an execution is interrupted.
LEMMA GiveUpKeeps ==
    ASSUME RemediationInv, NEW s \in Workers, R!GiveUpWork(s)
    PROVE  RemediationInv'
<1> USE DEF R!At, R!On
<1>1. RemediationTypes /\ IndWork /\ IndRisk /\ IndClean
  BY DEF RemediationInv
<1>2. /\ work' \in [Workers -> R!Works]
      /\ work'[s].step = "idle" /\ work'[s].proposal = NoId
      /\ \A z \in Workers \ {s} : work'[z] = work[z]
      /\ UNCHANGED <<proposal, plan, steps, executions, clobbered>>
      /\ interrupted \subseteq interrupted'
      /\ work[s].step \in R!ExecutingSteps => work[s].proposal \in interrupted'
  BY <1>1, Left DEF R!GiveUpWork
<1>3. RemediationTypes' /\ IndRisk'
  BY <1>1, <1>2 DEF RemediationTypes, IndRisk
<1>4. IndWork'
  BY <1>1, <1>2, LeavingKeepsWork DEF R!GiveUpWork
<1>5. ASSUME NEW p \in Proposals, p \notin clobbered, p \notin interrupted'
      PROVE  Told(p)' /\ \A z \in Workers : work'[z].proposal = p => Accurate(z, p)'
  <2>1. Told(p) /\ \A z \in Workers : work[z].proposal = p => Accurate(z, p)
    BY <1>1, <1>2, <1>5 DEF IndClean
  <2>2. R!Attended(p) => R!Attended(p)'
    BY <1>2, <1>5 DEF R!Attended
  <2>3. NoId \notin Proposals
    BY ExecutionAssumption DEF R!RemediationAssumption
  <2>4. ASSUME NEW z \in Workers, work'[z].proposal = p
        PROVE  Accurate(z, p)'
    <3>1. z # s /\ work'[z] = work[z] /\ Accurate(z, p)
      BY <1>2, <2>1, <2>3, <2>4
    <3>2. \A y \in Workers \ {z} : work[y].proposal # p => work'[y].proposal # p
      BY <1>2, <2>3
    <3> QED BY <1>2, <3>1, <3>2 DEF Accurate, AllSucceeded, SomeFailed
  <2> QED BY <1>2, <2>1, <2>2, <2>4 DEF Told, AllSucceeded, SomeFailed
<1>6. IndClean'
  BY <1>2, <1>5 DEF IndClean
<1> QED BY <1>3, <1>4, <1>6 DEF RemediationInv

\* Approve, Cancel and the last UPDATE of Execute: nobody else was at the
\* proposal, or it is clobbered.
LEMMA OverwriteKeeps ==
    ASSUME RemediationInv, NEW s \in Workers,
           R!ApproveProposal(s) \/ R!CancelProposal(s) \/ R!FinishExecution(s)
    PROVE  RemediationInv'
<1> USE DEF R!At, R!On
<1>1. RemediationTypes /\ IndWork /\ IndRisk /\ IndClean
  BY DEF RemediationInv
<1>2. PICK p \in Proposals : p = work[s].proposal /\ proposal[p] # "absent"
  BY <1>1 DEF R!ApproveProposal, R!CancelProposal, R!FinishExecution, IndWork
<1>3. PICK status \in {"approved", "cancelled", "failed", "completed"} :
        /\ proposal' = [proposal EXCEPT ![p] = status]
        /\ clobbered' = IF \E z \in Workers \ {s} : work[z].proposal = p
                        THEN clobbered \cup {p} ELSE clobbered
        /\ status = "approved" => work[s].step = "approving"
        /\ status = "cancelled" => work[s].step = "cancelling"
        /\ status = "failed" => work[s].step = "finishing" /\ work[s].failed
        /\ status = "completed" => work[s].step = "finishing" /\ ~work[s].failed
  BY <1>2 DEF R!ApproveProposal, R!CancelProposal, R!FinishExecution, R!Overwrites
<1>4. /\ work' \in [Workers -> R!Works]
      /\ work'[s].step = "idle" /\ work'[s].proposal = NoId
      /\ \A z \in Workers \ {s} : work'[z] = work[z]
      /\ UNCHANGED <<plan, steps, executions, interrupted>>
  BY <1>1, Left DEF R!ApproveProposal, R!CancelProposal, R!FinishExecution
<1>5. /\ proposal' \in [Proposals -> R!ProposalStatuses]
      /\ proposal'[p] = status
      /\ \A q \in Proposals \ {p} : proposal'[q] = proposal[q]
  BY <1>1, <1>3 DEF RemediationTypes, R!ProposalStatuses
<1>6. RemediationTypes' /\ IndRisk'
  BY <1>1, <1>4, <1>5 DEF RemediationTypes, IndRisk
<1>7. IndWork'
  BY <1>1, <1>2, <1>4, <1>5, LeavingKeepsWork
     DEF R!ApproveProposal, R!CancelProposal, R!FinishExecution
<1>8. NoId \notin Proposals
  BY ExecutionAssumption DEF R!RemediationAssumption
<1>9. ASSUME NEW q \in Proposals, q \notin clobbered', q \notin interrupted
      PROVE  Told(q)' /\ \A z \in Workers : work'[z].proposal = q => Accurate(z, q)'
  <2>1. Told(q) /\ \A z \in Workers : work[z].proposal = q => Accurate(z, q)
    BY <1>1, <1>3, <1>9 DEF IndClean
  <2>2. CASE q = p
    <3>1. \A z \in Workers : work'[z].proposal # p
      BY <1>3, <1>4, <1>8, <1>9, <2>2
    <3>2. Accurate(s, p) /\ Told(p)
      BY <1>2, <2>1, <2>2
    <3>3. CASE status = "approved"
      BY <1>3, <1>4, <1>5, <2>2, <3>1, <3>2, <3>3 DEF Accurate, Told, R!Approvable
    <3>4. CASE status = "cancelled"
      BY <1>3, <1>4, <1>5, <2>2, <3>1, <3>2, <3>4
         DEF Accurate, Told, R!Cancellable, SomeFailed
    <3>5. CASE status = "failed"
      BY <1>3, <1>4, <1>5, <2>2, <3>1, <3>2, <3>5
         DEF Accurate, Told, SomeFailed, R!ExecutingSteps
    <3>6. CASE status = "completed"
      BY <1>3, <1>4, <1>5, <2>2, <3>1, <3>2, <3>6
         DEF Accurate, Told, AllSucceeded, R!ExecutingSteps
    <3> QED BY <3>3, <3>4, <3>5, <3>6
  <2>3. CASE q # p
    <3>1. R!Attended(q) => R!Attended(q)'
      BY <1>2, <1>4, <2>3 DEF R!Attended
    <3>2. Told(q)'
      BY <1>4, <1>5, <2>1, <2>3, <3>1 DEF Told, AllSucceeded, SomeFailed
    <3>3. ASSUME NEW z \in Workers, work'[z].proposal = q
          PROVE  Accurate(z, q)'
      <4>1. z # s /\ work'[z] = work[z] /\ Accurate(z, q)
        BY <1>4, <1>8, <2>1, <3>3
      <4>2. \A y \in Workers \ {z} : work[y].proposal # q => work'[y].proposal # q
        BY <1>4, <1>8
      <4> QED BY <1>4, <1>5, <2>3, <4>1, <4>2 DEF Accurate, AllSucceeded, SomeFailed
    <3> QED BY <3>2, <3>3
  <2> QED BY <2>2, <2>3
<1>10. IndClean'
  BY <1>4, <1>9 DEF IndClean
<1> QED BY <1>6, <1>7, <1>10 DEF RemediationInv

\* The first UPDATE of Execute: of a proposal that is neither clobbered nor
\* interrupted by it, its own request was the only one.
LEMMA StartKeeps ==
    ASSUME RemediationInv, NEW s \in Workers, R!StartExecution(s)
    PROVE  RemediationInv'
<1> USE DEF R!At, R!On
<1>1. RemediationTypes /\ IndWork /\ IndRisk /\ IndClean
  BY DEF RemediationInv
<1>2. PICK p \in Proposals : p = work[s].proposal /\ proposal[p] # "absent"
  BY <1>1 DEF R!StartExecution, IndWork
<1>3. /\ work' \in [Workers -> R!Works]
      /\ work'[s].step = "stepping" /\ work'[s].proposal = p
      /\ work'[s].index = 1 /\ work'[s].failed = work[s].failed
      /\ \A z \in Workers \ {s} : work'[z] = work[z]
      /\ work[s].step = "starting" /\ UNCHANGED <<plan, steps>>
  <2>1. work[s].step = "starting" /\ work[s].index = 1 /\ UNCHANGED <<plan, steps>>
    BY <1>1 DEF R!StartExecution, IndWork
  <2>2. R!Proceeds(s, "stepping")
    BY DEF R!StartExecution
  <2> QED BY <1>1, <1>2, <2>1, <2>2, WentOn
<1>4. /\ executions' \in [Proposals -> Nat]
      /\ executions'[p] = executions[p] + 1
      /\ \A q \in Proposals \ {p} : executions'[q] = executions[q]
  BY <1>1, <1>2 DEF R!StartExecution, RemediationTypes
<1>5. /\ proposal' \in [Proposals -> R!ProposalStatuses]
      /\ proposal'[p] # "absent"
      /\ \A q \in Proposals \ {p} : proposal'[q] = proposal[q]
      /\ clobbered \subseteq clobbered' /\ interrupted \subseteq interrupted'
      /\ p \notin clobbered' /\ p \notin interrupted' =>
            proposal'[p] = "executing" /\ \A z \in Workers \ {s} : work[z].proposal # p
  <2>1. proposal \in [Proposals -> R!ProposalStatuses]
    BY <1>1 DEF RemediationTypes
  <2>2. CASE R!Overwrites(s, "executing") /\ UNCHANGED interrupted
    BY <1>2, <2>1, <2>2 DEF R!Overwrites, R!ProposalStatuses
  <2>3. CASE R!Loses(s) /\ UNCHANGED <<proposal, clobbered>>
    BY <1>2, <2>1, <2>3 DEF R!Loses
  <2> QED BY <2>2, <2>3 DEF R!StartExecution
<1>6. RemediationTypes' /\ IndRisk'
  BY <1>1, <1>3, <1>4, <1>5 DEF RemediationTypes, IndRisk
<1>7. NoId \notin Proposals
  BY ExecutionAssumption DEF R!RemediationAssumption
<1>8. IndWork'
  <2>1. Len(plan[p]) \in Nat \ {0}
    BY <1>1, <1>2, PlansAreLists
  <2>2. ASSUME NEW z \in Workers
        PROVE  /\ work'[z].step = "idle" <=> work'[z].proposal = NoId
               /\ work'[z].step # "idle" =>
                    work'[z].proposal \in Proposals /\ proposal'[work'[z].proposal] # "absent"
               /\ work'[z].step = "starting" => work'[z].index = 1 /\ ~work'[z].failed
               /\ work'[z].step \in R!ExecutingSteps \ {"finishing"} =>
                    work'[z].index \in 1..Len(plan[work'[z].proposal])
               /\ work'[z].step = "passed" =>
                    RiskOf[plan[work'[z].proposal][work'[z].index].tool] = "low"
    <3>1. CASE z = s
      BY <1>2, <1>3, <1>5, <1>7, <2>1, <3>1
    <3>2. CASE z # s
      <4>1. work'[z] = work[z]
        BY <1>3, <3>2
      <4>2. work[z].step # "idle" =>
                work[z].proposal \in Proposals /\ proposal'[work[z].proposal] # "absent"
        BY <1>1, <1>5 DEF IndWork
      <4> QED BY <1>1, <4>1, <4>2 DEF IndWork, R!Step
    <3> QED BY <3>1, <3>2
  <2>3. \A q \in Proposals : proposal'[q] # "absent" => plan[q] \in Plans
    BY <1>1, <1>2, <1>5 DEF IndWork
  <2> QED BY <1>3, <2>2, <2>3 DEF IndWork, R!Step
<1>9. ASSUME NEW q \in Proposals, q \notin clobbered', q \notin interrupted'
      PROVE  Told(q)' /\ \A z \in Workers : work'[z].proposal = q => Accurate(z, q)'
  <2>1. Told(q) /\ \A z \in Workers : work[z].proposal = q => Accurate(z, q)
    BY <1>1, <1>5, <1>9 DEF IndClean
  <2>2. CASE q = p
    <3>1. /\ proposal'[p] = "executing"
          /\ \A z \in Workers \ {s} : work'[z].proposal # p
      BY <1>3, <1>5, <1>9, <2>2
    <3>2. proposal[p] = "approved" /\ executions[p] = 0
      BY <1>2, <1>3, <2>1, <2>2 DEF Accurate, Told
    <3>3. Told(p)'
      BY <1>3, <1>4, <3>1, <3>2 DEF Told, R!Attended, R!ExecutingSteps
    <3>4. Accurate(s, p)'
      <4>1. \A n \in DOMAIN steps[p] : ~(n < 1)
        BY <1>1, <1>2, PlansAreLists
      <4>2. ~work'[s].failed
        BY <1>1, <1>3 DEF IndWork
      <4> QED BY <1>3, <3>1, <4>1, <4>2 DEF Accurate
    <3> QED BY <2>2, <3>1, <3>3, <3>4
  <2>3. CASE q # p
    <3>1. R!Attended(q) => R!Attended(q)'
      BY <1>2, <1>3, <2>3 DEF R!Attended
    <3>2. Told(q)'
      BY <1>3, <1>4, <1>5, <2>1, <2>3, <3>1 DEF Told, AllSucceeded, SomeFailed
    <3>3. ASSUME NEW z \in Workers, work'[z].proposal = q
          PROVE  Accurate(z, q)'
      <4>1. z # s /\ work'[z] = work[z] /\ Accurate(z, q)
        BY <1>3, <2>1, <2>3, <3>3
      <4>2. \A y \in Workers \ {z} : work[y].proposal # q => work'[y].proposal # q
        BY <1>3, <2>3
      <4> QED BY <1>3, <1>5, <2>3, <4>1, <4>2 DEF Accurate, AllSucceeded, SomeFailed
    <3> QED BY <3>2, <3>3
  <2> QED BY <2>2, <2>3
<1>10. IndClean'
  BY <1>5, <1>9 DEF IndClean
<1> QED BY <1>6, <1>8, <1>10 DEF RemediationInv

\* An UPDATE of a step in the loop, with what the loop does after it.
MarksStep(s, status) ==
    LET now == work[s]
        next == work'[s]
    IN  /\ UNCHANGED <<proposal, plan, executions, clobbered>>
        /\ R!StepBecomes(s, status)
        /\ now.step \in R!ExecutingSteps \ {"finishing"}
        /\ status = "succeeded" => now.step = "passed"
        /\ work' \in [Workers -> R!Works]
        /\ \A z \in Workers \ {s} : work'[z] = work[z]
        /\ next.proposal = now.proposal
        /\ next.failed <=> now.failed \/ status = "failed"
        /\ \/ status = "executing" /\ next.step = "step" /\ next.index = now.index
           \/ /\ status \in {"succeeded", "failed"}
              /\ next.step \in {"stepping", "finishing"}
              /\ next.index = now.index + 1
              /\ next.step = "stepping" => now.index # Len(plan[R!On(s)])
              /\ next.step = "finishing" =>
                    status = "failed" \/ now.index = Len(plan[R!On(s)])

\* The three UPDATEs of a step are such.
LEMMA LoopMarks ==
    ASSUME RemediationTypes, IndWork, NEW s \in Workers,
           R!BeginStep(s) \/ R!SucceedStep(s) \/ R!FailStep(s)
    PROVE  \E status \in {"executing", "succeeded", "failed"} : MarksStep(s, status)
<1> USE DEF R!At, R!ExecutingSteps
<1>1. CASE R!BeginStep(s)
  <2>1. R!Proceeds(s, "step")
    BY <1>1 DEF R!BeginStep
  <2>2. MarksStep(s, "executing")
    BY <1>1, <2>1, WentOn DEF R!BeginStep, MarksStep
  <2> QED BY <2>2
<1>2. CASE R!SucceedStep(s)
  <2>1. R!Advances(s, FALSE)
    BY <1>2 DEF R!SucceedStep
  <2>2. /\ work' \in [Workers -> R!Works]
        /\ work'[s].proposal = work[s].proposal
        /\ work'[s].index = work[s].index + 1
        /\ work'[s].failed <=> work[s].failed \/ FALSE
        /\ work'[s].step \in {"stepping", "finishing"}
        /\ work'[s].step = "finishing" => FALSE \/ work[s].index = Len(plan[R!On(s)])
        /\ work'[s].step = "stepping" => work[s].index # Len(plan[R!On(s)])
        /\ \A z \in Workers \ {s} : work'[z] = work[z]
    BY <2>1, Advanced
  <2>3. MarksStep(s, "succeeded")
    BY <1>2, <2>2 DEF R!SucceedStep, MarksStep
  <2> QED BY <2>3
<1>3. CASE R!FailStep(s)
  <2>1. R!Advances(s, TRUE)
    BY <1>3 DEF R!FailStep
  <2>2. /\ work' \in [Workers -> R!Works]
        /\ work'[s].proposal = work[s].proposal
        /\ work'[s].index = work[s].index + 1
        /\ work'[s].failed <=> work[s].failed \/ TRUE
        /\ work'[s].step \in {"stepping", "finishing"}
        /\ work'[s].step = "stepping" => work[s].index # Len(plan[R!On(s)])
        /\ \A z \in Workers \ {s} : work'[z] = work[z]
    BY <2>1, Advanced
  <2>3. MarksStep(s, "failed")
    BY <1>3, <2>2 DEF R!FailStep, MarksStep
  <2> QED BY <2>3
<1> QED BY <1>1, <1>2, <1>3

\* While it executes a proposal that is sound, a request remembers of the steps
\* behind it what became of them.
LEMMA MarkKeeps ==
    ASSUME RemediationInv, NEW s \in Workers,
           NEW status \in {"executing", "succeeded", "failed"}, MarksStep(s, status)
    PROVE  RemediationInv'
<1> USE DEF R!At, R!On
<1>1. RemediationTypes /\ IndWork /\ IndRisk /\ IndClean
  BY DEF RemediationInv
<1>2. /\ UNCHANGED <<proposal, plan, executions, clobbered>>
      /\ work[s].step \in R!ExecutingSteps \ {"finishing"}
      /\ work'[s].step \in {"step", "stepping", "finishing"}
      /\ work' \in [Workers -> R!Works]
      /\ \A z \in Workers \ {s} : work'[z] = work[z]
      /\ work'[s].proposal = work[s].proposal
  BY DEF MarksStep
<1>3. PICK p \in Proposals : p = work[s].proposal /\ proposal[p] # "absent"
  BY <1>1, <1>2 DEF IndWork, R!ExecutingSteps
<1>4. PICK i \in DOMAIN plan[p] : i = work[s].index
  BY <1>1, <1>2, <1>3, PlansAreLists DEF IndWork
<1>5. /\ Len(plan[p]) \in Nat \ {0}
      /\ DOMAIN plan[p] = 1..Len(plan[p])
      /\ DOMAIN steps[p] = 1..Len(plan[p])
  BY <1>1, <1>3, PlansAreLists
<1>6. /\ steps' = [q \in Proposals |-> steps'[q]]
      /\ steps'[p] \in [DOMAIN plan[p] -> StepStatuses]
      /\ \A q \in Proposals \ {p} : steps'[q] = steps[q]
      /\ \A n \in DOMAIN plan[p] \ {i} : steps'[p][n] = steps[p][n]
      /\ p \notin interrupted' => steps'[p][i] = status
      /\ steps'[p][i] \in {status, steps[p][i]}
      /\ interrupted \subseteq interrupted'
  BY ZenonT(30), <1>1, <1>3, <1>4, StepMarked DEF MarksStep, StepStatuses
<1>7. RemediationTypes'
  <2>1. ASSUME NEW q \in Proposals
        PROVE  steps'[q] \in [DOMAIN plan[q] -> StepStatuses]
    BY <1>1, <1>6 DEF RemediationTypes
  <2> QED BY <1>1, <1>2, <1>6, <2>1 DEF RemediationTypes
<1>8. IndRisk'
  <2>1. ASSUME NEW q \in Proposals, NEW n \in DOMAIN plan[q], steps'[q][n] = "succeeded"
        PROVE  RiskOf[plan[q][n].tool] = "low"
    <3>1. CASE q = p /\ n = i /\ status = "succeeded"
      BY <1>1, <1>3, <1>4, <3>1 DEF MarksStep, IndWork, R!Step
    <3>2. CASE ~(q = p /\ n = i /\ status = "succeeded")
      BY <1>1, <1>6, <2>1, <3>2 DEF IndRisk
    <3> QED BY <3>1, <3>2
  <2> QED BY <1>2, <2>1 DEF IndRisk
<1>9. IndWork'
  <2>1. ASSUME NEW z \in Workers
        PROVE  /\ work'[z].step = "idle" <=> work'[z].proposal = NoId
               /\ work'[z].step # "idle" =>
                    work'[z].proposal \in Proposals /\ proposal[work'[z].proposal] # "absent"
               /\ work'[z].step = "starting" => work'[z].index = 1 /\ ~work'[z].failed
               /\ work'[z].step \in R!ExecutingSteps \ {"finishing"} =>
                    work'[z].index \in 1..Len(plan[work'[z].proposal])
               /\ work'[z].step = "passed" =>
                    RiskOf[plan[work'[z].proposal][work'[z].index].tool] = "low"
    <3>1. CASE z = s
      <4>1. work'[s].step # "finishing" => work'[s].index \in 1..Len(plan[p])
        BY <1>3, <1>4, <1>5 DEF MarksStep
      <4>2. NoId \notin Proposals
        BY ExecutionAssumption DEF R!RemediationAssumption
      <4> QED BY <1>2, <1>3, <3>1, <4>1, <4>2
    <3>2. CASE z # s
      BY <1>1, <1>2, <3>2 DEF IndWork, R!Step
    <3> QED BY <3>1, <3>2
  <2> QED BY <1>1, <1>2, <2>1 DEF IndWork, R!Step
<1>10. ASSUME NEW q \in Proposals, q \notin clobbered, q \notin interrupted'
       PROVE  Told(q)' /\ \A z \in Workers : work'[z].proposal = q => Accurate(z, q)'
  <2>1. Told(q) /\ \A z \in Workers : work[z].proposal = q => Accurate(z, q)
    BY <1>1, <1>6, <1>10 DEF IndClean
  <2>2. R!Attended(q) => R!Attended(q)'
    BY <1>2 DEF R!Attended, R!ExecutingSteps
  <2>3. CASE q = p
    <3>1. /\ proposal[p] = "executing"
          /\ \A z \in Workers \ {s} : work[z].proposal # p
          /\ IF work[s].failed
             THEN \E n \in DOMAIN steps[p] : n < i /\ steps[p][n] = "failed"
             ELSE \A n \in DOMAIN steps[p] : n < i => steps[p][n] = "succeeded"
      BY <1>2, <1>3, <1>4, <2>1, <2>3 DEF Accurate
    <3>2. Told(p)'
      BY <1>2, <2>1, <2>2, <2>3, <3>1 DEF Told
    <3>3. steps'[p][i] = status /\ DOMAIN steps'[p] = 1..Len(plan[p])
      BY <1>5, <1>6, <1>10, <2>3
    <3>4. CASE status = "executing"
      <4>1. /\ work'[s].step = "step" /\ work'[s].index = i
            /\ work'[s].failed <=> work[s].failed
        BY <1>4, <3>4 DEF MarksStep
      <4>2. IF work[s].failed
            THEN \E n \in DOMAIN steps'[p] : n < i /\ steps'[p][n] = "failed"
            ELSE \A n \in DOMAIN steps'[p] : n < i => steps'[p][n] = "succeeded"
        BY <1>5, <1>6, <3>1, <3>3
      <4> QED BY <1>2, <1>3, <2>3, <3>1, <3>2, <4>1, <4>2 DEF Accurate
    <3>5. CASE status = "succeeded"
      <4>1. /\ work'[s].step \in {"stepping", "finishing"} /\ work'[s].index = i + 1
            /\ work'[s].failed <=> work[s].failed
            /\ work'[s].step = "finishing" => i = Len(plan[p])
        BY <1>3, <1>4, <3>5 DEF MarksStep
      <4>2. IF work[s].failed
            THEN \E n \in DOMAIN steps'[p] : n < i + 1 /\ steps'[p][n] = "failed"
            ELSE \A n \in DOMAIN steps'[p] : n < i + 1 => steps'[p][n] = "succeeded"
        BY <1>5, <1>6, <3>1, <3>3, <3>5
      <4>3. work'[s].step = "finishing" =>
                IF work'[s].failed THEN SomeFailed(p)' ELSE AllSucceeded(p)'
        BY <3>3, <4>1, <4>2 DEF SomeFailed, AllSucceeded
      <4> QED BY <1>2, <1>3, <2>3, <3>1, <3>2, <4>1, <4>2, <4>3 DEF Accurate
    <3>6. CASE status = "failed"
      <4>1. /\ work'[s].step \in {"stepping", "finishing"} /\ work'[s].index = i + 1
            /\ work'[s].failed
        BY <1>3, <1>4, <3>6 DEF MarksStep
      <4>2. \E n \in DOMAIN steps'[p] : n < i + 1 /\ steps'[p][n] = "failed"
        BY <1>5, <3>3, <3>6
      <4> QED BY <1>2, <1>3, <2>3, <3>1, <3>2, <4>1, <4>2 DEF Accurate, SomeFailed
    <3> QED BY <3>4, <3>5, <3>6
  <2>4. CASE q # p
    <3>1. Told(q)'
      BY <1>2, <1>6, <2>1, <2>2, <2>4 DEF Told, AllSucceeded, SomeFailed
    <3>2. ASSUME NEW z \in Workers, work'[z].proposal = q
          PROVE  Accurate(z, q)'
      <4>1. z # s /\ work'[z] = work[z] /\ Accurate(z, q)
        BY <1>2, <1>3, <2>1, <2>4, <3>2
      <4>2. \A y \in Workers \ {z} : work[y].proposal # q => work'[y].proposal # q
        BY <1>2, <1>3, <2>4
      <4> QED BY <1>2, <1>6, <2>4, <4>1, <4>2 DEF Accurate, AllSucceeded, SomeFailed
    <3> QED BY <3>1, <3>2
  <2> QED BY <2>3, <2>4
<1>11. IndClean'
  BY <1>2, <1>10 DEF IndClean
<1> QED BY <1>7, <1>8, <1>9, <1>11 DEF RemediationInv

\* A step of another component leaves a remediation as it was.
LEMMA RemediationSpared ==
    ASSUME RemediationInv, UNCHANGED remediation
    PROVE  RemediationInv'
<1> USE DEF remediation, RemediationInv
<1>1. RemediationTypes' /\ IndRisk'
  BY DEF RemediationTypes, IndRisk
<1>2. IndWork'
  BY DEF IndWork, R!At, R!On, R!Step
<1>3. IndClean'
  BY DEF IndClean, Accurate, Told, AllSucceeded, SomeFailed, R!At, R!On, R!Attended
<1> QED BY <1>1, <1>2, <1>3

\* So every step of the component keeps the invariant, ...
LEMMA RemediationStep == RemediationInv /\ R!RNext => RemediationInv'
<1> SUFFICES ASSUME RemediationInv, R!RNext
             PROVE  RemediationInv'
  OBVIOUS
<1>1. CASE R!ManageAgents /\ UNCHANGED <<R!records, work>>
  BY <1>1, RemediationSpared DEF R!records, remediation
<1>2. ASSUME NEW p \in Proposals, NEW source \in {"agent", "operator"}, NEW new \in Plans,
             R!CreateProposal(p, source, new)
      PROVE  RemediationInv'
  BY <1>2, CreateKeeps
<1>3. ASSUME NEW s \in Workers, R!Remediate(s)
      PROVE  RemediationInv'
  <2>1. CASE Looks(s)
    BY <2>1, LookKeeps
  <2>2. CASE R!ApproveProposal(s) \/ R!CancelProposal(s) \/ R!FinishExecution(s)
    BY <2>2, OverwriteKeeps
  <2>3. CASE R!StartExecution(s)
    BY <2>3, StartKeeps
  <2>4. CASE R!BeginStep(s) \/ R!SucceedStep(s) \/ R!FailStep(s)
    BY <2>4, LoopMarks, MarkKeeps DEF RemediationInv
  <2>5. CASE R!GiveUpWork(s)
    BY <2>5, GiveUpKeeps
  <2> QED BY <1>3, <2>1, <2>2, <2>3, <2>4, <2>5 DEF R!Remediate, Looks
<1> QED BY <1>1, <1>2, <1>3 DEF R!RNext

\* ... and it holds before anything was proposed.
LEMMA RemediationInit == R!RInit => RemediationInv
<1> SUFFICES ASSUME R!RInit
             PROVE  RemediationInv
  OBVIOUS
<1>1. /\ \A p \in Proposals : /\ proposal[p] = "absent" /\ executions[p] = 0
                              /\ plan[p] = <<>> /\ steps[p] = <<>>
      /\ \A s \in Workers : work[s] = R!NoWork
  BY DEF R!RInit
<1>2. R!NoWork \in R!Works
  BY DEF R!NoWork, R!Works
<1>3. DOMAIN <<>> = {} /\ <<>> \in [{} -> StepStatuses]
  OBVIOUS
<1>4. RemediationTypes
  <2>1. /\ proposal \in [Proposals -> R!ProposalStatuses]
        /\ plan \in [Proposals -> Plans \cup {<<>>}]
        /\ steps = [p \in Proposals |-> steps[p]]
        /\ executions \in [Proposals -> Nat]
    BY DEF R!RInit, R!ProposalStatuses
  <2>2. work \in [Workers -> R!Works]
    BY <1>2 DEF R!RInit
  <2>3. \A p \in Proposals : steps[p] \in [DOMAIN plan[p] -> StepStatuses]
    BY <1>1, <1>3
  <2> QED BY <2>1, <2>2, <2>3 DEF RemediationTypes
<1>5. IndWork
  BY <1>1 DEF IndWork, R!At, R!On, R!NoWork, R!ExecutingSteps
<1>6. IndRisk
  BY <1>1, <1>3 DEF IndRisk
<1>7. NoId \notin Proposals
  BY ExecutionAssumption DEF R!RemediationAssumption
<1>8. IndClean
  BY <1>1, <1>7 DEF IndClean, Told, R!On, R!NoWork
<1> QED BY <1>4, <1>5, <1>6, <1>8 DEF RemediationInv

-----------------------------------------------------------------------------
(* The components side by side *)

ExecInv == ProxmoxInv /\ GatewayInv /\ RemediationInv

\* A row of an approval that is not r stays as it is in a step about row r.
LEMMA RowAlone ==
    ASSUME P!RowTypeOK, NEW r \in Requests, NEW q \in Requests, q # r,
           P!RowRequested(r) \/ P!RowAutoApproved(r) \/ P!RowDecided(r) \/ P!RowExecuted(r)
    PROVE  approval'[q] = approval[q]
BY DEF P!RowTypeOK, P!RowRequested, P!RowAutoApproved, P!RowDecided, P!RowApproved,
       P!RowRefused, P!RowOverdue, P!RowExecuted

\* No approval is both of an action and of a tool: each has an action type.
LEMMA ApprovalsApart ==
    /\ P!Actions \subseteq Requests
    /\ G!ToolRequests \subseteq Requests
    /\ P!Actions \cap G!ToolRequests = {}
BY ExecutionAssumption
   DEF P!ProxmoxAssumption, G!GatewayAssumption, P!Actions, G!ToolRequests

\* An action on Proxmox leaves the approvals of tools alone, ...
LEMMA ActionsSpareTools ==
    ASSUME ProxmoxInv, P!PSteps, NEW r \in G!ToolRequests
    PROVE  approval'[r] = approval[r]
<1>1. P!RowTypeOK
  BY DEF ProxmoxInv, P!PTypeOK
<1>2. r \in Requests /\ \A a \in P!Actions : a \in Requests /\ a # r
  BY ApprovalsApart
<1>3. ASSUME NEW a \in P!Actions, P!CreateAction(a) \/ P!Decide(a)
      PROVE  approval'[r] = approval[r]
  BY <1>1, <1>2, <1>3, RowAlone DEF P!CreateAction, P!Decide
<1>4. ASSUME NEW c \in Callers, P!RecordSuccess(c)
      PROVE  approval'[r] = approval[r]
  <2>1. caller[c].id \in P!Actions
    BY <1>4 DEF ProxmoxInv, IndIds, P!RecordSuccess, P!At, P!Executing
  <2> QED BY <1>1, <1>2, <1>4, <2>1, RowAlone DEF P!RecordSuccess
<1>5. ASSUME NEW c \in Callers, P!Execute(c), ~P!RecordSuccess(c)
      PROVE  approval'[r] = approval[r]
  BY <1>5 DEF P!Execute, P!BeginExecute, P!CheckWindow, P!LoadAction, P!CheckApproval,
      P!CheckRequirements, P!Refuse, P!Call, P!RecordFailure, P!rows
<1>6. ASSUME NEW c \in Callers, P!ServeWindow(c)
      PROVE  approval'[r] = approval[r]
  BY <1>6 DEF P!ServeWindow, P!BeginOpen, P!InsertWindow, P!BeginClose, P!ExpireWindow,
      P!CloseWindow, P!AnnounceClosed, P!SelectStale, P!AnnounceExpired, P!ReportWindow, P!rows
<1>7. ASSUME NEW c \in Callers,
             \/ \E a \in P!Actions : P!ReadEndedAction(c, a)
             \/ P!RecordOutcome(c) \/ P!GiveUp(c)
      PROVE  approval'[r] = approval[r]
  BY <1>7 DEF P!ReadEndedAction, P!RecordOutcome, P!GiveUp, P!rows
<1>8. ASSUME NEW w \in Windows, P!WindowLapses(w)
      PROVE  approval'[r] = approval[r]
  BY <1>8 DEF P!WindowLapses
<1> QED BY <1>3, <1>4, <1>5, <1>6, <1>7, <1>8 DEF P!PSteps

\* ... and a step of the tool gateway those of actions.
LEMMA ToolsSpareActions ==
    ASSUME GatewayInv, G!GNext, NEW a \in P!Actions
    PROVE  approval'[a] = approval[a]
<1>1. P!RowTypeOK
  BY DEF GatewayInv, GatewayTypes
<1>2. a \in Requests /\ \A r \in G!ToolRequests : r \in Requests /\ a # r
  BY ApprovalsApart
<1>3. ASSUME NEW r \in G!ToolRequests, G!RequestApproval(r) \/ G!DecideApproval(r)
      PROVE  approval'[a] = approval[a]
  <2>1. P!RowRequested(r) \/ P!RowAutoApproved(r) \/ P!RowDecided(r) \/ P!RowExecuted(r)
    BY <1>2, <1>3, SameRows DEF G!RequestApproval, G!DecideApproval
  <2> QED BY <1>1, <1>2, <2>1, RowAlone
<1>4. ASSUME NEW s \in Servers, G!ExecuteTool(s)
      PROVE  approval'[a] = approval[a]
  <2>1. server[s].request \in G!ToolRequests \cup {NoId}
    BY DEF GatewayInv, GatewayTypes, G!Jobs
  <2>2. CASE server[s].request = NoId
    BY <1>4, <2>2 DEF G!ExecuteTool
  <2>3. CASE server[s].request # NoId
    <3>1. P!RowExecuted(server[s].request) \/ UNCHANGED approval
      BY <1>2, <1>4, <2>1, <2>3, SameRows DEF G!ExecuteTool
    <3> QED BY <1>1, <1>2, <2>1, <2>3, <3>1, RowAlone
  <2> QED BY <2>2, <2>3
<1>5. ASSUME NEW s \in Servers, G!UseTool(s), ~G!ExecuteTool(s)
      PROVE  approval'[a] = approval[a]
  BY <1>5 DEF G!UseTool, G!BeginTool, G!CheckAgent, G!CheckGrant, G!CheckVerified, G!Deny,
      G!RecordDecision, G!GiveUpTool, G!gvars
<1>6. ASSUME NEW i \in Intentions, G!CreateIntention(i)
      PROVE  approval'[a] = approval[a]
  BY <1>6 DEF G!CreateIntention
<1> QED BY <1>3, <1>4, <1>5, <1>6 DEF G!GNext

\* The invariants of the three components hold together.
LEMMA ExecutionInvariant == Spec => []ExecInv
<1>1. Init => ExecInv
  BY ProxmoxInit, GatewayInit, RemediationInit DEF Init, ExecInv
<1>2. ExecInv /\ [Next]_vars => ExecInv'
  <2> SUFFICES ASSUME ExecInv, [Next]_vars
               PROVE  ExecInv'
    OBVIOUS
  <2>1. CASE ProxmoxNext
    <3>1. ProxmoxInv'
      BY <2>1, ProxmoxStep DEF ProxmoxNext, ExecInv
    <3>2. P!RowTypeOK'
      BY <3>1 DEF ProxmoxInv, P!PTypeOK
    <3>3. \A r \in G!ToolRequests : approval'[r] = approval[r]
      BY <2>1, ActionsSpareTools DEF ProxmoxNext, ExecInv, P!PNext
    <3>4. GatewayInv'
      BY <2>1, <3>2, <3>3, GatewaySpared DEF ProxmoxNext, ExecInv
    <3>5. RemediationInv'
      BY <2>1, RemediationSpared DEF ProxmoxNext, ExecInv
    <3> QED BY <3>1, <3>4, <3>5 DEF ExecInv
  <2>2. CASE GatewayNext
    <3>1. GatewayInv'
      BY <2>2, GatewayStep DEF GatewayNext, ExecInv
    <3>2. P!RowTypeOK'
      BY <3>1 DEF GatewayInv, GatewayTypes
    <3>3. \A a \in P!Actions : approval'[a] = approval[a]
      BY <2>2, ToolsSpareActions DEF GatewayNext, ExecInv
    <3>4. ProxmoxInv'
      BY <2>2, <3>2, <3>3, ProxmoxSpared DEF GatewayNext, ExecInv
    <3>5. RemediationInv'
      BY <2>2, RemediationSpared DEF GatewayNext, ExecInv
    <3> QED BY <3>1, <3>4, <3>5 DEF ExecInv
  <2>3. ASSUME UNCHANGED <<approval, proxmox, gateway>>
        PROVE  ProxmoxInv' /\ GatewayInv'
    <3>1. P!RowTypeOK'
      BY <2>3 DEF ExecInv, GatewayInv, GatewayTypes, P!RowTypeOK
    <3> QED BY <2>3, <3>1, ProxmoxSpared, GatewaySpared DEF ExecInv
  <2>4. CASE RemediationNext
    <3>1. RemediationInv'
      BY <2>4, RemediationStep DEF RemediationNext, ExecInv
    <3> QED BY <2>3, <2>4, <3>1 DEF RemediationNext, ExecInv
  <2>5. CASE UNCHANGED vars
    BY <2>3, <2>5, RemediationSpared DEF vars, ExecInv
  <2> QED BY <2>1, <2>2, <2>4, <2>5 DEF Next
<1> QED BY <1>1, <1>2, PTL DEF Spec

-----------------------------------------------------------------------------
(* What they establish *)

\* Whatever else happens between the checks of ExecuteAction and its call of
\* Proxmox, each of the three facts that it asks for has held meanwhile.
THEOREM ChecksPrecedeCalls == Spec => []CallsFollowChecks
<1>1. ExecInv => CallsFollowChecks
  <2> SUFFICES ASSUME ExecInv, NEW c \in Callers, caller[c].step \in {"answered", "erred"}
               PROVE  held[c] = P!Facts
    BY DEF CallsFollowChecks, P!CallsFollowChecks
  <2>1. {"window", "approval", "approvers"} \subseteq held[c]
    BY DEF ExecInv, ProxmoxInv, IndHeld, PastSteps
  <2>2. held[c] \subseteq P!Facts
    BY DEF ExecInv, ProxmoxInv, P!PTypeOK
  <2> QED BY <2>1, <2>2 DEF P!Facts
<1> QED BY <1>1, ExecutionInvariant, PTL

\* One approval is one call of Proxmox, unless requests overlapped or a call was
\* not recorded; and the tables only say what has happened.
THEOREM CallsAreAccounted == Spec => []CallsAccounted
<1>1. ExecInv => CallsAccounted
  <2> SUFFICES ASSUME ExecInv, NEW a \in P!Actions
               PROVE  /\ calls[a] <= 1 \/ a \in excused
                      /\ action[a] = "succeeded" \/ approval[a].executed => a \in answered
                      /\ a \in outcome => action[a] \in {"succeeded", "failed"}
    BY DEF CallsAccounted, P!CallsAccounted
  <2> QED BY DEF ExecInv, ProxmoxInv, IndCalls
<1> QED BY <1>1, ExecutionInvariant, PTL

\* The windows are counted alike.
LEMMA SameCount ==
    ASSUME NEW S
    PROVE  P!Cardinality(S) = Cardinality(S)
BY DEF P!Cardinality, Cardinality

\* At most one mutation window is open unless two requests to open one
\* overlapped, and none that was announced as over.
THEOREM WindowsExclude == Spec => []OneOpenWindow
<1>1. ExecInv => OneOpenWindow
  <2> SUFFICES ASSUME ExecInv
               PROVE  OneOpenWindow
    OBVIOUS
  <2> DEFINE Open == {w \in Windows : window[w] = "open"}
  <2>1. ASSUME ~crowded
        PROVE  Cardinality(Open) <= 1
    <3>1. \A v, w \in Open : v = w
      BY <2>1 DEF ExecInv, ProxmoxInv, IndWindows
    <3>2. CASE Open = {}
      BY <3>2, FS_EmptySet
    <3>3. CASE Open # {}
      <4>1. PICK w \in Open : Open = {w}
        BY <3>1, <3>3
      <4> HIDE DEF Open
      <4>2. Cardinality(Open) = 1
        BY <4>1, FS_Singleton
      <4> QED BY <4>2
    <3> QED BY <3>2, <3>3
  <2>2. \A w \in ended : window[w] # "open"
    BY DEF ExecInv, ProxmoxInv, IndWindows
  <2>3. P!Cardinality(Open) = Cardinality(Open)
    BY SameCount
  <2> QED BY <2>1, <2>2, <2>3 DEF OneOpenWindow, P!OneOpenWindow
<1> QED BY <1>1, ExecutionInvariant, PTL

\* An approval of a tool is used once unless its use was contested, it says so
\* only if it was, and an intention's status has its effect on record.
THEOREM EffectsAreEarned == Spec => []EffectsEarned
<1>1. ExecInv => EffectsEarned
  <2> SUFFICES ASSUME ExecInv
               PROVE  EffectsEarned
    OBVIOUS
  <2>1. ASSUME NEW r \in G!ToolRequests
        PROVE  /\ used[r] <= 1 \/ r \in contested
               /\ approval[r].executed => used[r] >= 1
               /\ used[r] >= 1 => approval[r].approvers >= 1
    BY DEF ExecInv, GatewayInv, IndUse
  <2>2. \A i \in Intentions :
            /\ intention[i] = "executed" => "succeeded" \in effects[i]
            /\ intention[i] = "blocked" => "refused" \in effects[i]
    BY DEF ExecInv, GatewayInv, IndEffects
  <2> QED BY <2>1, <2>2 DEF EffectsEarned, G!EffectsEarned
<1> QED BY <1>1, ExecutionInvariant, PTL

\* The status of a proposal tells what became of its steps, unless two requests
\* wrote it at once or its execution was interrupted.
THEOREM ProposalsAreSound == Spec => []ProposalSound
<1>1. ExecInv => ProposalSound
  <2> SUFFICES ASSUME ExecInv
               PROVE  ProposalSound
    OBVIOUS
  <2>1. \A p \in Proposals : \A n \in DOMAIN plan[p] :
            steps[p][n] = "succeeded" => RiskOf[plan[p][n].tool] = "low"
    BY DEF ExecInv, RemediationInv, IndRisk
  <2>2. ASSUME NEW p \in Proposals \ (clobbered \cup interrupted)
        PROVE  /\ proposal[p] = "completed" =>
                    \A n \in DOMAIN steps[p] : steps[p][n] = "succeeded"
               /\ proposal[p] = "failed" => \E n \in DOMAIN steps[p] : steps[p][n] = "failed"
               /\ proposal[p] = "executing" => R!Attended(p)
               /\ proposal[p] = "cancelled" =>
                    executions[p] = 0 \/ \E n \in DOMAIN steps[p] : steps[p][n] = "failed"
               /\ executions[p] <= 1
    <3>1. Told(p)
      BY DEF ExecInv, RemediationInv, IndClean
    <3>2. proposal[p] \in R!ProposalStatuses
      BY DEF ExecInv, RemediationInv, RemediationTypes
    <3>3. executions[p] <= 1
      BY <3>1, <3>2 DEF Told, R!ProposalStatuses
    <3> QED BY <3>1, <3>3 DEF Told, AllSucceeded, SomeFailed
  <2> QED BY <2>1, <2>2 DEF ProposalSound, R!ProposalSound
<1> QED BY <1>1, ExecutionInvariant, PTL
=============================================================================
