--------------------------- MODULE ApprovalProofs ---------------------------
(***************************************************************************)
(* Theorems about Approval for every policy and every number of requests,  *)
(* members, handlers and replicas.  The argument: decisions are only ever  *)
(* added, so a quorum once reached stays (QuorumKept); a handler that has  *)
(* inserted its decision is the only one with that user's, so the count it *)
(* takes never exceeds what the table holds when it commits (IndHandlers); *)
(* and whatever status a stale handler overwrites, what it writes is true  *)
(* of the decisions by then (IndRows).  From the same invariant: every     *)
(* step is one of ApprovalRow (StepRefines), and a monitor that has        *)
(* announced a request never selects it again (Announced).                 *)
(***************************************************************************)
EXTENDS Approval, FiniteSetTheorems, TLAPS

IndRows ==
    \A r \in Requests :
        /\ status[r] = "absent" =>
            /\ requester[r] = None
            /\ effects[r] = 0
            /\ expired[r] = 0
            /\ \A u \in Users : decision[r][u] = "none"
        /\ status[r] # "absent" => requester[r] \in Users
        /\ requester[r] \in Approvers(r) => Policy[r].self
        /\ status[r] = "pending" => \A u \in Users : decision[r][u] # "rejected"
        /\ status[r] = "expired" \/ expired[r] > 0 => clock[r] = "overdue"
        /\ status[r] \in {"approved", "executed"} \/ effects[r] > 0 => Quorum(r)

IndHandlers ==
    /\ \A h \in Handlers :
        /\ handler[h].step # "idle" => handler[h].req \in Requests
        /\ handler[h].step \in {"loaded", "checked", "inserted", "counted"} =>
                handler[h].user \in Users
    /\ \A h \in Handlers, r \in Requests : handler[h].req = r =>
        /\ handler[h].step # "idle" => status[r] # "absent"
        /\ handler[h].step \in {"checked", "inserted", "counted"} =>
                (handler[h].user = requester[r] => Policy[r].self)
        /\ handler[h].step \in {"inserted", "counted"} =>
                decision[r][handler[h].user] = "none"
        /\ handler[h].step = "counted" =>
                handler[h].count <= Cardinality(Approvers(r)) + 1
        /\ handler[h].step = "execute" => Quorum(r)
        /\ handler[h].step = "expire" => clock[r] = "overdue"
    /\ \A g, h \in Handlers :
        /\ g # h
        /\ handler[g].step \in {"inserted", "counted"}
        /\ handler[h].step \in {"inserted", "counted"}
        /\ handler[g].req = handler[h].req
        => handler[g].user # handler[h].user
    /\ \A m \in Monitors : monitor[m].step = "expire" =>
        \A r \in monitor[m].todo : status[r] # "absent" /\ clock[r] = "overdue"

IndInv == TypeOK /\ IndRows /\ IndHandlers

\* The approvers of a request are members, and so can be counted.
LEMMA ApproversFinite == \A r \in Requests : IsFiniteSet(Approvers(r))
  BY ApprovalAssumption, FS_Subset DEF Approvers

\* A step that leaves the decisions and the requesters alone leaves the
\* quorums alone.
LEMMA QuorumSame ==
  ASSUME UNCHANGED <<decision, requester>>
  PROVE  \A r \in Requests : Approvers(r)' = Approvers(r) /\ Quorum(r)' = Quorum(r)
  BY DEF Approvers, Quorum

\* A new approval adds one approver to its request and none to any other.
LEMMA ApproverAdded ==
  ASSUME TypeOK, NEW q \in Requests, NEW u \in Users, decision[q][u] = "none",
         decision' = [decision EXCEPT ![q][u] = "approved"]
  PROVE  /\ Approvers(q)' = Approvers(q) \cup {u}
         /\ Cardinality(Approvers(q)') = Cardinality(Approvers(q)) + 1
         /\ \A r \in Requests \ {q} : Approvers(r)' = Approvers(r)
<1>1. Approvers(q)' = Approvers(q) \cup {u} /\ u \notin Approvers(q)
  BY DEF Approvers, TypeOK, Verdicts
<1>2. \A r \in Requests \ {q} : Approvers(r)' = Approvers(r)
  BY DEF Approvers, TypeOK, Verdicts
<1>3. Cardinality(Approvers(q) \cup {u}) = Cardinality(Approvers(q)) + 1
  BY <1>1, ApproversFinite, FS_AddElement
<1> QED
  BY <1>1, <1>2, <1>3

\* A rejection changes no request's approvers.
LEMMA NoApproverLost ==
  ASSUME TypeOK, NEW q \in Requests, NEW u \in Users, decision[q][u] = "none",
         decision' = [decision EXCEPT ![q][u] = "rejected"]
  PROVE  \A r \in Requests : Approvers(r)' = Approvers(r)
  BY DEF Approvers, TypeOK, Verdicts

\* A quorum is not lost to further approvals, nor to a requester who may be
\* among them.
LEMMA QuorumKept ==
  ASSUME TypeOK, UNCHANGED requester, NEW r \in Requests, Quorum(r),
         Approvers(r) \subseteq Approvers(r)',
         Cardinality(Approvers(r)) <= Cardinality(Approvers(r)'),
         Cardinality(Approvers(r)) \in Nat, Cardinality(Approvers(r)') \in Nat,
         requester[r] \in Approvers(r)' => Policy[r].self
  PROVE  Quorum(r)'
  BY ApprovalAssumption DEF Quorum, Policies, AutoApproved

\* Moving a handler on, and taking a row off a monitor's list, keep the types.
LEMMA MovesTyped ==
  ASSUME handler \in [Handlers -> HandlerStates], NEW h \in Handlers,
         NEW s \in Steps, NEW n \in Nat
  PROVE  /\ [handler EXCEPT ![h].step = s] \in [Handlers -> HandlerStates]
         /\ [handler EXCEPT ![h].step = s, ![h].count = n] \in [Handlers -> HandlerStates]
<1>1. handler[h] \in HandlerStates
  OBVIOUS
<1>2. /\ [handler[h] EXCEPT !.step = s] \in HandlerStates
      /\ [handler[h] EXCEPT !.step = s, !.count = n] \in HandlerStates
  BY <1>1 DEF HandlerStates
<1> QED
  BY <1>2

\* So does giving it a request.
LEMMA TakesTyped ==
  ASSUME handler \in [Handlers -> HandlerStates], NEW h \in Handlers,
         NEW s \in Steps, NEW r \in Requests, NEW u \in Users \cup {None},
         NEW v \in Verdicts \cup {"none"}, Takes(h, s, r, u, v)
  PROVE  handler' \in [Handlers -> HandlerStates]
<1>1. [step |-> s, req |-> r, user |-> u, verdict |-> v, count |-> 0] \in HandlerStates
  BY DEF HandlerStates
<1> QED
  BY <1>1 DEF Takes

\* A loop that is done with one of its rows is still a monitor's state.
LEMMA RowDoneTyped ==
  ASSUME monitor \in [Monitors -> MonitorStates], NEW m \in Monitors, NEW r
  PROVE  [monitor EXCEPT ![m].todo = @ \ {r}] \in [Monitors -> MonitorStates]
<1>1. monitor[m] \in MonitorStates
  OBVIOUS
<1>2. [monitor[m] EXCEPT !.todo = @ \ {r}] \in MonitorStates
  BY <1>1 DEF MonitorStates
<1> QED
  BY <1>2

\* What a rejection changes.
LEMMA RejectStep ==
  ASSUME IndInv, NEW h \in Handlers, Reject(h)
  PROVE  \E q \in Requests, u \in Users :
            /\ q = handler[h].req /\ u = handler[h].user /\ status[q] # "absent"
            /\ decision' = [decision EXCEPT ![q][u] = "rejected"]
            /\ status' = [status EXCEPT ![q] = "rejected"]
            /\ handler' = [handler EXCEPT ![h] = Idle]
            /\ UNCHANGED <<requester, clock, monitor, effects, expired>>
            /\ \A r \in Requests : Approvers(r)' = Approvers(r) /\ Quorum(r)' = Quorum(r)
<1>1. PICK q \in Requests, u \in Users :
            /\ q = handler[h].req /\ u = handler[h].user
            /\ decision[q][u] = "none" /\ status[q] # "absent"
  BY DEF Reject, IndInv, IndHandlers
<1>2. /\ decision' = [decision EXCEPT ![q][u] = "rejected"]
      /\ status' = [status EXCEPT ![q] = "rejected"]
      /\ handler' = [handler EXCEPT ![h] = Idle]
      /\ UNCHANGED <<requester, clock, monitor, effects, expired>>
  BY <1>1 DEF Reject, Ends, events
<1>3. \A r \in Requests : Approvers(r)' = Approvers(r)
  BY <1>1, <1>2, NoApproverLost DEF IndInv
<1>4. \A r \in Requests : Quorum(r)' = Quorum(r)
  BY <1>2, <1>3 DEF Quorum
<1> QED
  BY <1>1, <1>2, <1>3, <1>4

\* What an approval changes: whatever the handler counted before, by now there
\* are as many approvers as it takes the request to have.
LEMMA ApproveStep ==
  ASSUME IndInv, NEW h \in Handlers, Approve(h)
  PROVE  \E q \in Requests, u \in Users :
            /\ q = handler[h].req /\ u = handler[h].user /\ handler[h].step = "counted"
            /\ status[q] # "absent"
            /\ decision' = [decision EXCEPT ![q][u] = "approved"]
            /\ \/ status' = status
               \/ status' = [status EXCEPT ![q] = "approved"] /\ Quorum(q)'
            /\ handler' = [handler EXCEPT ![h] = Idle]
            /\ UNCHANGED <<requester, clock, monitor, effects, expired>>
            /\ \A r \in Requests :
                /\ requester[r] \in Approvers(r)' => Policy[r].self
                /\ Cardinality(Approvers(r)) \in Nat
                /\ Cardinality(Approvers(r)') \in Nat
                /\ Cardinality(Approvers(r)) <= Cardinality(Approvers(r)')
                /\ Quorum(r) => Quorum(r)'
<1>1. PICK q \in Requests, u \in Users, count \in Nat :
            /\ q = handler[h].req /\ u = handler[h].user /\ count = handler[h].count
            /\ handler[h].step = "counted"
            /\ count <= Cardinality(Approvers(q)) + 1
            /\ decision[q][u] = "none" /\ status[q] # "absent"
            /\ u = requester[q] => Policy[q].self
  <2>1. handler[h].step = "counted"
    BY DEF Approve
  <2>2. handler[h].req \in Requests /\ handler[h].user \in Users
    BY <2>1 DEF IndInv, IndHandlers
  <2>3. handler[h].count \in Nat
    BY DEF IndInv, TypeOK, HandlerStates
  <2> QED
    BY <2>1, <2>2, <2>3 DEF IndInv, IndHandlers
<1>2. /\ decision' = [decision EXCEPT ![q][u] = "approved"]
      /\ status' = IF count >= Policy[q].min
                   THEN [status EXCEPT ![q] = "approved"] ELSE status
      /\ handler' = [handler EXCEPT ![h] = Idle]
      /\ UNCHANGED <<requester, clock, monitor, effects, expired>>
  BY <1>1 DEF Approve, Ends, events
<1>3. /\ Approvers(q)' = Approvers(q) \cup {u}
      /\ Cardinality(Approvers(q)') = Cardinality(Approvers(q)) + 1
      /\ \A r \in Requests \ {q} : Approvers(r)' = Approvers(r)
  BY <1>1, <1>2, ApproverAdded DEF IndInv
<1>4. \A r \in Requests : Cardinality(Approvers(r)) \in Nat
  BY ApproversFinite, FS_CardinalityType
<1>5. \A r \in Requests :
        /\ Approvers(r) \subseteq Approvers(r)'
        /\ Cardinality(Approvers(r)') \in Nat
        /\ Cardinality(Approvers(r)) <= Cardinality(Approvers(r)')
  <2>1. ASSUME NEW r \in Requests \ {q}
        PROVE  Approvers(r)' = Approvers(r) /\ Cardinality(Approvers(r)') = Cardinality(Approvers(r))
    BY <1>3
  <2>2. /\ Approvers(q) \subseteq Approvers(q)'
        /\ Cardinality(Approvers(q)') \in Nat
        /\ Cardinality(Approvers(q)) <= Cardinality(Approvers(q)')
    BY <1>3, <1>4
  <2> QED
    BY <1>4, <2>1, <2>2
<1>6. \A r \in Requests : requester[r] \in Approvers(r)' => Policy[r].self
  BY <1>1, <1>3 DEF IndInv, IndRows
<1>7. \A r \in Requests : Quorum(r) => Quorum(r)'
  BY <1>2, <1>4, <1>5, <1>6, QuorumKept DEF IndInv
<1>8. ASSUME count >= Policy[q].min PROVE Quorum(q)'
  <2>1. Policy[q].min \in Nat
    BY ApprovalAssumption DEF Policies
  <2>2. Cardinality(Approvers(q)') >= Policy[q].min
    BY <1>1, <1>3, <1>4, <1>8, <2>1
  <2> QED
    BY <1>2, <1>6, <2>2 DEF Quorum
<1>9. \/ status' = status
      \/ status' = [status EXCEPT ![q] = "approved"] /\ Quorum(q)'
  BY <1>2, <1>8
<1> QED
  BY <1>1, <1>2, <1>4, <1>5, <1>6, <1>7, <1>9

\* What a handler counts is never more than the table holds, and itself.
LEMMA CountStep ==
  ASSUME IndInv, NEW h \in Handlers, CountApprovals(h)
  PROVE  \E q \in Requests, n \in Nat :
            /\ q = handler[h].req /\ handler[h].step = "inserted"
            /\ n <= Cardinality(Approvers(q)) + 1
            /\ handler' = [handler EXCEPT ![h].step = "counted", ![h].count = n]
            /\ UNCHANGED <<decision, requester, status, clock, monitor, effects, expired>>
<1>1. PICK q \in Requests : q = handler[h].req /\ handler[h].step = "inserted"
  BY DEF CountApprovals, IndInv, IndHandlers
<1>2. Cardinality(Approvers(q)) \in Nat
  BY ApproversFinite, FS_CardinalityType
<1>3. PICK others \in {CountedApprovals(handler[h].req)} \cup {n \in {0} : CountMayFail} :
        handler' = [handler EXCEPT ![h].step = "counted", ![h].count = others + 1]
  BY DEF CountApprovals
<1>4. others \in Nat /\ others <= Cardinality(Approvers(q))
  BY <1>1, <1>2, <1>3 DEF CountedApprovals
<1>5. UNCHANGED <<decision, requester, status, clock, monitor, effects, expired>>
  BY DEF CountApprovals, row, events
<1>6. others + 1 \in Nat /\ others + 1 <= Cardinality(Approvers(q)) + 1
  BY <1>2, <1>4
<1> QED
  BY <1>1, <1>3, <1>5, <1>6

\* No step leaves the types.
LEMMA TypesPreserved == ASSUME IndInv, Next PROVE TypeOK'
<1>1. ASSUME NEW h \in Handlers, CountApprovals(h) PROVE TypeOK'
  <2>1. PICK n \in Nat : handler' = [handler EXCEPT ![h].step = "counted", ![h].count = n]
    BY <1>1, CountStep
  <2>2. "counted" \in Steps /\ handler \in [Handlers -> HandlerStates]
    BY DEF Steps, IndInv, TypeOK
  <2>3. handler' \in [Handlers -> HandlerStates]
    BY <2>1, <2>2, MovesTyped
  <2> QED
    BY <1>1, <2>3 DEF CountApprovals, row, events, IndInv, TypeOK
<1> USE ApprovalAssumption DEF IndInv, TypeOK, Statuses, Clocks, Verdicts, Steps,
        HandlerStates, MonitorStates
<1>2. ASSUME NEW r \in Requests, NEW u \in Users, Create(r, u) PROVE TypeOK'
  <2>1. requester' \in [Requests -> Users \cup {None}]
    BY <1>2 DEF Create
  <2>2. \/ status' = [status EXCEPT ![r] = "approved"]
           /\ decision' = [decision EXCEPT ![r][u] = "approved"]
        \/ status' = [status EXCEPT ![r] = "pending"] /\ decision' = decision
    BY <1>2 DEF Create
  <2>3. status' \in [Requests -> Statuses]
    BY <2>2
  <2>4. decision' \in [Requests -> [Users -> Verdicts \cup {"none"}]]
    <3>1. [decision[r] EXCEPT ![u] = "approved"] \in [Users -> Verdicts \cup {"none"}]
      OBVIOUS
    <3>2. CASE decision' = decision
      BY <3>2
    <3>3. CASE decision' = [decision EXCEPT ![r][u] = "approved"]
      BY <3>1, <3>3
    <3> QED
      BY <2>2, <3>2, <3>3
  <2> QED
    BY <1>2, <2>1, <2>3, <2>4 DEF Create, events
<1>3. ASSUME NEW r \in Requests, ClockAdvances(r) PROVE TypeOK'
  BY <1>3 DEF ClockAdvances, row, events
<1>4. ASSUME NEW h \in Handlers, NEW r \in Requests, NEW u \in Users, NEW v \in Verdicts,
             Load(h, r, u, v) PROVE TypeOK'
  <2>1. \/ Takes(h, "expire", r, None, "none")
        \/ Takes(h, "loaded", r, u, v)
    BY <1>4 DEF Load
  <2>2. handler' \in [Handlers -> HandlerStates]
    BY <2>1, TakesTyped
  <2> QED
    BY <1>4, <2>2 DEF Load, row, events
<1>5. ASSUME NEW h \in Handlers, NEW r \in Requests, NEW u \in Users,
             LoadForCancel(h, r, u) PROVE TypeOK'
  BY <1>5 DEF LoadForCancel, Open, Takes, row, events
<1>6. ASSUME NEW h \in Handlers, NEW r \in Requests, Verify(h, r) PROVE TypeOK'
  BY <1>6 DEF Verify, Takes, row, events
<1>7. ASSUME NEW h \in Handlers, ExpireInline(h) PROVE TypeOK'
  BY <1>7 DEF ExpireInline, Ends, Idle, row, events
<1>8. ASSUME NEW h \in Handlers, Check(h) PROVE TypeOK'
  <2>1. handler' \in [Handlers -> HandlerStates]
    BY <1>8, MovesTyped DEF Check, Moves
  <2> QED
    BY <1>8, <2>1 DEF Check, row, events
<1>9. ASSUME NEW h \in Handlers, InsertDecision(h) PROVE TypeOK'
  <2>1. handler' \in [Handlers -> HandlerStates]
    BY <1>9, MovesTyped DEF InsertDecision, Moves
  <2> QED
    BY <1>9, <2>1 DEF InsertDecision, row, events
<1>10. ASSUME NEW h \in Handlers, Reject(h) PROVE TypeOK'
  BY <1>10 DEF Reject, Ends, Idle, row, events
<1>11. ASSUME NEW h \in Handlers, Approve(h) PROVE TypeOK'
  BY <1>11 DEF Approve, Ends, Idle, row, events
<1>12. ASSUME NEW h \in Handlers, Cancel(h) PROVE TypeOK'
  BY <1>12 DEF Cancel, Ends, Idle, row, events
<1>13. ASSUME NEW h \in Handlers, Execute(h) PROVE TypeOK'
  <2>1. handler' \in [Handlers -> HandlerStates]
    BY <1>13 DEF Execute, Ends, Idle
  <2>2. status' \in [Requests -> Statuses] /\ executed' \in [Requests -> BOOLEAN]
    BY <1>13 DEF Execute
  <2>3. effects' \in [Requests -> Nat]
    BY <1>13 DEF Execute, IndHandlers
  <2> QED
    BY <1>13, <2>1, <2>2, <2>3 DEF Execute, events
<1>14. ASSUME NEW h \in Handlers, GiveUp(h) PROVE TypeOK'
  BY <1>14 DEF GiveUp, Ends, Idle, row, events
<1>15. ASSUME NEW m \in Monitors, BeginTick(m) PROVE TypeOK'
  BY <1>15 DEF BeginTick, Overdue, row, events
<1>16. ASSUME NEW m \in Monitors, NEW r \in Requests, ExpireApproval(m, r) PROVE TypeOK'
  <2>1. monitor' \in [Monitors -> MonitorStates]
    BY <1>16, RowDoneTyped DEF ExpireApproval, RowDone
  <2>2. status' \in [Requests -> Statuses] /\ expired' \in [Requests -> Nat]
    BY <1>16 DEF ExpireApproval
  <2> QED
    BY <1>16, <2>1, <2>2 DEF ExpireApproval, row, events
<1>17. ASSUME NEW m \in Monitors, SelectExpiring(m) PROVE TypeOK'
  BY <1>17 DEF SelectExpiring, Expiring, row, events
<1>18. ASSUME NEW m \in Monitors, NEW r \in Requests, NotifyExpiring(m, r) PROVE TypeOK'
  <2>1. monitor' \in [Monitors -> MonitorStates]
    BY <1>18, RowDoneTyped DEF NotifyExpiring, RowDone
  <2>2. notified' \in [Requests -> BOOLEAN] /\ expiring' \in [Requests -> Nat]
    BY <1>18 DEF NotifyExpiring
  <2> QED
    BY <1>18, <2>1, <2>2 DEF NotifyExpiring, row, events
<1>19. ASSUME NEW m \in Monitors, EndTick(m) PROVE TypeOK'
  BY <1>19 DEF EndTick, MonitorIdle, row, events
<1>20. ASSUME NEW m \in Monitors, NEW r \in Requests, SkipRow(m, r) PROVE TypeOK'
  <2>1. monitor' \in [Monitors -> MonitorStates]
    BY <1>20, RowDoneTyped DEF SkipRow, RowDone
  <2> QED
    BY <1>20, <2>1 DEF SkipRow, row, events
<1>21. ASSUME NEW m \in Monitors, MonitorCrash(m) PROVE TypeOK'
  BY <1>21 DEF MonitorCrash, MonitorIdle, row, events
<1> HIDE DEF IndInv, TypeOK, Statuses, Clocks, Verdicts, Steps,
        HandlerStates, MonitorStates
<1> QED
  BY <1>1, <1>2, <1>3, <1>4, <1>5, <1>6, <1>7, <1>8, <1>9, <1>10, <1>11,
     <1>12, <1>13, <1>14, <1>15, <1>16, <1>17, <1>18, <1>19, <1>20, <1>21
     DEF Next, Serve, Tick, MonitorFault

\* No step breaks what is true of the rows.
LEMMA RowsPreserved == ASSUME IndInv, Next PROVE IndRows'
<1>1. ASSUME NEW h \in Handlers, Reject(h) PROVE IndRows'
  <2>1. PICK q \in Requests, u \in Users :
            /\ q = handler[h].req /\ u = handler[h].user /\ status[q] # "absent"
            /\ decision' = [decision EXCEPT ![q][u] = "rejected"]
            /\ status' = [status EXCEPT ![q] = "rejected"]
            /\ handler' = [handler EXCEPT ![h] = Idle]
            /\ UNCHANGED <<requester, clock, monitor, effects, expired>>
            /\ \A r \in Requests : Approvers(r)' = Approvers(r) /\ Quorum(r)' = Quorum(r)
    BY <1>1, RejectStep
  <2> QED
    BY <2>1 DEF IndInv, TypeOK, Statuses, Clocks, Verdicts, Steps,
        HandlerStates, MonitorStates, IndRows, IndHandlers
<1>2. ASSUME NEW h \in Handlers, Approve(h) PROVE IndRows'
  <2>1. PICK q \in Requests, u \in Users :
            /\ status[q] # "absent"
            /\ decision' = [decision EXCEPT ![q][u] = "approved"]
            /\ \/ status' = status
               \/ status' = [status EXCEPT ![q] = "approved"] /\ Quorum(q)'
            /\ UNCHANGED <<requester, clock, effects, expired>>
            /\ \A r \in Requests :
                /\ requester[r] \in Approvers(r)' => Policy[r].self
                /\ Quorum(r) => Quorum(r)'
    BY <1>2, ApproveStep
  <2> QED
    BY <2>1 DEF IndInv, TypeOK, Statuses, Clocks, Verdicts, Steps,
        HandlerStates, MonitorStates, IndRows, IndHandlers
<1> USE ApprovalAssumption DEF IndInv, TypeOK, Statuses, Clocks, Verdicts, Steps,
        HandlerStates, MonitorStates, IndRows, IndHandlers
<1>3. ASSUME NEW r \in Requests, NEW u \in Users, Create(r, u) PROVE IndRows'
  <2>1. \A q \in Requests \ {r} : Approvers(q)' = Approvers(q) /\ Quorum(q)' = Quorum(q)
    <3>1. \A q \in Requests \ {r} :
            decision'[q] = decision[q] /\ requester'[q] = requester[q]
      BY <1>3 DEF Create
    <3>2. \A q \in Requests \ {r} : Approvers(q)' = Approvers(q)
      BY <3>1 DEF Approvers
    <3> QED
      BY <3>1, <3>2 DEF Quorum
  <2>2. CASE AutoApproved(r)
    <3>1. Approvers(r)' = {u}
      BY <1>3, <2>2 DEF Create, Approvers
    <3>2. requester'[r] = u /\ Policy[r].self
      BY <1>3, <2>2 DEF Create, AutoApproved
    <3>3. Quorum(r)'
      BY <2>2, <3>1, <3>2 DEF Quorum, AutoApproved
    <3> QED
      BY <1>3, <2>1, <2>2, <3>1, <3>2, <3>3 DEF Create, events
  <2>3. CASE ~AutoApproved(r)
    <3>1. Approvers(r)' = {}
      BY <1>3, <2>3 DEF Create, Approvers
    <3> QED
      BY <1>3, <2>1, <2>3, <3>1 DEF Create, events
  <2> QED
    BY <2>2, <2>3
<1>4. ASSUME NEW r \in Requests, ClockAdvances(r) PROVE IndRows'
  BY <1>4, QuorumSame DEF ClockAdvances, row, events
<1>5. ASSUME NEW h \in Handlers, NEW r \in Requests, NEW u \in Users, NEW v \in Verdicts,
             Load(h, r, u, v) PROVE IndRows'
  BY <1>5, QuorumSame DEF Load, Open, Takes, Idle, row, events
<1>6. ASSUME NEW h \in Handlers, NEW r \in Requests, NEW u \in Users,
             LoadForCancel(h, r, u) PROVE IndRows'
  BY <1>6, QuorumSame DEF LoadForCancel, Open, Takes, row, events
<1>7. ASSUME NEW h \in Handlers, NEW r \in Requests, Verify(h, r) PROVE IndRows'
  BY <1>7, QuorumSame DEF Verify, Takes, row, events
<1>8. ASSUME NEW h \in Handlers, ExpireInline(h) PROVE IndRows'
  BY <1>8, QuorumSame DEF ExpireInline, Ends, Idle, row, events
<1>9. ASSUME NEW h \in Handlers, Check(h) PROVE IndRows'
  BY <1>9, QuorumSame DEF Check, Moves, MayDecide, row, events
<1>10. ASSUME NEW h \in Handlers, InsertDecision(h) PROVE IndRows'
  BY <1>10, QuorumSame DEF InsertDecision, Moves, Inserting, row, events
<1>11. ASSUME NEW h \in Handlers, CountApprovals(h) PROVE IndRows'
  BY <1>11, QuorumSame DEF CountApprovals, CountedApprovals, row, events
<1>12. ASSUME NEW h \in Handlers, Cancel(h) PROVE IndRows'
  BY <1>12, QuorumSame DEF Cancel, Ends, Idle, row, events
<1>13. ASSUME NEW h \in Handlers, Execute(h) PROVE IndRows'
  BY <1>13, QuorumSame DEF Execute, Ends, Idle, row, events
<1>14. ASSUME NEW h \in Handlers, GiveUp(h) PROVE IndRows'
  BY <1>14, QuorumSame DEF GiveUp, Ends, Idle, row, events
<1>15. ASSUME NEW m \in Monitors, BeginTick(m) PROVE IndRows'
  BY <1>15, QuorumSame DEF BeginTick, Overdue, row, events
<1>16. ASSUME NEW m \in Monitors, NEW r \in Requests, ExpireApproval(m, r) PROVE IndRows'
  BY <1>16, QuorumSame DEF ExpireApproval, RowDone, row, events
<1>17. ASSUME NEW m \in Monitors, SelectExpiring(m) PROVE IndRows'
  BY <1>17, QuorumSame DEF SelectExpiring, Expiring, row, events
<1>18. ASSUME NEW m \in Monitors, NEW r \in Requests, NotifyExpiring(m, r) PROVE IndRows'
  BY <1>18, QuorumSame DEF NotifyExpiring, RowDone, row, events
<1>19. ASSUME NEW m \in Monitors, EndTick(m) PROVE IndRows'
  BY <1>19, QuorumSame DEF EndTick, MonitorIdle, row, events
<1>20. ASSUME NEW m \in Monitors, NEW r \in Requests, SkipRow(m, r) PROVE IndRows'
  BY <1>20, QuorumSame DEF SkipRow, RowDone, row, events
<1>21. ASSUME NEW m \in Monitors, MonitorCrash(m) PROVE IndRows'
  BY <1>21, QuorumSame DEF MonitorCrash, MonitorIdle, row, events
<1> HIDE DEF IndInv, TypeOK, Statuses, Clocks, Verdicts, Steps,
        HandlerStates, MonitorStates, IndRows, IndHandlers
<1> QED
  BY <1>1, <1>2, <1>3, <1>4, <1>5, <1>6, <1>7, <1>8, <1>9, <1>10, <1>11,
     <1>12, <1>13, <1>14, <1>15, <1>16, <1>17, <1>18, <1>19, <1>20, <1>21
     DEF Next, Serve, Tick, MonitorFault

\* No step breaks what handlers and monitors know of their rows.
LEMMA HandlersPreserved == ASSUME IndInv, Next PROVE IndHandlers'
<1>1. ASSUME NEW h \in Handlers, CountApprovals(h) PROVE IndHandlers'
  <2>1. PICK q \in Requests, n \in Nat :
            /\ q = handler[h].req /\ handler[h].step = "inserted"
            /\ n <= Cardinality(Approvers(q)) + 1
            /\ handler' = [handler EXCEPT ![h].step = "counted", ![h].count = n]
            /\ UNCHANGED <<decision, requester, status, clock, monitor>>
    BY <1>1, CountStep
  <2>2. \A r \in Requests : Approvers(r)' = Approvers(r) /\ Quorum(r)' = Quorum(r)
    BY <2>1, QuorumSame
  <2>3. \A g \in Handlers \ {h} : handler'[g] = handler[g]
    BY <2>1 DEF IndInv, TypeOK
  <2>4. /\ handler'[h].step = "counted" /\ handler'[h].req = q
        /\ handler'[h].user = handler[h].user /\ handler'[h].count = n
    BY <2>1 DEF IndInv, TypeOK, HandlerStates
  <2>5. ASSUME NEW g \in Handlers, NEW r \in Requests, handler'[g].req = r
        PROVE  /\ handler'[g].step # "idle" => status'[r] # "absent"
               /\ handler'[g].step \in {"checked", "inserted", "counted"} =>
                    (handler'[g].user = requester'[r] => Policy[r].self)
               /\ handler'[g].step \in {"inserted", "counted"} =>
                    decision'[r][handler'[g].user] = "none"
               /\ handler'[g].step = "counted" =>
                    handler'[g].count <= Cardinality(Approvers(r)') + 1
               /\ handler'[g].step = "execute" => Quorum(r)'
               /\ handler'[g].step = "expire" => clock'[r] = "overdue"
    <3>1. CASE g = h
      BY <2>1, <2>2, <2>4, <2>5, <3>1 DEF IndInv, IndHandlers
    <3>2. CASE g # h
      <4>1. handler'[g] = handler[g] /\ handler[g].req = r
        BY <2>3, <2>5, <3>2
      <4>2. /\ Approvers(r)' = Approvers(r) /\ Quorum(r)' = Quorum(r)
            /\ UNCHANGED <<decision, requester, status, clock>>
        BY <2>1, <2>2
      <4> QED
        BY <4>1, <4>2 DEF IndInv, IndHandlers
    <3> QED
      BY <3>1, <3>2
  <2>6. \A g \in Handlers :
            /\ handler'[g].step # "idle" => handler'[g].req \in Requests
            /\ handler'[g].step \in {"loaded", "checked", "inserted", "counted"} =>
                    handler'[g].user \in Users
    <3>1. handler[h].step \in {"inserted"} /\ handler[h].req = q
      BY <2>1
    <3>2. handler[h].user \in Users
      BY <3>1 DEF IndInv, IndHandlers
    <3> QED
      BY <2>3, <2>4, <3>1, <3>2 DEF IndInv, IndHandlers
  <2>7. ASSUME NEW f \in Handlers, NEW g \in Handlers, f # g,
                handler'[f].step \in {"inserted", "counted"},
                handler'[g].step \in {"inserted", "counted"},
                handler'[f].req = handler'[g].req
         PROVE  handler'[f].user # handler'[g].user
    <3>1. handler[h].step \in {"inserted", "counted"} /\ handler[h].req = q
      BY <2>1
    <3>2. \A e \in Handlers : handler'[e].req = handler[e].req /\ handler'[e].user = handler[e].user
      BY <2>3, <2>4, <3>1
    <3>3. \A e \in Handlers : handler'[e].step \in {"inserted", "counted"} =>
                handler[e].step \in {"inserted", "counted"}
      BY <2>3, <3>1
    <3> QED
      BY <2>7, <3>2, <3>3 DEF IndInv, IndHandlers
  <2>8. \A m \in Monitors : monitor'[m].step = "expire" =>
            \A r \in monitor'[m].todo : status'[r] # "absent" /\ clock'[r] = "overdue"
    BY <2>1 DEF IndInv, IndHandlers
  <2> QED
    BY <2>5, <2>6, <2>7, <2>8 DEF IndHandlers
<1>2. ASSUME NEW h \in Handlers, Reject(h) PROVE IndHandlers'
  <2>1. PICK q \in Requests, u \in Users :
            /\ q = handler[h].req /\ u = handler[h].user /\ status[q] # "absent"
            /\ decision' = [decision EXCEPT ![q][u] = "rejected"]
            /\ status' = [status EXCEPT ![q] = "rejected"]
            /\ handler' = [handler EXCEPT ![h] = Idle]
            /\ UNCHANGED <<requester, clock, monitor, effects, expired>>
            /\ \A r \in Requests : Approvers(r)' = Approvers(r) /\ Quorum(r)' = Quorum(r)
    BY <1>2, RejectStep
  <2>2. handler[h].step = "inserted"
    BY <1>2 DEF Reject
  <2> QED
    BY <2>1, <2>2 DEF Idle, IndInv, TypeOK, Statuses, Clocks, Verdicts, Steps,
        HandlerStates, MonitorStates, IndRows, IndHandlers
<1>3. ASSUME NEW h \in Handlers, Approve(h) PROVE IndHandlers'
  <2>1. PICK q \in Requests, u \in Users :
            /\ q = handler[h].req /\ u = handler[h].user /\ handler[h].step = "counted"
            /\ status[q] # "absent"
            /\ decision' = [decision EXCEPT ![q][u] = "approved"]
            /\ status' \in {status, [status EXCEPT ![q] = "approved"]}
            /\ handler' = [handler EXCEPT ![h] = Idle]
            /\ UNCHANGED <<requester, clock, monitor>>
            /\ \A r \in Requests :
                /\ Cardinality(Approvers(r)) \in Nat
                /\ Cardinality(Approvers(r)') \in Nat
                /\ Cardinality(Approvers(r)) <= Cardinality(Approvers(r)')
                /\ Quorum(r) => Quorum(r)'
    BY <1>3, ApproveStep
  <2>2. \A g \in Handlers \ {h} : handler'[g] = handler[g]
    BY <2>1 DEF IndInv, TypeOK
  <2>3. handler'[h].step = "idle" /\ handler'[h].req = None
    BY <2>1 DEF Idle, IndInv, TypeOK
  <2>4. \A r \in Requests : status[r] # "absent" => status'[r] # "absent"
    BY <2>1 DEF IndInv, TypeOK
  <2>5. \A g \in Handlers \ {h}, r \in Requests :
            /\ handler[g].req = r
            /\ handler[g].step \in {"inserted", "counted"}
            => decision'[r][handler[g].user] = "none"
    BY <2>1 DEF IndInv, IndHandlers, TypeOK
  <2>6. \A g \in Handlers \ {h} : handler[g].count \in Nat
    BY DEF IndInv, TypeOK, HandlerStates
  <2>7. ASSUME NEW g \in Handlers, NEW r \in Requests, handler'[g].req = r
        PROVE  /\ handler'[g].step # "idle" => status'[r] # "absent"
               /\ handler'[g].step \in {"checked", "inserted", "counted"} =>
                    (handler'[g].user = requester'[r] => Policy[r].self)
               /\ handler'[g].step \in {"inserted", "counted"} =>
                    decision'[r][handler'[g].user] = "none"
               /\ handler'[g].step = "counted" =>
                    handler'[g].count <= Cardinality(Approvers(r)') + 1
               /\ handler'[g].step = "execute" => Quorum(r)'
               /\ handler'[g].step = "expire" => clock'[r] = "overdue"
    <3>1. g # h
      BY <2>3, <2>7, ApprovalAssumption
    <3>2. handler'[g] = handler[g]
      BY <2>2, <3>1
    <3>3. handler[g].step = "counted" =>
                handler[g].count <= Cardinality(Approvers(r)') + 1
      BY <2>1, <2>6, <2>7, <3>1, <3>2 DEF IndInv, IndHandlers
    <3> QED
      BY <2>1, <2>4, <2>5, <2>7, <3>1, <3>2, <3>3 DEF IndInv, IndHandlers
  <2>8. \A g \in Handlers :
            /\ handler'[g].step # "idle" => handler'[g].req \in Requests
            /\ handler'[g].step \in {"loaded", "checked", "inserted", "counted"} =>
                    handler'[g].user \in Users
    BY <2>2, <2>3 DEF IndInv, IndHandlers
  <2>9. ASSUME NEW f \in Handlers, NEW g \in Handlers, f # g,
                handler'[f].step \in {"inserted", "counted"},
                handler'[g].step \in {"inserted", "counted"},
                handler'[f].req = handler'[g].req
         PROVE  handler'[f].user # handler'[g].user
    BY <2>2, <2>3, <2>9 DEF IndInv, IndHandlers
  <2>10. \A m \in Monitors : monitor[m].todo \subseteq Requests
    BY DEF IndInv, TypeOK, MonitorStates
  <2>11. \A m \in Monitors : monitor'[m].step = "expire" =>
            \A r \in monitor'[m].todo : status'[r] # "absent" /\ clock'[r] = "overdue"
    BY <2>1, <2>4, <2>10 DEF IndInv, IndHandlers
  <2> QED
    BY <2>7, <2>8, <2>9, <2>11 DEF IndHandlers
<1> USE ApprovalAssumption DEF IndInv, TypeOK, Statuses, Clocks, Verdicts, Steps,
        HandlerStates, MonitorStates, IndRows, IndHandlers
<1>4. ASSUME NEW r \in Requests, NEW u \in Users, Create(r, u) PROVE IndHandlers'
  <2>1. \A q \in Requests \ {r} : Approvers(q)' = Approvers(q) /\ Quorum(q)' = Quorum(q)
    <3>1. \A q \in Requests \ {r} :
            decision'[q] = decision[q] /\ requester'[q] = requester[q]
      BY <1>4 DEF Create
    <3>2. \A q \in Requests \ {r} : Approvers(q)' = Approvers(q)
      BY <3>1 DEF Approvers
    <3> QED
      BY <3>1, <3>2 DEF Quorum
  <2>2. \A q \in Requests \ {r} :
            /\ decision'[q] = decision[q] /\ requester'[q] = requester[q]
            /\ status'[q] = status[q]
    BY <1>4 DEF Create
  <2>3. \A g \in Handlers : handler[g].req = r => handler[g].step = "idle"
    BY SMTT(40), <1>4 DEF Create
  <2>4. status[r] = "absent" /\ status'[r] # "absent" /\ UNCHANGED <<handler, clock, monitor>>
    BY <1>4 DEF Create
  <2> QED
    BY <2>1, <2>2, <2>3, <2>4
<1>5. ASSUME NEW r \in Requests, ClockAdvances(r) PROVE IndHandlers'
  BY <1>5, QuorumSame DEF ClockAdvances, row, events
<1>6. ASSUME NEW h \in Handlers, NEW r \in Requests, NEW u \in Users, NEW v \in Verdicts,
             Load(h, r, u, v) PROVE IndHandlers'
  <2>1. status[r] = "pending" /\ UNCHANGED <<decision, requester, status, clock, monitor>>
    BY <1>6 DEF Load, Open, row
  <2>2. \A q \in Requests : Approvers(q)' = Approvers(q) /\ Quorum(q)' = Quorum(q)
    BY <2>1, QuorumSame
  <2>3. PICK t :
            /\ handler' = [handler EXCEPT ![h] = t]
            /\ t.step \in {"expire", "loaded"} /\ t.req = r
            /\ t.step = "expire" => clock[r] = "overdue"
            /\ t.step = "loaded" => t.user = u
    BY <1>6 DEF Load, Takes
  <2> QED
    BY <2>1, <2>2, <2>3
<1>7. ASSUME NEW h \in Handlers, NEW r \in Requests, NEW u \in Users,
             LoadForCancel(h, r, u) PROVE IndHandlers'
  BY <1>7, QuorumSame DEF LoadForCancel, Open, Takes, row, events
<1>8. ASSUME NEW h \in Handlers, NEW r \in Requests, Verify(h, r) PROVE IndHandlers'
  BY <1>8, QuorumSame DEF Verify, Takes, row, events
<1>9. ASSUME NEW h \in Handlers, ExpireInline(h) PROVE IndHandlers'
  BY <1>9, QuorumSame DEF ExpireInline, Ends, Idle, row, events
<1>10. ASSUME NEW h \in Handlers, Check(h) PROVE IndHandlers'
  BY <1>10, QuorumSame DEF Check, Moves, MayDecide, row, events
<1>11. ASSUME NEW h \in Handlers, InsertDecision(h) PROVE IndHandlers'
  BY SMTT(30), <1>11, QuorumSame DEF InsertDecision, Moves, Inserting, row, events
<1>12. ASSUME NEW h \in Handlers, Cancel(h) PROVE IndHandlers'
  BY <1>12, QuorumSame DEF Cancel, Ends, Idle, row, events
<1>13. ASSUME NEW h \in Handlers, Execute(h) PROVE IndHandlers'
  BY <1>13, QuorumSame DEF Execute, Ends, Idle, row, events
<1>14. ASSUME NEW h \in Handlers, GiveUp(h) PROVE IndHandlers'
  BY <1>14, QuorumSame DEF GiveUp, Ends, Idle, row, events
<1>15. ASSUME NEW m \in Monitors, BeginTick(m) PROVE IndHandlers'
  BY <1>15, QuorumSame DEF BeginTick, Overdue, row, events
<1>16. ASSUME NEW m \in Monitors, NEW r \in Requests, ExpireApproval(m, r) PROVE IndHandlers'
  BY <1>16, QuorumSame DEF ExpireApproval, RowDone, row, events
<1>17. ASSUME NEW m \in Monitors, SelectExpiring(m) PROVE IndHandlers'
  BY <1>17, QuorumSame DEF SelectExpiring, Expiring, row, events
<1>18. ASSUME NEW m \in Monitors, NEW r \in Requests, NotifyExpiring(m, r) PROVE IndHandlers'
  BY <1>18, QuorumSame DEF NotifyExpiring, RowDone, row, events
<1>19. ASSUME NEW m \in Monitors, EndTick(m) PROVE IndHandlers'
  BY <1>19, QuorumSame DEF EndTick, MonitorIdle, row, events
<1>20. ASSUME NEW m \in Monitors, NEW r \in Requests, SkipRow(m, r) PROVE IndHandlers'
  BY <1>20, QuorumSame DEF SkipRow, RowDone, row, events
<1>21. ASSUME NEW m \in Monitors, MonitorCrash(m) PROVE IndHandlers'
  BY <1>21, QuorumSame DEF MonitorCrash, MonitorIdle, row, events
<1> HIDE DEF IndInv, TypeOK, Statuses, Clocks, Verdicts, Steps,
        HandlerStates, MonitorStates, IndRows, IndHandlers
<1> QED
  BY <1>1, <1>2, <1>3, <1>4, <1>5, <1>6, <1>7, <1>8, <1>9, <1>10, <1>11,
     <1>12, <1>13, <1>14, <1>15, <1>16, <1>17, <1>18, <1>19, <1>20, <1>21
     DEF Next, Serve, Tick, MonitorFault

\* The strengthening is inductive.
THEOREM Inductive == Spec => []IndInv
<1>1. Init => IndInv
  <2>1. Init => TypeOK
    BY DEF Init, TypeOK, Statuses, Clocks, Verdicts, Steps, HandlerStates, Idle,
       MonitorStates, MonitorIdle
  <2>2. Init => IndRows
    BY ApprovalAssumption DEF Init, IndRows, Approvers
  <2>3. Init => IndHandlers
    BY ApprovalAssumption DEF Init, IndHandlers, Idle, MonitorIdle
  <2> QED
    BY <2>1, <2>2, <2>3 DEF IndInv
<1>2. IndInv /\ [Next]_vars => IndInv'
  <2>1. ASSUME IndInv, Next PROVE IndInv'
    BY <2>1, TypesPreserved, RowsPreserved, HandlersPreserved DEF IndInv
  <2>2. ASSUME IndInv, UNCHANGED vars PROVE IndInv'
    BY <2>2, QuorumSame DEF IndInv, IndRows, IndHandlers, TypeOK, vars, row, events
  <2> QED
    BY <2>1, <2>2
<1> QED
  BY <1>1, <1>2, PTL DEF Spec

\* The tables and the handlers keep their types.
THEOREM TypeCorrect == Spec => []TypeOK
<1>1. IndInv => TypeOK
  BY DEF IndInv
<1> QED
  BY <1>1, Inductive, PTL

\* For every policy and every interleaving: nothing is approved, executed or
\* used without the decisions its policy asks for.
THEOREM QuorumDecides == Spec => []ApprovedByQuorum
<1>1. IndInv => ApprovedByQuorum
  BY DEF IndInv, IndRows, ApprovedByQuorum
<1> QED
  BY <1>1, Inductive, PTL

\* A request that can still be decided has no rejection.
THEOREM RejectionEndsIt == Spec => []PendingUnrejected
<1>1. IndInv => PendingUnrejected
  BY DEF IndInv, IndRows, PendingUnrejected
<1> QED
  BY <1>1, Inductive, PTL

\* No request is expired, or announced as expired, before its time.
THEOREM NoEarlyExpiry == Spec => []ExpiredWasOverdue
<1>1. IndInv => ExpiredWasOverdue
  BY DEF IndInv, IndRows, ExpiredWasOverdue
<1> QED
  BY <1>1, Inductive, PTL

-----------------------------------------------------------------------------
(* The refinement of ApprovalRow *)

\* What ApprovalRow calls approval.
Table == [r \in Requests |-> RowOf(r)]

\* A step changes no row that it leaves alone.
LEMMA OneRow ==
  ASSUME NEW r \in Requests,
         \A q \in Requests \ {r} : RowOf(q)' = RowOf(q)
  PROVE  Table' = [Table EXCEPT ![r] = RowOf(r)']
  BY DEF Table

\* Nor does one that leaves all of them alone.
LEMMA NoRow ==
  ASSUME \A q \in Requests : RowOf(q)' = RowOf(q)
  PROVE  Table' = Table
  BY DEF Table

\* What a row of the table is.
LEMMA RowFields ==
  ASSUME NEW r \in Requests
  PROVE  /\ Table[r] = RowOf(r)
         /\ RowOf(r).executed = executed[r]
         /\ RowOf(r).overdue = (clock[r] = "overdue")
         /\ RowOf(r).approvers = Cardinality(Approvers(r))
         /\ RowOf(r).status = IF status[r] \in {"rejected", "cancelled", "expired"}
                              THEN "refused" ELSE status[r]
  BY DEF Table, RowOf

\* What the columns of a row are after a step.
LEMMA FieldsAfter ==
  ASSUME NEW r \in Requests
  PROVE  /\ RowOf(r)'.executed = executed'[r]
         /\ RowOf(r)'.overdue = (clock'[r] = "overdue")
         /\ RowOf(r)'.approvers = Cardinality(Approvers(r)')
         /\ RowOf(r)'.status = IF status'[r] \in {"rejected", "cancelled", "expired"}
                              THEN "refused" ELSE status'[r]
  BY DEF RowOf

\* A row is as ApprovalRow says, before and after every step.
LEMMA RowTyped ==
  ASSUME IndInv, Next, NEW r \in Requests
  PROVE  RowOf(r) \in Abstract!Rows /\ RowOf(r)' \in Abstract!Rows
<1>1. Cardinality(Approvers(r)) \in Nat /\ Cardinality(Approvers(r)') \in Nat
  <2>1. IsFiniteSet(Approvers(r)')
    BY ApprovalAssumption, FS_Subset DEF Approvers
  <2> QED
    BY <2>1, ApproversFinite, FS_CardinalityType
<1>2. TypeOK /\ TypeOK'
  BY TypesPreserved DEF IndInv
<1>3. RowOf(r) \in Abstract!Rows
  BY <1>1, <1>2 DEF TypeOK, Statuses, RowOf, Abstract!Rows, Abstract!RowStatuses
<1>4. RowOf(r)' \in Abstract!Rows
  BY <1>1, <1>2 DEF TypeOK, Statuses, RowOf, Abstract!Rows, Abstract!RowStatuses
<1> QED
  BY <1>3, <1>4

\* Rows that keep their columns are the same.
LEMMA SameColumns ==
  ASSUME NEW r \in Requests,
         status'[r] = status[r], executed'[r] = executed[r],
         (clock'[r] = "overdue") = (clock[r] = "overdue"),
         Approvers(r)' = Approvers(r)
  PROVE  RowOf(r)' = RowOf(r)
  BY DEF RowOf

\* A row that is refused, by whatever UPDATE, is refused in ApprovalRow.
LEMMA Refuses ==
  ASSUME TypeOK, NEW r \in Requests, status[r] # "absent",
         NEW s \in {"rejected", "cancelled", "expired"},
         status' = [status EXCEPT ![r] = s],
         UNCHANGED <<executed, clock>>,
         \A q \in Requests : Approvers(q)' = Approvers(q)
  PROVE  Abstract!RowRefused(r)
<1>1. Table' = [Table EXCEPT ![r] = RowOf(r)']
  BY OneRow, SameColumns DEF TypeOK
<1>2. RowOf(r)' = [RowOf(r) EXCEPT !.status = "refused"]
  BY SMTT(30) DEF RowOf, TypeOK
<1>3. Table' = [Table EXCEPT ![r].status = "refused"]
  BY <1>1, <1>2, RowFields
<1>4. Table[r].status # "absent"
  BY RowFields
<1> QED
  BY <1>3, <1>4 DEF Abstract!RowRefused, Table

\* Every step is a step of ApprovalRow, or none that its variable shows.
LEMMA StepRefines ==
  ASSUME IndInv, Next PROVE Abstract!RowNext \/ UNCHANGED Table
<1> DEFINE Goal == Abstract!RowNext \/ UNCHANGED Table
<1>1. ASSUME NEW r \in Requests, NEW u \in Users, Create(r, u) PROVE Goal
  <2>1. \A q \in Requests \ {r} : RowOf(q)' = RowOf(q)
    BY <1>1, SameColumns DEF Create, IndInv, TypeOK, Approvers
  <2>2. Table' = [Table EXCEPT ![r] = RowOf(r)']
    BY <2>1, OneRow
  <2>3. Table[r].status = "absent" /\ Cardinality(Approvers(r)) = 0 /\ decision[r][u] = "none"
    <3>1. status[r] = "absent" /\ Approvers(r) = {} /\ decision[r][u] = "none"
      BY <1>1 DEF Create, IndInv, IndRows, Approvers
    <3> QED
      BY <3>1, RowFields, FS_EmptySet
  <2>4. CASE AutoApproved(r)
    <3>1. /\ status' = [status EXCEPT ![r] = "approved"]
          /\ decision' = [decision EXCEPT ![r][u] = "approved"]
          /\ UNCHANGED <<executed, clock>>
      BY <1>1, <2>4 DEF Create
    <3>2. Cardinality(Approvers(r)') = 1
      <4>1. Cardinality(Approvers(r)') = Cardinality(Approvers(r)) + 1
        BY <2>3, <3>1, ApproverAdded DEF IndInv
      <4> QED
        BY <2>3, <4>1
    <3>5. status'[r] = "approved" /\ executed'[r] = executed[r] /\ clock'[r] = clock[r]
      BY <3>1 DEF IndInv, TypeOK
    <3>3. RowOf(r)' = [RowOf(r) EXCEPT !.status = "approved", !.approvers = 1]
      <4>1. /\ RowOf(r)'.status = "approved" /\ RowOf(r)'.approvers = 1
            /\ RowOf(r)'.executed = RowOf(r).executed /\ RowOf(r)'.overdue = RowOf(r).overdue
        BY <3>2, <3>5, RowFields, FieldsAfter
      <4>2. RowOf(r) \in Abstract!Rows /\ RowOf(r)' \in Abstract!Rows
        BY RowTyped
      <4> QED
        BY <4>1, <4>2 DEF Abstract!Rows, Abstract!RowStatuses
    <3>4. Abstract!RowAutoApproved(r)
      BY <2>2, <2>3, <3>3, RowFields DEF Abstract!RowAutoApproved, Table
    <3> QED
      BY <3>4 DEF Abstract!RowNext
  <2>5. CASE ~AutoApproved(r)
    <3>1. /\ status' = [status EXCEPT ![r] = "pending"]
          /\ UNCHANGED <<executed, clock, decision>>
      BY <1>1, <2>5 DEF Create
    <3>5. /\ status'[r] = "pending" /\ executed'[r] = executed[r] /\ clock'[r] = clock[r]
          /\ Approvers(r)' = Approvers(r)
      BY <3>1 DEF Approvers, IndInv, TypeOK
    <3>2. RowOf(r)' = [RowOf(r) EXCEPT !.status = "pending"]
      <4>1. /\ RowOf(r)'.status = "pending" /\ RowOf(r)'.approvers = RowOf(r).approvers
            /\ RowOf(r)'.executed = RowOf(r).executed /\ RowOf(r)'.overdue = RowOf(r).overdue
        BY <3>5, RowFields, FieldsAfter
      <4>2. RowOf(r) \in Abstract!Rows /\ RowOf(r)' \in Abstract!Rows
        BY RowTyped
      <4> QED
        BY <4>1, <4>2 DEF Abstract!Rows, Abstract!RowStatuses
    <3>4. Abstract!RowRequested(r)
      BY <2>2, <2>3, <3>2, RowFields DEF Abstract!RowRequested, Table
    <3> QED
      BY <3>4 DEF Abstract!RowNext
  <2> QED
    BY <2>4, <2>5
<1>2. ASSUME NEW r \in Requests, ClockAdvances(r) PROVE Goal
  <2>1. UNCHANGED <<status, executed, decision>> /\ status[r] # "absent"
    BY <1>2 DEF ClockAdvances, row
  <2>2. \A q \in Requests \ {r} : RowOf(q)' = RowOf(q)
    BY <1>2, <2>1, SameColumns, QuorumSame DEF ClockAdvances, IndInv, TypeOK, Approvers
  <2>3. CASE clock[r] = "young"
    <3>1. RowOf(r)' = RowOf(r)
      BY <1>2, <2>1, <2>3, SameColumns DEF ClockAdvances, IndInv, TypeOK, Approvers
    <3> QED
      BY <2>2, <3>1, NoRow
  <2>4. CASE clock[r] # "young"
    <3>1. clock'[r] = "overdue"
      BY <1>2, <2>4 DEF ClockAdvances, IndInv, TypeOK
    <3>2. RowOf(r)' = [RowOf(r) EXCEPT !.overdue = TRUE]
      <4>1. Approvers(r)' = Approvers(r)
        BY <2>1 DEF Approvers
      <4>2. /\ RowOf(r)'.status = RowOf(r).status /\ RowOf(r)'.executed = RowOf(r).executed
            /\ RowOf(r)'.approvers = RowOf(r).approvers
        BY <2>1, <4>1, RowFields, FieldsAfter
      <4>3. RowOf(r)'.overdue = TRUE
        BY <3>1, FieldsAfter
      <4>4. RowOf(r) \in Abstract!Rows /\ RowOf(r)' \in Abstract!Rows
        BY RowTyped
      <4> QED
        BY <4>2, <4>3, <4>4 DEF Abstract!Rows, Abstract!RowStatuses
    <3>3. Table' = [Table EXCEPT ![r].overdue = TRUE]
      BY <2>2, <3>2, OneRow, RowFields
    <3>4. Abstract!RowOverdue(r)
      BY <2>1, <3>3, RowFields DEF Abstract!RowOverdue, Table
    <3> QED
      BY <3>4 DEF Abstract!RowNext, Abstract!RowDecided
  <2> QED
    BY <2>3, <2>4
<1>3. ASSUME NEW h \in Handlers, Reject(h) PROVE Goal
  <2>1. PICK q \in Requests, u \in Users :
            /\ q = handler[h].req /\ u = handler[h].user /\ status[q] # "absent"
            /\ decision' = [decision EXCEPT ![q][u] = "rejected"]
            /\ status' = [status EXCEPT ![q] = "rejected"]
            /\ \A r \in Requests : Approvers(r)' = Approvers(r) /\ Quorum(r)' = Quorum(r)
    BY SMTT(30), <1>3, RejectStep
  <2>2. UNCHANGED <<executed, clock>>
    BY <1>3 DEF Reject
  <2>3. Abstract!RowRefused(q)
    BY <2>1, <2>2, Refuses DEF IndInv
  <2> QED
    BY <2>3 DEF Abstract!RowNext, Abstract!RowDecided
<1>4. ASSUME NEW h \in Handlers, Approve(h) PROVE Goal
  <2>1. PICK q \in Requests, u \in Users :
            /\ q = handler[h].req /\ u = handler[h].user
            /\ status[q] # "absent" /\ decision[q][u] = "none"
    BY <1>4 DEF Approve, IndInv, IndHandlers
  <2>2. /\ decision' = [decision EXCEPT ![q][u] = "approved"]
        /\ status' = status \/ status' = [status EXCEPT ![q] = "approved"]
        /\ UNCHANGED <<executed, clock>>
    BY <1>4, <2>1 DEF Approve
  <2>3. /\ Cardinality(Approvers(q)') = Cardinality(Approvers(q)) + 1
        /\ \A r \in Requests \ {q} : Approvers(r)' = Approvers(r)
    BY <2>1, <2>2, ApproverAdded DEF IndInv
  <2>4. Table' = [Table EXCEPT ![q] = RowOf(q)']
    <3>1. \A r \in Requests \ {q} : status'[r] = status[r]
      BY <2>2 DEF IndInv, TypeOK
    <3> QED
      BY <2>1, <2>2, <2>3, <3>1, OneRow, SameColumns
  <2>5. PICK s \in {RowOf(q).status, "approved"} :
            RowOf(q)'.status = s /\ s \in Abstract!RowStatuses
    <3>1. CASE status' = status
      BY <2>2, <2>3, <3>1, RowFields, FieldsAfter, RowTyped DEF Abstract!Rows
    <3>2. CASE status' = [status EXCEPT ![q] = "approved"]
      <4>1. status'[q] = "approved"
        BY <3>2 DEF IndInv, TypeOK
      <4> QED
        BY <4>1, FieldsAfter DEF Abstract!RowStatuses
    <3> QED
      BY <2>2, <3>1, <3>2
  <2>6. RowOf(q)' = [RowOf(q) EXCEPT !.status = s, !.approvers = RowOf(q).approvers + 1]
    <3>1. /\ RowOf(q)'.status = s /\ RowOf(q)'.approvers = RowOf(q).approvers + 1
          /\ RowOf(q)'.executed = RowOf(q).executed /\ RowOf(q)'.overdue = RowOf(q).overdue
      BY <2>2, <2>3, <2>5, RowFields, FieldsAfter
    <3>2. RowOf(q) \in Abstract!Rows /\ RowOf(q)' \in Abstract!Rows
      BY RowTyped
    <3> QED
      BY <3>1, <3>2 DEF Abstract!Rows, Abstract!RowStatuses
  <2>7. Table' = [Table EXCEPT ![q] =
                    [RowOf(q) EXCEPT !.status = s, !.approvers = RowOf(q).approvers + 1]]
    BY <2>4, <2>6
  <2>8. Table[q].status # "absent" /\ Table[q] = RowOf(q)
    BY <2>1, RowFields
  <2>9. Abstract!RowApproved(q)
    BY <2>5, <2>7, <2>8 DEF Abstract!RowApproved, Table
  <2> QED
    BY <2>1, <2>9 DEF Abstract!RowNext, Abstract!RowDecided
<1>5. ASSUME NEW h \in Handlers, ExpireInline(h) \/ Cancel(h) PROVE Goal
  <2>1. handler[h].req \in Requests /\ status[handler[h].req] # "absent"
    BY <1>5 DEF ExpireInline, Cancel, IndInv, IndHandlers
  <2>2. PICK s \in {"rejected", "cancelled", "expired"} :
            /\ status' = [status EXCEPT ![handler[h].req] = s]
            /\ UNCHANGED <<executed, clock, decision>>
    BY <1>5 DEF ExpireInline, Cancel
  <2>3. \A r \in Requests : Approvers(r)' = Approvers(r)
    BY <2>2 DEF Approvers
  <2>4. Abstract!RowRefused(handler[h].req)
    BY <2>1, <2>2, <2>3, Refuses DEF IndInv
  <2> QED
    BY <2>1, <2>4 DEF Abstract!RowNext, Abstract!RowDecided
<1>6. ASSUME NEW h \in Handlers, Execute(h) PROVE Goal
  <2>1. PICK q \in Requests : q = handler[h].req
    BY <1>6 DEF Execute, IndInv, IndHandlers
  <2>2. UNCHANGED <<clock, decision>>
    BY <1>6 DEF Execute
  <2>3. \A r \in Requests : Approvers(r)' = Approvers(r)
    BY <2>2 DEF Approvers
  <2>4. CASE status[q] = "approved"
    <3>1. /\ status' = [status EXCEPT ![q] = "executed"]
          /\ executed' = [executed EXCEPT ![q] = TRUE]
      BY <1>6, <2>1, <2>4 DEF Execute
    <3>2. /\ status'[q] = "executed" /\ executed'[q]
          /\ \A r \in Requests \ {q} : status'[r] = status[r] /\ executed'[r] = executed[r]
      BY <3>1 DEF IndInv, TypeOK
    <3>3. Table' = [Table EXCEPT ![q] = RowOf(q)']
      BY <2>2, <2>3, <3>2, OneRow, SameColumns
    <3>4. executed'[q] = TRUE
      BY <3>1 DEF IndInv, TypeOK
    <3>5. RowOf(q)' = [RowOf(q) EXCEPT !.status = "executed", !.executed = TRUE]
      <4>1. /\ RowOf(q)'.status = "executed" /\ RowOf(q)'.executed = TRUE
            /\ RowOf(q)'.overdue = RowOf(q).overdue /\ RowOf(q)'.approvers = RowOf(q).approvers
        BY <2>2, <2>3, <3>2, <3>4, RowFields, FieldsAfter
      <4>2. RowOf(q) \in Abstract!Rows /\ RowOf(q)' \in Abstract!Rows
        BY RowTyped
      <4> QED
        BY <4>1, <4>2 DEF Abstract!Rows, Abstract!RowStatuses
    <3>6. Abstract!RowExecuted(q)
      BY <2>4, <3>3, <3>5, RowFields DEF Abstract!RowExecuted, Table
    <3> QED
      BY <3>6 DEF Abstract!RowNext
  <2>5. CASE status[q] # "approved"
    <3>1. UNCHANGED <<status, executed>>
      BY <1>6, <2>1, <2>5 DEF Execute
    <3> QED
      BY <2>2, <2>3, <3>1, NoRow, SameColumns
  <2> QED
    BY <2>4, <2>5
<1>7. ASSUME NEW m \in Monitors, NEW r \in Requests, ExpireApproval(m, r) PROVE Goal
  <2>1. UNCHANGED <<executed, clock, decision>>
    BY <1>7 DEF ExpireApproval
  <2>2. \A q \in Requests : Approvers(q)' = Approvers(q)
    BY <2>1 DEF Approvers
  <2>3. CASE status[r] = "pending"
    <3>1. status' = [status EXCEPT ![r] = "expired"]
      BY <1>7, <2>3 DEF ExpireApproval
    <3>2. Abstract!RowRefused(r)
      BY <2>1, <2>2, <2>3, <3>1, Refuses DEF IndInv
    <3> QED
      BY <3>2 DEF Abstract!RowNext, Abstract!RowDecided
  <2>4. CASE status[r] # "pending"
    BY <1>7, <2>1, <2>2, <2>4, NoRow, SameColumns DEF ExpireApproval
  <2> QED
    BY <2>3, <2>4
<1>8. ASSUME UNCHANGED <<status, executed, clock, decision>> PROVE Goal
  BY <1>8, NoRow, SameColumns DEF Approvers
<1>9. ASSUME NEW h \in Handlers,
             \/ \E r \in Requests, u \in Users, v \in Verdicts : Load(h, r, u, v)
             \/ \E r \in Requests, u \in Users : LoadForCancel(h, r, u)
             \/ \E r \in Requests : Verify(h, r)
             \/ Check(h) \/ InsertDecision(h) \/ CountApprovals(h) \/ GiveUp(h)
      PROVE  Goal
  BY <1>8, <1>9 DEF Load, LoadForCancel, Verify, Check, InsertDecision, CountApprovals, GiveUp, row
<1>10. ASSUME NEW m \in Monitors,
             \/ BeginTick(m) \/ SelectExpiring(m) \/ EndTick(m) \/ MonitorFault(m)
             \/ \E r \in Requests : NotifyExpiring(m, r)
       PROVE  Goal
  BY <1>8, <1>10 DEF BeginTick, SelectExpiring, EndTick, MonitorFault, NotifyExpiring,
     SkipRow, MonitorCrash, row
<1> QED
  BY <1>1, <1>2, <1>3, <1>4, <1>5, <1>6, <1>7, <1>9, <1>10 DEF Next, Serve, Tick

\* Whatever handlers, monitors and crashes do to a request, its row changes only
\* as the consumers of approvals count on (verifyApproval, ExecuteAction).
THEOREM RowImplemented == Spec => ImplementsRow
<1>1. Init => Abstract!RowInit
  <2> SUFFICES ASSUME Init PROVE \A r \in Requests : RowOf(r) = Abstract!AbsentRow
    BY DEF Abstract!RowInit
  <2> TAKE r \in Requests
  <2>1. Approvers(r) = {}
    BY DEF Init, Approvers
  <2> QED
    BY <2>1, FS_EmptySet DEF Init, RowOf, Abstract!AbsentRow
<1>2. IndInv /\ [Next]_vars => [Abstract!RowNext]_Table
  <2>1. UNCHANGED vars => UNCHANGED Table
    BY DEF vars, row, Table, RowOf, Approvers
  <2> QED
    BY <2>1, StepRefines
<1>3. Spec => Abstract!RowSpec
  BY <1>1, <1>2, Inductive, PTL DEF Spec, Abstract!RowSpec, Table
<1> QED
  BY <1>3 DEF ImplementsRow

-----------------------------------------------------------------------------
(* Announcements *)

\* The monitors that have yet to announce r, as expired or as expiring.
Holders(step, r) == {m \in Monitors : monitor[m].step = step /\ r \in monitor[m].todo}

\* While a request can still be selected nothing has been announced of it; each
\* announcement uses up one monitor that selected it, and later none selects it.
Announced(r) ==
    /\ status[r] = "pending" => expired[r] = 0
    /\ expired[r] + Cardinality(Holders("expire", r)) <= Cardinality(Monitors)
    /\ ~notified[r] => expiring[r] = 0
    /\ expiring[r] + Cardinality(Holders("notify", r)) <= Cardinality(Monitors)

\* That of every request.
IndAnnounced == \A r \in Requests : Announced(r)

\* Holders are monitors, and there are finitely many.
LEMMA HoldersFinite ==
  ASSUME NEW H \in SUBSET Monitors
  PROVE  /\ IsFiniteSet(H) /\ Cardinality(H) \in Nat
         /\ Cardinality(H) <= Cardinality(Monitors) /\ Cardinality(Monitors) \in Nat
         /\ \A G \in SUBSET H : Cardinality(G) \in Nat /\ Cardinality(G) <= Cardinality(H)
         /\ \A m \in H : \A G \in SUBSET (H \ {m}) : Cardinality(G) + 1 <= Cardinality(H)
<1>1. /\ IsFiniteSet(H) /\ Cardinality(H) <= Cardinality(Monitors)
      /\ Cardinality(H) \in Nat /\ Cardinality(Monitors) \in Nat
  BY ApprovalAssumption, FS_Subset, FS_CardinalityType
<1>2. ASSUME NEW G \in SUBSET H PROVE Cardinality(G) \in Nat /\ Cardinality(G) <= Cardinality(H)
  BY <1>1, FS_Subset, FS_CardinalityType
<1>3. ASSUME NEW m \in H, NEW G \in SUBSET (H \ {m}) PROVE Cardinality(G) + 1 <= Cardinality(H)
  <2>1. Cardinality(H \ {m}) = Cardinality(H) - 1 /\ IsFiniteSet(H \ {m})
    BY <1>1, FS_RemoveElement
  <2>2. Cardinality(G) <= Cardinality(H \ {m}) /\ Cardinality(G) \in Nat
    BY <2>1, FS_Subset, FS_CardinalityType
  <2> QED
    BY <1>1, <2>1, <2>2
<1> QED
  BY <1>1, <1>2, <1>3

\* A step that announces nothing and selects r for nobody keeps what is so of it.
LEMMA NotSelected ==
  ASSUME TypeOK, NEW r \in Requests, Announced(r),
         status'[r] = "pending" => status[r] = "pending",
         expired'[r] = expired[r], expiring'[r] = expiring[r],
         notified[r] => notified'[r],
         Holders("expire", r)' \subseteq Holders("expire", r),
         Holders("notify", r)' \subseteq Holders("notify", r)
  PROVE  Announced(r)'
<1>1. /\ Cardinality(Holders("expire", r)') <= Cardinality(Holders("expire", r))
      /\ Cardinality(Holders("expire", r)') \in Nat
      /\ Cardinality(Holders("expire", r)) \in Nat
  <2>1. Holders("expire", r) \in SUBSET Monitors
    BY DEF Holders
  <2> QED
    BY <2>1, HoldersFinite
<1>2. /\ Cardinality(Holders("notify", r)') <= Cardinality(Holders("notify", r))
      /\ Cardinality(Holders("notify", r)') \in Nat
      /\ Cardinality(Holders("notify", r)) \in Nat
  <2>1. Holders("notify", r) \in SUBSET Monitors
    BY DEF Holders
  <2> QED
    BY <2>1, HoldersFinite
<1>3. Cardinality(Monitors) \in Nat /\ expired[r] \in Nat /\ expiring[r] \in Nat
  BY ApprovalAssumption, FS_CardinalityType DEF TypeOK
<1> QED
  BY <1>1, <1>2, <1>3 DEF Announced

\* No step lets a monitor announce a request it has announced before.
LEMMA AnnouncedPreserved == ASSUME IndInv, IndAnnounced, Next PROVE IndAnnounced'
<1> SUFFICES ASSUME NEW r \in Requests PROVE Announced(r)'
  BY DEF IndAnnounced
<1>1. /\ TypeOK /\ Announced(r)
      /\ \A s \in {"expire", "notify"} : Holders(s, r) \in SUBSET Monitors /\ Holders(s, r)' \in SUBSET Monitors
      /\ expired[r] \in Nat /\ expiring[r] \in Nat /\ Cardinality(Monitors) \in Nat
  BY ApprovalAssumption, FS_CardinalityType DEF IndInv, IndAnnounced, Holders, TypeOK
<1>2. ASSUME NEW m \in Monitors, BeginTick(m) PROVE Announced(r)'
  <2>1. Holders("notify", r)' \subseteq Holders("notify", r)
    BY <1>1, <1>2 DEF BeginTick, Holders, TypeOK
  <2>2. UNCHANGED <<status, notified, expired, expiring>>
    BY <1>2 DEF BeginTick, row, events
  <2>3. CASE status[r] = "pending"
    <3>1. Cardinality(Holders("expire", r)') <= Cardinality(Monitors)
      BY <1>1, HoldersFinite
    <3>2. Cardinality(Holders("notify", r)') <= Cardinality(Holders("notify", r))
      BY <1>1, <2>1, HoldersFinite
    <3>3. /\ Cardinality(Holders("notify", r)') \in Nat /\ Cardinality(Holders("notify", r)) \in Nat
          /\ Cardinality(Holders("expire", r)') \in Nat
      BY <1>1, HoldersFinite
    <3> QED
      BY <1>1, <2>2, <2>3, <3>1, <3>2, <3>3 DEF Announced
  <2>4. CASE status[r] # "pending"
    <3>1. Holders("expire", r)' \subseteq Holders("expire", r)
      BY <1>1, <1>2, <2>4 DEF BeginTick, Holders, Overdue, TypeOK
    <3> QED
      BY <1>1, <2>1, <2>2, <3>1, NotSelected
  <2> QED
    BY <2>3, <2>4
<1>3. ASSUME NEW m \in Monitors, SelectExpiring(m) PROVE Announced(r)'
  <2>1. Holders("expire", r)' \subseteq Holders("expire", r)
    BY <1>1, <1>3 DEF SelectExpiring, Holders, TypeOK
  <2>2. UNCHANGED <<status, notified, expired, expiring>>
    BY <1>3 DEF SelectExpiring, row, events
  <2>3. CASE ~notified[r]
    <3>1. Cardinality(Holders("notify", r)') <= Cardinality(Monitors)
      BY <1>1, HoldersFinite
    <3>2. Cardinality(Holders("expire", r)') <= Cardinality(Holders("expire", r))
      BY <1>1, <2>1, HoldersFinite
    <3>3. /\ Cardinality(Holders("expire", r)') \in Nat /\ Cardinality(Holders("expire", r)) \in Nat
          /\ Cardinality(Holders("notify", r)') \in Nat
      BY <1>1, HoldersFinite
    <3> QED
      BY <1>1, <2>2, <2>3, <3>1, <3>2, <3>3 DEF Announced
  <2>4. CASE notified[r]
    <3>1. Holders("notify", r)' \subseteq Holders("notify", r)
      BY <1>1, <1>3, <2>4 DEF SelectExpiring, Holders, Expiring, TypeOK
    <3> QED
      BY <1>1, <2>1, <2>2, <3>1, NotSelected
  <2> QED
    BY <2>3, <2>4
<1>4. ASSUME NEW m \in Monitors, NEW q \in Requests, RowDone(m, q), q \in monitor[m].todo
      PROVE  /\ \A s \in {"expire", "notify"} : Holders(s, r)' \subseteq Holders(s, r)
             /\ q = r => \A s \in {"expire", "notify"} : m \notin Holders(s, r)'
  BY <1>1, <1>4 DEF RowDone, Holders, TypeOK, MonitorStates
<1>5. ASSUME NEW m \in Monitors, NEW q \in Requests, ExpireApproval(m, q) PROVE Announced(r)'
  <2>1. /\ \A s \in {"expire", "notify"} : Holders(s, r)' \subseteq Holders(s, r)
        /\ q = r => \A s \in {"expire", "notify"} : m \notin Holders(s, r)'
    BY <1>4, <1>5 DEF ExpireApproval
  <2>2. /\ UNCHANGED <<notified, expiring>>
        /\ status'[r] = "pending" => status[r] = "pending"
    BY <1>1, <1>5 DEF ExpireApproval, TypeOK
  <2>3. CASE q = r
    <3>1. expired'[r] = expired[r] + 1 /\ status'[r] # "pending"
      BY <1>1, <1>5, <2>3 DEF ExpireApproval, TypeOK
    <3>2. m \in Holders("expire", r)
      BY <1>5, <2>3 DEF ExpireApproval, Holders
    <3>3. Cardinality(Holders("expire", r)') + 1 <= Cardinality(Holders("expire", r))
      BY <1>1, <2>1, <2>3, <3>2, HoldersFinite
    <3>4. Cardinality(Holders("notify", r)') <= Cardinality(Holders("notify", r))
      BY <1>1, <2>1, HoldersFinite
    <3>5. \A s \in {"expire", "notify"} :
            Cardinality(Holders(s, r)) \in Nat /\ Cardinality(Holders(s, r)') \in Nat
      BY <1>1, HoldersFinite
    <3> QED
      BY <1>1, <2>2, <3>1, <3>3, <3>4, <3>5 DEF Announced
  <2>4. CASE q # r
    <3>1. expired'[r] = expired[r]
      BY <1>1, <1>5, <2>4 DEF ExpireApproval, TypeOK
    <3> QED
      BY <1>1, <2>1, <2>2, <3>1, NotSelected
  <2> QED
    BY <2>3, <2>4
<1>6. ASSUME NEW m \in Monitors, NEW q \in Requests, NotifyExpiring(m, q) PROVE Announced(r)'
  <2>1. /\ \A s \in {"expire", "notify"} : Holders(s, r)' \subseteq Holders(s, r)
        /\ q = r => \A s \in {"expire", "notify"} : m \notin Holders(s, r)'
    BY <1>4, <1>6 DEF NotifyExpiring
  <2>2. UNCHANGED <<status, expired>> /\ (notified[r] => notified'[r])
    BY <1>1, <1>6 DEF NotifyExpiring, TypeOK
  <2>3. CASE q = r /\ notified'[r]
    <3>1. expiring'[r] = expiring[r] + 1
      BY <1>1, <1>6, <2>3 DEF NotifyExpiring, TypeOK
    <3>2. m \in Holders("notify", r)
      BY <1>6, <2>3 DEF NotifyExpiring, Holders
    <3>3. Cardinality(Holders("notify", r)') + 1 <= Cardinality(Holders("notify", r))
      BY <1>1, <2>1, <2>3, <3>2, HoldersFinite
    <3>4. Cardinality(Holders("expire", r)') <= Cardinality(Holders("expire", r))
      BY <1>1, <2>1, HoldersFinite
    <3>5. \A s \in {"expire", "notify"} :
            Cardinality(Holders(s, r)) \in Nat /\ Cardinality(Holders(s, r)') \in Nat
      BY <1>1, HoldersFinite
    <3> QED
      BY <1>1, <2>2, <2>3, <3>1, <3>3, <3>4, <3>5 DEF Announced
  <2>4. CASE ~(q = r /\ notified'[r])
    <3>1. expiring'[r] = expiring[r]
      BY <1>1, <1>6, <2>4 DEF NotifyExpiring, TypeOK
    <3> QED
      BY <1>1, <2>1, <2>2, <3>1, NotSelected
  <2> QED
    BY <2>3, <2>4
<1>7. ASSUME NEW m \in Monitors, EndTick(m) \/ MonitorCrash(m) PROVE Announced(r)'
  <2>1. \A s \in {"expire", "notify"} : Holders(s, r)' \subseteq Holders(s, r)
    BY <1>1, <1>7 DEF EndTick, MonitorCrash, MonitorIdle, Holders, TypeOK
  <2>2. UNCHANGED <<status, notified, expired, expiring>>
    BY <1>7 DEF EndTick, MonitorCrash, row, events
  <2> QED
    BY <1>1, <2>1, <2>2, NotSelected
<1>8. ASSUME NEW m \in Monitors, NEW q \in Requests, SkipRow(m, q) PROVE Announced(r)'
  <2>1. \A s \in {"expire", "notify"} : Holders(s, r)' \subseteq Holders(s, r)
    BY <1>4, <1>8 DEF SkipRow
  <2>2. UNCHANGED <<status, notified, expired, expiring>>
    BY <1>8 DEF SkipRow, row, events
  <2> QED
    BY <1>1, <2>1, <2>2, NotSelected
<1>9. ASSUME UNCHANGED <<notified, monitor, events>>,
             status'[r] = "pending" => status[r] = "pending"
      PROVE  Announced(r)'
  BY <1>1, <1>9, NotSelected DEF Holders, events
<1>10. ASSUME NEW q \in Requests, NEW u \in Users, Create(q, u) PROVE Announced(r)'
  <2>1. UNCHANGED <<notified, monitor, events>>
    BY <1>10 DEF Create
  <2>2. CASE q # r
    <3>1. status'[r] = status[r]
      BY <1>1, <1>10, <2>2 DEF Create, TypeOK
    <3> QED
      BY <1>9, <2>1, <3>1
  <2>3. CASE q = r
    <3>1. expired[r] = 0
      BY <1>10, <2>3 DEF Create, IndInv, IndRows
    <3>2. Announced(r)' <=> (Announced(r) /\ (status'[r] = "pending" => expired[r] = 0))
      BY <1>1, <1>10, <2>1, <2>3 DEF Announced, Holders, events, Create
    <3> QED
      BY <1>1, <3>1, <3>2
  <2> QED
    BY <2>2, <2>3
<1>11. ASSUME NEW q \in Requests, ClockAdvances(q) PROVE Announced(r)'
  BY <1>9, <1>11 DEF ClockAdvances, row
<1>12. ASSUME NEW h \in Handlers, Serve(h) PROVE Announced(r)'
  <2>1. UNCHANGED <<notified, monitor, events>>
    BY <1>12 DEF Serve, Load, LoadForCancel, Verify, ExpireInline, Check, InsertDecision,
       CountApprovals, Reject, Approve, Cancel, Execute, GiveUp, row
  <2>2. status'[r] = "pending" => status[r] = "pending"
    BY <1>1, <1>12 DEF Serve, Load, LoadForCancel, Verify, ExpireInline, Check, InsertDecision,
       CountApprovals, Reject, Approve, Cancel, Execute, GiveUp, row, TypeOK
  <2> QED
    BY <1>9, <2>1, <2>2
<1> QED
  BY <1>2, <1>3, <1>5, <1>6, <1>7, <1>8, <1>10, <1>11, <1>12 DEF Next, Tick, MonitorFault

\* No replica announces a request twice, as expiring or as expired, crashes and
\* failed transactions included (notifyExpiring, expireApproval).
THEOREM EachAnnouncesOnce == Spec => []AnnouncedPerReplica
<1>1. Init => IndAnnounced
  <2> SUFFICES ASSUME Init, NEW r \in Requests PROVE Announced(r)
    BY DEF IndAnnounced
  <2>1. \A s \in {"expire", "notify"} : Holders(s, r) = {}
    BY DEF Init, Holders, MonitorIdle
  <2>2. Cardinality(Monitors) \in Nat
    BY ApprovalAssumption, FS_CardinalityType
  <2> QED
    BY <2>1, <2>2, FS_EmptySet DEF Init, Announced
<1>2. IndInv /\ IndAnnounced /\ [Next]_vars => IndAnnounced'
  <2>1. ASSUME UNCHANGED vars, IndAnnounced PROVE IndAnnounced'
    BY <2>1 DEF vars, row, events, IndAnnounced, Announced, Holders
  <2> QED
    BY <2>1, AnnouncedPreserved
<1>3. IndInv /\ IndAnnounced => AnnouncedPerReplica
  <2> SUFFICES ASSUME IndInv, IndAnnounced, NEW r \in Requests
      PROVE  expiring[r] <= Cardinality(Monitors) /\ expired[r] <= Cardinality(Monitors)
    BY DEF AnnouncedPerReplica
  <2>1. \A s \in {"expire", "notify"} : Holders(s, r) \in SUBSET Monitors
    BY DEF Holders
  <2>2. \A s \in {"expire", "notify"} : Cardinality(Holders(s, r)) \in Nat
    BY <2>1, HoldersFinite
  <2>3. Cardinality(Monitors) \in Nat /\ expired[r] \in Nat /\ expiring[r] \in Nat
    BY ApprovalAssumption, FS_CardinalityType DEF IndInv, TypeOK
  <2> QED
    BY <2>2, <2>3 DEF IndAnnounced, Announced
<1> QED
  BY <1>1, <1>2, <1>3, Inductive, PTL DEF Spec
=============================================================================
