------------------------------ MODULE Approval ------------------------------
(***************************************************************************)
(* internal/approval: requests for approval, the decisions on them, their  *)
(* cancellation and the expiry monitor, together with the check and the    *)
(* mark with which the tool gateway (internal/agent) uses an approval.     *)
(*                                                                         *)
(* Every HTTP request is served by a handler that reads the row first,     *)
(* outside any transaction, and writes later; the monitor runs in every    *)
(* replica of the API.  A transaction takes effect when it commits: what   *)
(* it wrote is invisible until then, and the row lock its UPDATE takes     *)
(* makes the UPDATE and the commit one step for all others.  Time is       *)
(* abstracted to whether a request is young, about to expire, or overdue.  *)
(*                                                                         *)
(* A handler or a monitor may give up at any step: a check refuses it, a   *)
(* statement fails, the 30 second timeout of the router strikes, or the    *)
(* process dies.  What hasRecentMFA answers is left to that choice.        *)
(***************************************************************************)
EXTENDS Naturals, FiniteSets

CONSTANTS
    Requests,  \* ids of approval requests
    Users,     \* members of the team
    Creators,  \* those with the permission approvals.create
    Deciders,  \* those with the permission approvals.approve
    Admins,    \* those whose team role is owner or admin
    None,      \* no user, and no request
    Policy,    \* what ResolvePolicy finds for each request's risk level
    Handlers,  \* HTTP requests in progress at a time
    Monitors,  \* replicas of the API, each with its expiry monitor
    CountMayFail  \* whether the query of CountApprovals may fail

Policies == [min : Nat, self : BOOLEAN, auto : BOOLEAN]

ASSUME ApprovalAssumption ==
    /\ IsFiniteSet(Users) /\ IsFiniteSet(Monitors)
    /\ Creators \cup Deciders \cup Admins \subseteq Users
    /\ None \notin Users \cup Requests
    /\ Policy \in [Requests -> Policies]
    /\ CountMayFail \in BOOLEAN

\* builtinPolicy; the branch for an unknown level is the medium policy here.
BuiltinPolicy(risk) ==
    CASE risk = "low"      -> [min |-> 1, self |-> TRUE, auto |-> TRUE]
      [] risk = "critical" -> [min |-> 2, self |-> FALSE, auto |-> FALSE]
      [] OTHER             -> [min |-> 1, self |-> FALSE, auto |-> FALSE]

VARIABLES
    status,     \* approval_requests.status, "absent" before the insert
    requester,  \* requested_by
    clock,      \* where NOW() stands in the request's window
    notified,   \* expiring_notified_at is set
    executed,   \* executed_at is set
    decision,   \* approval_decisions: each user's committed decision
    handler,    \* what each handler has read and does next
    monitor,    \* where each monitor is in its tick
    expiring,   \* history: approval.expiring events of a request
    expired,    \* history: approval.expired events of a request
    effects     \* history: effects executed on the strength of a request

row == <<status, requester, notified, executed>>
events == <<expiring, expired>>
vars == <<row, clock, decision, handler, monitor, events, effects>>

Statuses == {"absent", "pending", "approved", "rejected", "cancelled", "expired", "executed"}
Clocks == {"young", "closing", "overdue"}
Verdicts == {"approved", "rejected"}

Steps == {"idle", "loaded", "checked", "inserted", "counted", "expire", "cancel", "execute"}
HandlerStates ==
    [step : Steps, req : Requests \cup {None}, user : Users \cup {None},
     verdict : Verdicts \cup {"none"}, count : Nat]

Idle == [step |-> "idle", req |-> None, user |-> None, verdict |-> "none", count |-> 0]

MonitorStates ==
    [step : {"idle", "expire", "notify"}, todo : SUBSET Requests, closing : SUBSET Requests]

TypeOK ==
    /\ status \in [Requests -> Statuses]
    /\ requester \in [Requests -> Users \cup {None}]
    /\ clock \in [Requests -> Clocks]
    /\ notified \in [Requests -> BOOLEAN]
    /\ executed \in [Requests -> BOOLEAN]
    /\ decision \in [Requests -> [Users -> Verdicts \cup {"none"}]]
    /\ handler \in [Handlers -> HandlerStates]
    /\ monitor \in [Monitors -> MonitorStates]
    /\ expiring \in [Requests -> Nat]
    /\ expired \in [Requests -> Nat]
    /\ effects \in [Requests -> Nat]

MonitorIdle == [step |-> "idle", todo |-> {}, closing |-> {}]

Init ==
    /\ status = [r \in Requests |-> "absent"]
    /\ requester = [r \in Requests |-> None]
    /\ clock = [r \in Requests |-> "young"]
    /\ notified = [r \in Requests |-> FALSE]
    /\ executed = [r \in Requests |-> FALSE]
    /\ decision = [r \in Requests |-> [u \in Users |-> "none"]]
    /\ handler = [h \in Handlers |-> Idle]
    /\ monitor = [m \in Monitors |-> MonitorIdle]
    /\ expiring = [r \in Requests |-> 0]
    /\ expired = [r \in Requests |-> 0]
    /\ effects = [r \in Requests |-> 0]

Approvers(r) == {u \in Users : decision[r][u] = "approved"}

\* Not IsTerminalState: of the statuses a row can have only "pending" is open.
Open(r) == status[r] = "pending"

\* The policy approves a request at once, in the requester's own name.
AutoApproved(r) == Policy[r].auto /\ Policy[r].self

-----------------------------------------------------------------------------
(* Creating a request *)

Create(r, u) ==
    /\ u \in Creators
    /\ status[r] = "absent"
    /\ requester' = [requester EXCEPT ![r] = u]
    /\ IF AutoApproved(r)
       THEN /\ status' = [status EXCEPT ![r] = "approved"]
            /\ decision' = [decision EXCEPT ![r][u] = "approved"]
       ELSE /\ status' = [status EXCEPT ![r] = "pending"]
            /\ UNCHANGED decision
    /\ UNCHANGED <<clock, notified, executed, handler, monitor, events, effects>>

\* expires_at comes nearer.
ClockAdvances(r) ==
    /\ status[r] # "absent"
    /\ clock[r] # "overdue"
    /\ clock' = [clock EXCEPT ![r] = IF @ = "young" THEN "closing" ELSE "overdue"]
    /\ UNCHANGED <<row, decision, handler, monitor, events, effects>>

-----------------------------------------------------------------------------
(* decide: Approve and Reject *)

\* A handler has read the row and goes on, or ends.
Takes(h, step, r, u, v) ==
    handler' = [handler EXCEPT ![h] =
        [step |-> step, req |-> r, user |-> u, verdict |-> v, count |-> 0]]
Moves(h, step) == handler' = [handler EXCEPT ![h].step = step]
Ends(h) == handler' = [handler EXCEPT ![h] = Idle]

\* The row is read; a terminal one is refused.
Load(h, r, u, v) ==
    /\ u \in Deciders
    /\ handler[h].step = "idle"
    /\ Open(r)
    /\ IF clock[r] = "overdue"
       THEN Takes(h, "expire", r, None, "none")
       ELSE Takes(h, "loaded", r, u, v)
    /\ UNCHANGED <<row, clock, decision, monitor, events, effects>>

\* A request read as pending and overdue is set to expired, whatever it is by
\* now, and no event is written.
ExpireInline(h) ==
    /\ handler[h].step = "expire"
    /\ status' = [status EXCEPT ![handler[h].req] = "expired"]
    /\ Ends(h)
    /\ UNCHANGED <<requester, notified, executed, clock, decision, monitor, events, effects>>

\* HasUserDecided is false, and self-approval is allowed or not the case.
MayDecide(r, u) ==
    /\ decision[r][u] = "none"
    /\ requester[r] = u => Policy[r].self

Check(h) ==
    /\ handler[h].step = "loaded"
    /\ MayDecide(handler[h].req, handler[h].user)
    /\ Moves(h, "checked")
    /\ UNCHANGED <<row, clock, decision, monitor, events, effects>>

\* The user has a row of approval_decisions that has not committed yet.
Inserting(r, u) ==
    \E g \in Handlers :
        /\ handler[g].step \in {"inserted", "counted"}
        /\ handler[g].req = r /\ handler[g].user = u

\* INSERT INTO approval_decisions: the unique key (approval_id, decided_by)
\* refuses a second row, and waits for a transaction that may commit one.
InsertDecision(h) ==
    /\ handler[h].step = "checked"
    /\ decision[handler[h].req][handler[h].user] = "none"
    /\ ~Inserting(handler[h].req, handler[h].user)
    /\ Moves(h, "inserted")
    /\ UNCHANGED <<row, clock, decision, monitor, events, effects>>

\* Mutant: every decision is counted.
CountedDecisions(r) == Cardinality({u \in Users : decision[r][u] # "none"})

\* SELECT COUNT on another connection: it sees what has committed.
CountedApprovals(r) == Cardinality(Approvers(r))

\* The approvals of the others, and this one; when the query fails, its error
\* is ignored and the others count for nothing.
CountApprovals(h) ==
    /\ handler[h].step = "inserted"
    /\ handler[h].verdict = "approved"
    /\ \E others \in {CountedApprovals(handler[h].req)} \cup {n \in {0} : CountMayFail} :
        handler' = [handler EXCEPT ![h].step = "counted", ![h].count = others + 1]
    /\ UNCHANGED <<row, clock, decision, monitor, events, effects>>

\* Mutant: a rejection is recorded without a change of status.
RejectSilently(h) ==
    LET r == handler[h].req IN
    /\ handler[h].step = "inserted"
    /\ handler[h].verdict = "rejected"
    /\ decision' = [decision EXCEPT ![r][handler[h].user] = "rejected"]
    /\ Ends(h)
    /\ UNCHANGED <<row, clock, monitor, events, effects>>

\* The UPDATE names the request by its id alone: what it is now is not asked.
Reject(h) ==
    LET r == handler[h].req IN
    /\ handler[h].step = "inserted"
    /\ handler[h].verdict = "rejected"
    /\ decision' = [decision EXCEPT ![r][handler[h].user] = "rejected"]
    /\ status' = [status EXCEPT ![r] = "rejected"]
    /\ Ends(h)
    /\ UNCHANGED <<requester, notified, executed, clock, monitor, events, effects>>

\* Also without regard to the present status.
Approve(h) ==
    LET r == handler[h].req IN
    /\ handler[h].step = "counted"
    /\ decision' = [decision EXCEPT ![r][handler[h].user] = "approved"]
    /\ status' = IF handler[h].count >= Policy[r].min
                 THEN [status EXCEPT ![r] = "approved"] ELSE status
    /\ Ends(h)
    /\ UNCHANGED <<requester, notified, executed, clock, monitor, events, effects>>

-----------------------------------------------------------------------------
(* Cancel *)

LoadForCancel(h, r, u) ==
    /\ handler[h].step = "idle"
    /\ Open(r)
    /\ u \in Creators
    /\ u = requester[r] \/ u \in Admins
    /\ Takes(h, "cancel", r, None, "none")
    /\ UNCHANGED <<row, clock, decision, monitor, events, effects>>

Cancel(h) ==
    /\ handler[h].step = "cancel"
    /\ status' = [status EXCEPT ![handler[h].req] = "cancelled"]
    /\ Ends(h)
    /\ UNCHANGED <<requester, notified, executed, clock, decision, monitor, events, effects>>

-----------------------------------------------------------------------------
(* Using an approval: verifyApproval, and then the transaction of ExecuteTool *)

Verify(h, r) ==
    /\ handler[h].step = "idle"
    /\ status[r] = "approved"
    /\ ~executed[r]
    /\ clock[r] # "overdue"
    /\ Takes(h, "execute", r, None, "none")
    /\ UNCHANGED <<row, clock, decision, monitor, events, effects>>

\* Mutant: the UPDATE does not ask for an approved row.
ExecuteUnguarded(h) ==
    LET r == handler[h].req IN
    /\ handler[h].step = "execute"
    /\ effects' = [effects EXCEPT ![r] = @ + 1]
    /\ status' = [status EXCEPT ![r] = "executed"]
    /\ executed' = [executed EXCEPT ![r] = TRUE]
    /\ Ends(h)
    /\ UNCHANGED <<requester, notified, clock, decision, monitor, events>>

\* The effect is recorded; the UPDATE marks the approval if it is approved
\* still, and how many rows it changed is not asked.
Execute(h) ==
    LET r == handler[h].req IN
    /\ handler[h].step = "execute"
    /\ effects' = [effects EXCEPT ![r] = @ + 1]
    /\ IF status[r] = "approved"
       THEN /\ status' = [status EXCEPT ![r] = "executed"]
            /\ executed' = [executed EXCEPT ![r] = TRUE]
       ELSE UNCHANGED <<status, executed>>
    /\ Ends(h)
    /\ UNCHANGED <<requester, notified, clock, decision, monitor, events>>

\* A handler ends without effect.
GiveUp(h) ==
    /\ handler[h].step # "idle"
    /\ Ends(h)
    /\ UNCHANGED <<row, clock, decision, monitor, events, effects>>

-----------------------------------------------------------------------------
(* The expiry monitor *)

\* Mutant: the query compares expires_at with the end of the threshold.
OverdueEarly == {r \in Requests : status[r] = "pending" /\ clock[r] # "young"}

\* Mutant: only a request that was announced is expired.
OverdueAnnounced ==
    {r \in Requests : status[r] = "pending" /\ clock[r] = "overdue" /\ notified[r]}

\* The query of processExpired.
Overdue == {r \in Requests : status[r] = "pending" /\ clock[r] = "overdue"}

\* A tick begins: the rows of processExpired, and the time that the threshold
\* of processExpiring is compared with.
BeginTick(m) ==
    /\ monitor[m].step = "idle"
    /\ monitor' = [monitor EXCEPT ![m] =
            [step |-> "expire", todo |-> Overdue,
             closing |-> {r \in Requests : clock[r] = "closing"}]]
    /\ UNCHANGED <<row, clock, decision, handler, events, effects>>

RowDone(m, r) == monitor' = [monitor EXCEPT ![m].todo = @ \ {r}]

\* expireApproval: the UPDATE asks for a pending row, and the event is written
\* whether it found one or not.
ExpireApproval(m, r) ==
    /\ monitor[m].step = "expire"
    /\ r \in monitor[m].todo
    /\ status' = IF status[r] = "pending" THEN [status EXCEPT ![r] = "expired"] ELSE status
    /\ expired' = [expired EXCEPT ![r] = @ + 1]
    /\ RowDone(m, r)
    /\ UNCHANGED <<requester, notified, executed, clock, decision, handler, expiring, effects>>

\* Mutant: the query does not ask whether a notification went out.
ExpiringAgain(m) ==
    {r \in monitor[m].closing : status[r] = "pending"}

\* The query of processExpiring, and its threshold.
Expiring(m) ==
    {r \in monitor[m].closing : status[r] = "pending" /\ ~notified[r]}

SelectExpiring(m) ==
    /\ monitor[m].step = "expire"
    /\ monitor[m].todo = {}
    /\ monitor' = [monitor EXCEPT ![m] =
            [step |-> "notify", todo |-> Expiring(m), closing |-> monitor[m].closing]]
    /\ UNCHANGED <<row, clock, decision, handler, events, effects>>

\* notifyExpiring: the UPDATE asks for a pending row without a notification;
\* the guard after it asks whether the row has one now, of whomever.
NotifyExpiring(m, r) ==
    /\ monitor[m].step = "notify"
    /\ r \in monitor[m].todo
    /\ notified' = [notified EXCEPT ![r] = @ \/ status[r] = "pending"]
    /\ expiring' = IF notified'[r] THEN [expiring EXCEPT ![r] = @ + 1] ELSE expiring
    /\ RowDone(m, r)
    /\ UNCHANGED <<status, requester, executed, clock, decision, handler, expired, effects>>

EndTick(m) ==
    /\ monitor[m].step = "notify"
    /\ monitor[m].todo = {}
    /\ monitor' = [monitor EXCEPT ![m] = MonitorIdle]
    /\ UNCHANGED <<row, clock, decision, handler, events, effects>>

\* The transaction of one row fails: the monitor goes on to the next.
SkipRow(m, r) ==
    /\ r \in monitor[m].todo
    /\ RowDone(m, r)
    /\ UNCHANGED <<row, clock, decision, handler, events, effects>>

\* The replica restarts, and its monitor begins with a tick.
MonitorCrash(m) ==
    /\ monitor[m].step # "idle"
    /\ monitor' = [monitor EXCEPT ![m] = MonitorIdle]
    /\ UNCHANGED <<row, clock, decision, handler, events, effects>>

-----------------------------------------------------------------------------
Serve(h) ==
    \/ \E r \in Requests, u \in Users, v \in Verdicts : Load(h, r, u, v)
    \/ \E r \in Requests, u \in Users : LoadForCancel(h, r, u)
    \/ \E r \in Requests : Verify(h, r)
    \/ ExpireInline(h)
    \/ Check(h)
    \/ InsertDecision(h)
    \/ CountApprovals(h)
    \/ Reject(h)
    \/ Approve(h)
    \/ Cancel(h)
    \/ Execute(h)
    \/ GiveUp(h)

Tick(m) ==
    \/ BeginTick(m)
    \/ \E r \in Requests : ExpireApproval(m, r)
    \/ SelectExpiring(m)
    \/ \E r \in Requests : NotifyExpiring(m, r)
    \/ EndTick(m)

MonitorFault(m) ==
    \/ \E r \in Requests : SkipRow(m, r)
    \/ MonitorCrash(m)

Next ==
    \/ \E r \in Requests, u \in Users : Create(r, u)
    \/ \E r \in Requests : ClockAdvances(r)
    \/ \E h \in Handlers : Serve(h)
    \/ \E m \in Monitors : Tick(m) \/ MonitorFault(m)

Spec == Init /\ [][Next]_vars

\* Time passes, the ticker of every monitor keeps it going, and a row whose
\* turn comes again and again is not skipped for ever.
Fairness ==
    /\ \A r \in Requests : WF_vars(ClockAdvances(r))
    /\ \A m \in Monitors : WF_vars(Tick(m))
    /\ \A r \in Requests : SF_vars(\E m \in Monitors : ExpireApproval(m, r))

FairSpec == Spec /\ Fairness

-----------------------------------------------------------------------------
(* Properties *)

\* The approvers of a request meet its policy: as many distinct members as it
\* asks for, the requester among them only if it allows that, or the requester
\* alone where the policy approves at once.
Quorum(r) ==
    \/ /\ Cardinality(Approvers(r)) >= Policy[r].min
       /\ Policy[r].self \/ requester[r] \notin Approvers(r)
    \/ AutoApproved(r) /\ requester[r] \in Approvers(r)

\* However handlers and monitors interleave, and although every UPDATE of
\* decide and Cancel overwrites whatever status it finds, a request is approved
\* or executed only with the decisions its policy asks for on record, and no
\* effect was ever executed without them (decide, verifyApproval, ExecuteTool).
ApprovedByQuorum ==
    \A r \in Requests :
        status[r] \in {"approved", "executed"} \/ effects[r] > 0 => Quorum(r)

\* A request that can still be decided carries no rejection: the decision and
\* the status commit together, and nothing reopens a request (decide).
PendingUnrejected ==
    \A r \in Requests : status[r] = "pending" =>
        \A u \in Users : decision[r][u] # "rejected"

\* A request is never expired before its time, by whichever of the two paths
\* (the inline UPDATE of decide and the monitor), also when the row they read
\* has changed since.
ExpiredWasOverdue ==
    \A r \in Requests :
        status[r] = "expired" \/ expired[r] > 0 => clock[r] = "overdue"

\* Each replica announces a request at most once, and announces its expiry at
\* most once, crashes and failed transactions included (notifyExpiring,
\* expireApproval).
AnnouncedPerReplica ==
    \A r \in Requests :
        /\ expiring[r] <= Cardinality(Monitors)
        /\ expired[r] <= Cardinality(Monitors)

\* A request nobody decides does not stay pending: the monitor or a late
\* decider expires it.
OverdueIsSettled ==
    \A r \in Requests :
        status[r] = "pending" /\ clock[r] = "overdue" ~> status[r] # "pending"

\* The row of a request, as the consumers of approvals see it.
RowOf(r) ==
    [status |-> IF status[r] \in {"rejected", "cancelled", "expired"} THEN "refused" ELSE status[r],
     executed |-> executed[r],
     overdue |-> clock[r] = "overdue",
     approvers |-> Cardinality(Approvers(r))]

Abstract == INSTANCE ApprovalRow WITH approval <- [r \in Requests |-> RowOf(r)]

\* Whatever handlers, monitors and crashes do, a row changes only as the other
\* components count on: approved means that somebody approved, only an approved
\* row becomes executed, with executed_at, and executed_at stays.
ImplementsRow == Abstract!RowSpec

\* What the operations guide says of a decided request: once approved or
\* rejected, it stays so, but for the execution of an approved one.
DecidedIsFinal ==
    [][\A r \in Requests : status[r] \in Verdicts =>
            \/ status'[r] = status[r]
            \/ status[r] = "approved" /\ status'[r] = "executed"]_vars

\* What decide says of a request left pending: its minimum of approvers is not
\* met yet.
PendingIsShort ==
    \A r \in Requests : status[r] = "pending" =>
        Cardinality(Approvers(r)) < Policy[r].min
=============================================================================
