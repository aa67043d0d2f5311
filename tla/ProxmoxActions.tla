--------------------------- MODULE ProxmoxActions ---------------------------
(***************************************************************************)
(* internal/proxmox: actions on machines (start, shutdown, stop, snapshot) *)
(* that ask for an approval, their execution through the Proxmox API in a  *)
(* mutation window, the windows themselves, and the recorded outcomes.     *)
(*                                                                         *)
(* ExecuteAction checks one thing after the other, each with a query of    *)
(* its own, calls Proxmox, and records the outcome afterwards; requests    *)
(* for the same action, the administrators' requests for windows, and the  *)
(* passing of time interleave with every step of it.  The approval of an   *)
(* action is a row as ApprovalRow promises it.                             *)
(*                                                                         *)
(* A query that fails counts as a refused check, so a check may refuse at  *)
(* any time; a handler may end at any step: a failed statement, the 30     *)
(* second timeout of the router, or the death of the process.  A recent    *)
(* MFA verification and readable metadata of the asset are left to that    *)
(* choice, too.                                                            *)
(***************************************************************************)
EXTENDS ApprovalRow, FiniteSets

CONSTANTS
    TypeOf,           \* the action type of each action, whose request has its id
    Windows,          \* rows of proxmox_mutation_windows
    Callers,          \* HTTP requests in progress at a time
    NoId,             \* neither an action nor a window
    MaxCalls          \* bound: calls of Proxmox per action

\* Rows of asset_actions.
Actions == DOMAIN TypeOf

ActionTypes == {"start", "snapshot", "shutdown", "stop"}

ProxmoxAssumption ==
    /\ TypeOf \in [Actions -> ActionTypes]
    /\ Actions \subseteq Requests
    /\ NoId \notin Actions \cup Windows
    /\ MaxCalls \in Nat

\* Mutant: every type is content with one approver.
OneApprover(type) == 1

\* allowedActions, the number of approvers.
MinApprovers(type) == IF type = "stop" THEN 2 ELSE 1

VARIABLES
    action,    \* asset_actions.status, "absent" before the insert
    outcome,   \* actions with a row in action_outcomes
    window,    \* proxmox_mutation_windows.status
    lapsed,    \* the open ones whose expires_at has passed
    caller,    \* what each request has learnt and does next
    ended,     \* history: windows announced as closed or expired
    crowded,   \* history: two requests to open a window overlapped
    calls,     \* history: calls of Proxmox for an action
    answered,  \* history: actions for which a call was answered with success
    excused,   \* history: actions of which a call was not recorded in full
    held       \* history: which facts held since a request began

rows == <<approval, action, outcome, window, lapsed>>
history == <<ended, crowded, calls, answered, excused>>
pvars == <<rows, caller, history, held>>

WindowStatuses == {"absent", "open", "closed", "expired"}
Facts == {"window", "approval", "approvers"}

CallerSteps ==
    {"idle", "begun", "windowed", "loaded", "verified", "cleared", "answered", "erred",
     "blocking", "ended", "opening", "closing", "closed", "sweeping", "expired"}

CallerStates ==
    [step : CallerSteps, id : Actions \cup Windows \cup {NoId}, todo : SUBSET Windows]

Free == [step |-> "idle", id |-> NoId, todo |-> {}]

PTypeOK ==
    /\ RowTypeOK
    /\ action \in [Actions -> {"absent", "pending", "succeeded", "failed"}]
    /\ outcome \subseteq Actions
    /\ window \in [Windows -> WindowStatuses]
    /\ lapsed \subseteq Windows
    /\ caller \in [Callers -> CallerStates]
    /\ ended \subseteq Windows
    /\ crowded \in BOOLEAN
    /\ calls \in [Actions -> Nat]
    /\ answered \subseteq Actions
    /\ excused \subseteq Actions
    /\ held \in [Callers -> SUBSET Facts]

PInit ==
    /\ RowInit
    /\ action = [a \in Actions |-> "absent"]
    /\ outcome = {}
    /\ window = [w \in Windows |-> "absent"]
    /\ lapsed = {}
    /\ caller = [c \in Callers |-> Free]
    /\ ended = {}
    /\ crowded = FALSE
    /\ calls = [a \in Actions |-> 0]
    /\ answered = {}
    /\ excused = {}
    /\ held = [c \in Callers |-> {}]

\* A request goes on to its next step, begins one about a row, or ends.
Proceeds(c, step) == caller' = [caller EXCEPT ![c].step = step]
Begins(c, step, id) == caller' = [caller EXCEPT ![c] = [step |-> step, id |-> id, todo |-> {}]]
Finishes(c) == caller' = [caller EXCEPT ![c] = Free]
At(c, step) == caller[c].step = step

-----------------------------------------------------------------------------
(* Requesting an action, and what becomes of its approval *)

\* CreateAction: the action and its request in one transaction.
CreateAction(a) ==
    /\ action[a] = "absent"
    /\ action' = [action EXCEPT ![a] = "pending"]
    /\ RowRequested(a)
    /\ UNCHANGED <<outcome, window, lapsed, caller, history>>

\* Members decide, as internal/approval lets them, until enough have.
Decide(a) ==
    /\ RowDecided(a)
    /\ approval'[a].approvers <= MinApprovers(TypeOf[a])
    /\ UNCHANGED <<action, outcome, window, lapsed, caller, history>>

-----------------------------------------------------------------------------
(* ExecuteAction *)

BeginExecute(c, a) ==
    /\ At(c, "idle")
    /\ action[a] # "absent"
    /\ Begins(c, "begun", a)
    /\ UNCHANGED <<rows, history>>

\* HasActiveMutationWindow
ActiveMutationWindow == \E w \in Windows : window[w] = "open" /\ w \notin lapsed

CheckWindow(c) ==
    /\ At(c, "begun")
    /\ ActiveMutationWindow
    /\ Proceeds(c, "windowed")
    /\ UNCHANGED <<rows, history>>

\* An action that succeeded is reported as executed already.
LoadAction(c) ==
    /\ At(c, "windowed")
    /\ IF action[caller[c].id] = "succeeded" THEN Finishes(c) ELSE Proceeds(c, "loaded")
    /\ UNCHANGED <<rows, history>>

\* The approval as one query reads it.
CheckApproval(c) ==
    /\ At(c, "loaded")
    /\ Usable(caller[c].id)
    /\ Proceeds(c, "verified")
    /\ UNCHANGED <<rows, history>>

\* The distinct approvers an action type asks for, and a recent MFA.
CheckRequirements(c) ==
    /\ At(c, "verified")
    /\ approval[caller[c].id].approvers >= MinApprovers(TypeOf[caller[c].id])
    /\ Proceeds(c, "cleared")
    /\ UNCHANGED <<rows, history>>

\* Some check refuses, or its query fails; with cfg.ProxmoxMutationEnabled unset
\* every request is refused before its first query.
Refuse(c) ==
    /\ caller[c].step \in {"begun", "loaded", "verified", "cleared"}
    /\ Proceeds(c, "blocking")
    /\ UNCHANGED <<rows, history>>

\* Another request for the action has found the approval usable, and has not
\* recorded its call yet.
InFlight(c, a) ==
    \E d \in Callers \ {c} :
        /\ caller[d].id = a
        /\ caller[d].step \in {"verified", "cleared", "answered", "erred"}

\* Proxmox does what it is asked, or not; its answer is a task id, or an error
\* that leaves open what it did.
Call(c) ==
    LET a == caller[c].id IN
    /\ At(c, "cleared")
    /\ calls[a] < MaxCalls
    /\ calls' = [calls EXCEPT ![a] = @ + 1]
    /\ \/ /\ Proceeds(c, "answered")
          /\ answered' = answered \cup {a}
          /\ excused' = IF InFlight(c, a) THEN excused \cup {a} ELSE excused
       \/ /\ Proceeds(c, "erred")
          /\ excused' = excused \cup {a}
          /\ UNCHANGED answered
    /\ UNCHANGED <<rows, ended, crowded>>

\* Mutant: the approval is not marked as used.
RecordWithoutMark(c) ==
    LET a == caller[c].id IN
    /\ At(c, "answered")
    /\ action' = [action EXCEPT ![a] = "failed"]
    /\ Finishes(c)
    /\ UNCHANGED <<approval, outcome, window, lapsed, history>>

\* The action and its approval are settled in one transaction.  The UPDATE of
\* the approval asks for an approved row, and how many it found is not asked.
RecordSuccess(c) ==
    LET a == caller[c].id IN
    /\ At(c, "answered")
    /\ action' = [action EXCEPT ![a] = "succeeded"]
    /\ IF approval[a].status = "approved"
       THEN RowExecuted(a)
       ELSE UNCHANGED approval
    /\ excused' = IF approval[a].status # "approved" \/ InFlight(c, a)
                  THEN excused \cup {a} ELSE excused
    /\ Finishes(c)
    /\ UNCHANGED <<outcome, window, lapsed, ended, crowded, calls, answered>>

\* recordActionFailure, and recordActionBlock: the UPDATE names the action by
\* its id alone, also when it has succeeded meanwhile.
RecordFailure(c) ==
    /\ caller[c].step \in {"erred", "blocking"}
    /\ action' = [action EXCEPT ![caller[c].id] = "failed"]
    /\ Finishes(c)
    /\ UNCHANGED <<approval, outcome, window, lapsed, history>>

\* A request ends before its next step.
GiveUp(c) ==
    /\ ~At(c, "idle")
    /\ excused' = IF At(c, "answered") THEN excused \cup {caller[c].id} ELSE excused
    /\ Finishes(c)
    /\ UNCHANGED <<rows, ended, crowded, calls, answered>>

-----------------------------------------------------------------------------
(* CreateOrUpdateAssetActionOutcome *)

\* The status is read before the transaction.
ReadEndedAction(c, a) ==
    /\ At(c, "idle")
    /\ action[a] \in {"succeeded", "failed"}
    /\ Begins(c, "ended", a)
    /\ UNCHANGED <<rows, history>>

\* Update or insert; the unique key refuses the later of two inserts.
RecordOutcome(c) ==
    /\ At(c, "ended")
    /\ outcome' = outcome \cup {caller[c].id}
    /\ Finishes(c)
    /\ UNCHANGED <<approval, action, window, lapsed, history>>

-----------------------------------------------------------------------------
(* Mutation windows *)

Opening(c) == {d \in Callers \ {c} : At(d, "opening")}

\* Mutant: a window that is over does not count as open.
NoActiveWindow == ~ActiveMutationWindow

\* OpenWindow refuses while a row is open, whether its time is over or not.
NoOpenWindow == \A w \in Windows : window[w] # "open"

BeginOpen(c) ==
    /\ At(c, "idle")
    /\ NoOpenWindow
    /\ Begins(c, "opening", NoId)
    /\ UNCHANGED <<rows, history>>

\* The insert, in a statement of its own; the audit row and the event follow in
\* a transaction whose failure is ignored, and nothing depends on them.
InsertWindow(c, w) ==
    /\ At(c, "opening")
    /\ window[w] = "absent"
    /\ window' = [window EXCEPT ![w] = "open"]
    /\ crowded' = (crowded \/ Opening(c) # {})
    /\ Finishes(c)
    /\ UNCHANGED <<approval, action, outcome, lapsed, ended, calls, answered, excused>>

WindowLapses(w) ==
    /\ window[w] = "open"
    /\ w \notin lapsed
    /\ lapsed' = lapsed \cup {w}
    /\ UNCHANGED <<approval, action, outcome, window, caller, history>>

BeginClose(c, w) ==
    /\ At(c, "idle")
    /\ window[w] = "open"
    /\ Begins(c, "closing", w)
    /\ UNCHANGED <<rows, history>>

Ends(w, status) ==
    /\ window' = IF window[w] = "open" THEN [window EXCEPT ![w] = status] ELSE window
    /\ lapsed' = lapsed \ {w}

\* The UPDATE asks for an open row; whether it found one is not asked.
CloseWindow(c) ==
    /\ At(c, "closing")
    /\ Ends(caller[c].id, "closed")
    /\ Proceeds(c, "closed")
    /\ UNCHANGED <<approval, action, outcome, history>>

AnnounceClosed(c) ==
    /\ At(c, "closed")
    /\ ended' = ended \cup {caller[c].id}
    /\ Finishes(c)
    /\ UNCHANGED <<rows, crowded, calls, answered, excused>>

\* GetActiveWindow begins with expireStaleWindows: the rows to expire.  Without
\* any it only reads.
SelectStale(c) ==
    /\ At(c, "idle")
    /\ lapsed # {}
    /\ caller' = [caller EXCEPT ![c] = [step |-> "sweeping", id |-> NoId, todo |-> lapsed]]
    /\ UNCHANGED <<rows, history>>

ExpireWindow(c, w) ==
    /\ At(c, "sweeping")
    /\ w \in caller[c].todo
    /\ Ends(w, "expired")
    /\ caller' = [caller EXCEPT ![c] =
            [step |-> "expired", id |-> w, todo |-> @.todo \ {w}]]
    /\ UNCHANGED <<approval, action, outcome, history>>

AnnounceExpired(c) ==
    /\ At(c, "expired")
    /\ ended' = ended \cup {caller[c].id}
    /\ caller' = [caller EXCEPT ![c].step = "sweeping", ![c].id = NoId]
    /\ UNCHANGED <<rows, crowded, calls, answered, excused>>

\* The window that GetActiveWindow reports.
ReportWindow(c) ==
    /\ At(c, "sweeping")
    /\ caller[c].todo = {}
    /\ Finishes(c)
    /\ UNCHANGED <<rows, history>>

-----------------------------------------------------------------------------
Execute(c) ==
    \/ \E a \in Actions : BeginExecute(c, a)
    \/ CheckWindow(c)
    \/ LoadAction(c)
    \/ CheckApproval(c)
    \/ CheckRequirements(c)
    \/ Refuse(c)
    \/ Call(c)
    \/ RecordSuccess(c)
    \/ RecordFailure(c)

ServeWindow(c) ==
    \/ BeginOpen(c)
    \/ \E w \in Windows : InsertWindow(c, w) \/ BeginClose(c, w) \/ ExpireWindow(c, w)
    \/ CloseWindow(c)
    \/ AnnounceClosed(c)
    \/ SelectStale(c)
    \/ AnnounceExpired(c)
    \/ ReportWindow(c)

PSteps ==
    \/ \E a \in Actions : CreateAction(a) \/ Decide(a)
    \/ \E w \in Windows : WindowLapses(w)
    \/ \E c \in Callers :
        \/ Execute(c)
        \/ ServeWindow(c)
        \/ \E a \in Actions : ReadEndedAction(c, a)
        \/ RecordOutcome(c)
        \/ GiveUp(c)

\* The steps of a request that executes an action and may call Proxmox.
Executing == {"begun", "windowed", "loaded", "verified", "cleared", "answered", "erred"}

\* The facts that hold now of what request c is about.
Holding(c) ==
    {f \in Facts :
        \/ f = "window" /\ \E w \in Windows : window[w] = "open" /\ w \notin lapsed
        \/ /\ f = "approval" /\ caller[c].id \in Actions
           /\ Usable(caller[c].id)
        \/ /\ f = "approvers" /\ caller[c].id \in Actions
           /\ approval[caller[c].id].approvers >= (IF TypeOf[caller[c].id] = "stop" THEN 2 ELSE 1)}

\* The facts that have held at some moment since a request began.
Remember ==
    held' = [c \in Callers |->
        IF caller'[c].step \in Executing THEN held[c] \cup Holding(c)' ELSE {}]

PNext == PSteps /\ Remember

PSpec == PInit /\ [][PNext]_pvars

-----------------------------------------------------------------------------
(* Properties *)

\* ExecuteAction asks one question after the other and acts on the answers
\* later: still, Proxmox is called only if, each at some moment since the
\* request began, a window was open and in time, the approval was approved,
\* unused and in time, and its approvers were as many as the type asks for.
CallsFollowChecks ==
    \A c \in Callers :
        caller[c].step \in {"answered", "erred"} => held[c] = Facts

\* One approval is one call of Proxmox, unless two requests were between their
\* look at the approval and their record at once, or a call was answered with
\* an error or never recorded, or its record found the approval changed.  In
\* particular it is not repeated because a later request overwrites "succeeded"
\* with "failed" (recordActionBlock): executed_at of the approval stays.  And
\* what the tables say has happened: an action succeeded, its approval is
\* executed, only if a call was answered so; an outcome is on record only for
\* an action that has ended, although its status is read before the transaction.
CallsAccounted ==
    \A a \in Actions :
        /\ calls[a] <= 1 \/ a \in excused
        /\ action[a] = "succeeded" \/ approval[a].executed => a \in answered
        /\ a \in outcome => action[a] \in {"succeeded", "failed"}

\* At most one window is open, unless two requests to open one overlapped, and
\* a window announced as closed or expired is not open, although closing,
\* sweeping and announcing are separate steps of requests that interleave.
OneOpenWindow ==
    /\ crowded \/ Cardinality({w \in Windows : window[w] = "open"}) <= 1
    /\ \A w \in ended : window[w] # "open"
=============================================================================
