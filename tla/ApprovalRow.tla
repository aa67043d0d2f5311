---------------------------- MODULE ApprovalRow ----------------------------
(***************************************************************************)
(* What the rest of the system may take for granted of a row of            *)
(* approval_requests, whatever handlers, monitors and crashes make of it:  *)
(* the abstract specification that module Approval is shown to implement,  *)
(* and the environment of the modules that consume approvals.              *)
(*                                                                         *)
(* The three ways of ending without an execution (rejected, cancelled,     *)
(* expired) are one here, "refused".  A row can leave them again, and even *)
(* "executed": the UPDATEs of internal/approval name a row by its id only. *)
(* executed_at, once set, stays.                                           *)
(***************************************************************************)
EXTENDS Naturals

CONSTANT Requests  \* ids of approval requests

VARIABLE approval  \* the row of each request, and its recorded approvals

RowStatuses == {"absent", "pending", "approved", "refused", "executed"}

Rows ==
    [status : RowStatuses, executed : BOOLEAN, overdue : BOOLEAN, approvers : Nat]

AbsentRow == [status |-> "absent", executed |-> FALSE, overdue |-> FALSE, approvers |-> 0]

RowTypeOK == approval \in [Requests -> Rows]

RowInit == approval = [r \in Requests |-> AbsentRow]

\* The insert, by whichever component asks for the approval.
RowRequested(r) ==
    /\ approval[r].status = "absent"
    /\ approval' = [approval EXCEPT ![r].status = "pending"]

\* The insert of a request whose policy approves it at once.
RowAutoApproved(r) ==
    /\ approval[r].status = "absent"
    /\ approval' = [approval EXCEPT ![r].status = "approved", ![r].approvers = 1]

\* One more approval is on record; it may be the one that was missing.
RowApproved(r) ==
    /\ approval[r].status # "absent"
    /\ \E s \in {approval[r].status, "approved"} :
        approval' = [approval EXCEPT ![r].status = s, ![r].approvers = @ + 1]

RowRefused(r) ==
    /\ approval[r].status # "absent"
    /\ approval' = [approval EXCEPT ![r].status = "refused"]

RowOverdue(r) ==
    /\ approval[r].status # "absent"
    /\ approval' = [approval EXCEPT ![r].overdue = TRUE]

\* The UPDATE of a component that used the approval: guarded by the status.
RowExecuted(r) ==
    /\ approval[r].status = "approved"
    /\ approval' = [approval EXCEPT ![r].status = "executed", ![r].executed = TRUE]

\* What members of the team and the passing of time do to a row.
RowDecided(r) == RowApproved(r) \/ RowRefused(r) \/ RowOverdue(r)

RowNext ==
    \E r \in Requests :
        RowRequested(r) \/ RowAutoApproved(r) \/ RowDecided(r) \/ RowExecuted(r)

RowSpec == RowInit /\ [][RowNext]_approval

\* The row as a consumer accepts it: verifyApproval, and ExecuteAction.
Usable(r) ==
    /\ approval[r].status = "approved"
    /\ ~approval[r].executed
    /\ ~approval[r].overdue
=============================================================================
