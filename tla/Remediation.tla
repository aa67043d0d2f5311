---------------------------- MODULE Remediation ----------------------------
(***************************************************************************)
(* internal/remediation: proposals of remediation, their approval,         *)
(* cancellation and step-by-step execution, each step asking the policy    *)
(* evaluator on behalf of one agent, "remediation-executor", whose grants  *)
(* and status users change meanwhile.                                      *)
(*                                                                         *)
(* Every handler reads the status of the proposal first and overwrites it  *)
(* later by id.  The UPDATEs of Execute are statements of their own whose  *)
(* errors are ignored, so each may be lost; a handler may end at any step. *)
(***************************************************************************)
EXTENDS AgentRegistry

CONSTANTS
    Proposals,  \* ids of remediation_proposals
    Plans,      \* the lists of steps that proposals are made with
    Executor,   \* the agent named remediation-executor
    Workers,    \* HTTP requests in progress at a time
    None        \* no proposal

PlanSteps == [tool : Tools, high : BOOLEAN, continue : BOOLEAN]

RemediationAssumption ==
    /\ \A new \in Plans : new \in Seq(PlanSteps) /\ new # <<>>
    /\ Executor \in Agents
    /\ None \notin Proposals

VARIABLES
    proposal,     \* remediation_proposals.status
    plan,         \* remediation_steps of each, in the order of step_order
    steps,        \* remediation_steps.status
    work,         \* of each request: its proposal, step and failure so far
    executions,   \* history: how often a proposal's execution was started
    clobbered,    \* history: a status was written while another request was on it
    interrupted   \* history: an execution lost a statement or its process

records == <<proposal, plan, steps, executions, clobbered, interrupted>>
rvars == <<identities, records, work>>

ProposalStatuses ==
    {"absent", "draft", "proposed", "approved", "executing", "completed", "failed", "cancelled"}

\* The steps between the first UPDATE of an execution and the last.
ExecutingSteps ==
    {"stepping", "step", "found", "identified", "passed", "failing", "finishing"}

Works ==
    [step : {"idle", "approving", "cancelling", "starting"} \cup ExecutingSteps,
     proposal : Proposals \cup {None}, index : Nat, failed : BOOLEAN]
NoWork == [step |-> "idle", proposal |-> None, index |-> 0, failed |-> FALSE]

RTypeOK ==
    /\ IdentitiesTypeOK
    /\ proposal \in [Proposals -> ProposalStatuses]
    /\ plan \in [Proposals -> Plans \cup {<<>>}]
    /\ \A p \in Proposals : steps[p] \in
            [DOMAIN plan[p] -> {"pending", "executing", "succeeded", "failed"}]
    /\ work \in [Workers -> Works]
    /\ executions \in [Proposals -> Nat]
    /\ clobbered \subseteq Proposals
    /\ interrupted \subseteq Proposals

RInit ==
    /\ IdentitiesInit
    /\ proposal = [p \in Proposals |-> "absent"]
    /\ plan = [p \in Proposals |-> <<>>]
    /\ steps = [p \in Proposals |-> <<>>]
    /\ work = [s \in Workers |-> NoWork]
    /\ executions = [p \in Proposals |-> 0]
    /\ clobbered = {}
    /\ interrupted = {}

On(s) == work[s].proposal
Step(s) == plan[On(s)][work[s].index]

\* A request begins about a proposal, goes on to its next step, or ends.
At(s, step) == work[s].step = step
Takes(s, step, p) ==
    /\ At(s, "idle")
    /\ work' = [work EXCEPT ![s] = [step |-> step, proposal |-> p, index |-> 1, failed |-> FALSE]]
    /\ UNCHANGED <<identities, records>>
Proceeds(s, step) == work' = [work EXCEPT ![s].step = step]
Leaves(s) == work' = [work EXCEPT ![s] = NoWork]

\* The status becomes one, whatever it is since it was read.
Overwrites(s, status) ==
    /\ proposal' = [proposal EXCEPT ![On(s)] = status]
    /\ clobbered' = IF \E z \in Workers \ {s} : On(z) = On(s)
                    THEN clobbered \cup {On(s)} ELSE clobbered

-----------------------------------------------------------------------------
(* Create, Approve and Cancel *)

\* A proposal of an agent needs an active run, and is a draft.  It commits
\* together with its steps.
CreateProposal(p, source, new) ==
    /\ proposal[p] = "absent"
    /\ source = "agent" => runs # {}
    /\ proposal' = [proposal EXCEPT ![p] = IF source = "agent" THEN "draft" ELSE "proposed"]
    /\ plan' = [plan EXCEPT ![p] = new]
    /\ steps' = [steps EXCEPT ![p] = [n \in DOMAIN new |-> "pending"]]
    /\ UNCHANGED <<identities, work, executions, clobbered, interrupted>>

Approvable == {"draft", "proposed"}
Cancellable == {"draft", "proposed", "approved", "failed"}

BeginApprove(s, p) == proposal[p] \in Approvable /\ Takes(s, "approving", p)

\* The transaction also inserts a request that is approved from the start, for
\* an action type no tool has.
ApproveProposal(s) ==
    /\ At(s, "approving")
    /\ Overwrites(s, "approved")
    /\ Leaves(s)
    /\ UNCHANGED <<identities, plan, steps, executions, interrupted>>

BeginCancel(s, p) == proposal[p] \in Cancellable /\ Takes(s, "cancelling", p)

CancelProposal(s) ==
    /\ At(s, "cancelling")
    /\ Overwrites(s, "cancelled")
    /\ Leaves(s)
    /\ UNCHANGED <<identities, plan, steps, executions, interrupted>>

-----------------------------------------------------------------------------
(* Execute *)

\* The status, and a recent MFA for a proposal of high risk.
BeginExecute(s, p) ==
    /\ proposal[p] = "approved"
    /\ executions[p] < 2
    /\ Takes(s, "starting", p)

\* A statement whose error is ignored is lost.
Loses(s) == interrupted' = interrupted \cup {On(s)}

StartExecution(s) ==
    /\ At(s, "starting")
    /\ executions' = [executions EXCEPT ![On(s)] = @ + 1]
    /\ \/ Overwrites(s, "executing") /\ UNCHANGED interrupted
       \/ Loses(s) /\ UNCHANGED <<proposal, clobbered>>
    /\ Proceeds(s, "stepping")
    /\ UNCHANGED <<identities, plan, steps>>

\* The status of the present step becomes one, or the statement is lost.
StepBecomes(s, status) ==
    \/ /\ steps' = [steps EXCEPT ![On(s)][work[s].index] = status]
       /\ UNCHANGED interrupted
    \/ Loses(s) /\ UNCHANGED steps

\* The loop goes on to the next step, or leaves for the end.
Advances(s, failed) ==
    work' = [work EXCEPT ![s].failed = @ \/ failed, ![s].index = @ + 1,
        ![s].step = IF work[s].index = Len(plan[On(s)]) \/ (failed /\ ~Step(s).continue)
                    THEN "finishing" ELSE "stepping"]

\* A step of high risk asks for a recent MFA once more.
RefuseStep(s) ==
    /\ At(s, "stepping")
    /\ Step(s).high
    /\ Proceeds(s, "failing")
    /\ UNCHANGED <<identities, records>>

BeginStep(s) ==
    /\ At(s, "stepping")
    /\ StepBecomes(s, "executing")
    /\ Proceeds(s, "step")
    /\ UNCHANGED <<identities, proposal, plan, executions, clobbered>>

\* Find or create the executor, whose name a disabled agent keeps; then a run
\* and an intention of its own, which nobody settles.
FindExecutor(s) ==
    /\ At(s, "step")
    /\ agent[Executor].state # "disabled"
    /\ agent' = IF Active(Executor) THEN agent
                ELSE [agent EXCEPT ![Executor] = [state |-> "active", max |-> 4]]
    /\ runs' = runs \cup {Executor}
    /\ Proceeds(s, "found")
    /\ UNCHANGED <<grants, records>>

\* Evaluate, at level A3 and without an approval.
EvaluateAgent(s) ==
    /\ At(s, "found")
    /\ AgentAllows(Executor, 3)
    /\ Proceeds(s, "identified")
    /\ UNCHANGED <<identities, records>>

EvaluateGrant(s) ==
    /\ At(s, "identified")
    /\ GrantAllows(Executor, Step(s).tool, 3)
    /\ ~NeedsApproval(Executor, Step(s).tool)
    /\ Proceeds(s, "passed")
    /\ UNCHANGED <<identities, records>>

\* The effect row that follows is written by the way; nothing reads it.
SucceedStep(s) ==
    /\ At(s, "passed")
    /\ StepBecomes(s, "succeeded")
    /\ Advances(s, FALSE)
    /\ UNCHANGED <<identities, proposal, plan, executions, clobbered>>

\* The evaluator denies the step, or an insert or a query fails.
DenyStep(s) ==
    /\ work[s].step \in {"step", "found", "identified", "passed"}
    /\ Proceeds(s, "failing")
    /\ UNCHANGED <<identities, records>>

\* Mutant: the failure is recorded and forgotten.
ForgetFailure(s) ==
    /\ At(s, "failing")
    /\ StepBecomes(s, "failed")
    /\ Advances(s, FALSE)
    /\ UNCHANGED <<identities, proposal, plan, executions, clobbered>>

\* markStepFailed, and break or continue.
FailStep(s) ==
    /\ At(s, "failing")
    /\ StepBecomes(s, "failed")
    /\ Advances(s, TRUE)
    /\ UNCHANGED <<identities, proposal, plan, executions, clobbered>>

FinishExecution(s) ==
    /\ At(s, "finishing")
    /\ Overwrites(s, IF work[s].failed THEN "failed" ELSE "completed")
    /\ Leaves(s)
    /\ UNCHANGED <<identities, plan, steps, executions, interrupted>>

GiveUpWork(s) ==
    /\ ~At(s, "idle")
    /\ interrupted' = IF work[s].step \in ExecutingSteps
                      THEN interrupted \cup {On(s)} ELSE interrupted
    /\ Leaves(s)
    /\ UNCHANGED <<identities, proposal, plan, steps, executions, clobbered>>

-----------------------------------------------------------------------------
Remediate(s) ==
    \/ \E p \in Proposals : BeginApprove(s, p) \/ BeginCancel(s, p) \/ BeginExecute(s, p)
    \/ ApproveProposal(s)
    \/ CancelProposal(s)
    \/ StartExecution(s)
    \/ RefuseStep(s)
    \/ BeginStep(s)
    \/ FindExecutor(s)
    \/ EvaluateAgent(s)
    \/ EvaluateGrant(s)
    \/ SucceedStep(s)
    \/ DenyStep(s)
    \/ FailStep(s)
    \/ FinishExecution(s)
    \/ GiveUpWork(s)

RNext ==
    \/ ManageAgents /\ UNCHANGED <<records, work>>
    \/ \E p \in Proposals, source \in {"agent", "operator"}, new \in Plans :
        CreateProposal(p, source, new)
    \/ \E s \in Workers : Remediate(s)

RSpec == RInit /\ [][RNext]_rvars

-----------------------------------------------------------------------------
(* Properties *)

Attended(p) == \E s \in Workers : On(s) = p /\ work[s].step \in ExecutingSteps

\* A proposal's status tells what became of its steps: it is completed only if
\* every step succeeded, failed only if one failed, being executed only while a
\* request executes it, cancelled only if it was never started or has failed,
\* and it is started once.  So it is unless two requests about it overlapped
\* (Approve, Cancel and Execute write the status by id) or an execution lost a
\* statement or its process: the two ways in which a proposal gets stuck.  And
\* a step succeeds only with a tool of low risk: the evaluator is asked at level
\* A3 and without an approval, and the proposal's own counts for nothing there.
ProposalSound ==
    /\ \A p \in Proposals : \A n \in DOMAIN plan[p] :
        steps[p][n] = "succeeded" => RiskOf[plan[p][n].tool] = "low"
    /\ \A p \in Proposals \ (clobbered \cup interrupted) :
        /\ proposal[p] = "completed" => \A n \in DOMAIN steps[p] : steps[p][n] = "succeeded"
        /\ proposal[p] = "failed" => \E n \in DOMAIN steps[p] : steps[p][n] = "failed"
        /\ proposal[p] = "executing" => Attended(p)
        /\ proposal[p] = "cancelled" =>
            executions[p] = 0 \/ \E n \in DOMAIN steps[p] : steps[p][n] = "failed"
        /\ executions[p] <= 1
=============================================================================
