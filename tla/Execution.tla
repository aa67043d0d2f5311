----------------------------- MODULE Execution -----------------------------
(***************************************************************************)
(* The three components that carry out what members and agents decided:    *)
(* actions on Proxmox, the tool gateway and remediations.  They share no   *)
(* row that one of them writes and another reads but the agents: an        *)
(* approval names the action type it is for, so that none serves two       *)
(* components, and what a remediation does to an agent (creating it,       *)
(* starting a run) members may do as well.  So each of them is explored    *)
(* on its own, with everything that members can do to its rows; which one  *)
(* is chosen at the start.                                                 *)
(***************************************************************************)
EXTENDS Naturals, FiniteSets

CONSTANTS
    TypeOf, Windows, Callers, MaxCalls,
    Agents, Tools, RiskOf, MaxGrants, Levels,
    Requests, ToolFor, Intentions, Servers,
    Proposals, Plans, Executor, Workers,
    NoId

VARIABLES
    focus,
    approval,
    action, outcome, window, lapsed, caller,
    ended, crowded, calls, answered, excused, held,
    agent, runs, grants,
    intention, effects, server, used, contested,
    proposal, plan, steps, work, executions, clobbered, interrupted

P == INSTANCE ProxmoxActions
G == INSTANCE ToolGateway WITH Autonomies <- Levels, None <- NoId
R == INSTANCE Remediation WITH Autonomies <- {4}, None <- NoId

\* No tool in tool_registry has the name of an action type of Proxmox.
ASSUME ExecutionAssumption ==
    /\ P!ProxmoxAssumption
    /\ G!RegistryAssumption /\ G!GatewayAssumption
    /\ R!RemediationAssumption
    /\ DOMAIN TypeOf \cap DOMAIN ToolFor = {}

proxmox == <<action, outcome, window, lapsed, caller,
             ended, crowded, calls, answered, excused, held>>
gateway == <<intention, effects, server, used, contested>>
remediation == <<proposal, plan, steps, work, executions, clobbered, interrupted>>
identities == <<agent, runs, grants>>

vars == <<focus, approval, identities, proxmox, gateway, remediation>>

Init ==
    /\ focus \in {"proxmox", "gateway", "remediation"}
    /\ P!PInit
    /\ G!GInit
    /\ R!RInit

ProxmoxNext ==
    /\ focus = "proxmox"
    /\ P!PNext
    /\ UNCHANGED <<focus, identities, gateway, remediation>>

GatewayNext ==
    /\ focus = "gateway"
    /\ G!GNext
    /\ UNCHANGED <<focus, proxmox, remediation>>

RemediationNext ==
    /\ focus = "remediation"
    /\ R!RNext
    /\ UNCHANGED <<focus, approval, proxmox, gateway>>

Next == ProxmoxNext \/ GatewayNext \/ RemediationNext

Spec == Init /\ [][Next]_vars

-----------------------------------------------------------------------------
(* Properties: those of the components *)

\* Every row and every request is of its type.
TypeOK ==
    /\ P!PTypeOK
    /\ G!GTypeOK
    /\ R!RTypeOK

\* See ProxmoxActions: Proxmox is called after every check held (ExecuteAction).
CallsFollowChecks == P!CallsFollowChecks

\* See ProxmoxActions: one approval, one call, and true records (ExecuteAction).
CallsAccounted == P!CallsAccounted

\* See ProxmoxActions: one window at a time (OpenWindow, CloseWindow).
OneOpenWindow == P!OneOpenWindow

\* See ToolGateway: one approval, one effect, and true records (ExecuteTool).
EffectsEarned == G!EffectsEarned

\* See Remediation: a proposal's status and its steps agree (Execute).
ProposalSound == R!ProposalSound
=============================================================================
