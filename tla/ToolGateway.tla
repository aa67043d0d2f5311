---------------------------- MODULE ToolGateway ----------------------------
(***************************************************************************)
(* internal/agent: intentions and the tool gateway.  ExecuteTool asks the  *)
(* policy evaluator (thirteen checks, each a query of its own) and then    *)
(* records the effect, the intention and the use of the approval in one    *)
(* transaction.                                                            *)
(*                                                                         *)
(* The approval is a row as ApprovalRow promises it.  The caller's         *)
(* permission and recent MFA are left to chance: any check may refuse.     *)
(***************************************************************************)
EXTENDS AgentRegistry, ApprovalRow

CONSTANTS
    ToolFor,      \* action_type of each approval request for a tool
    Intentions,   \* ids of agent_intentions
    Servers,      \* HTTP requests in progress at a time
    None          \* no agent, tool, intention or request

\* The requests for an approval of a tool.
ToolRequests == DOMAIN ToolFor

GatewayAssumption ==
    /\ ToolFor \in [ToolRequests -> Tools]
    /\ ToolRequests \subseteq Requests
    /\ None \notin Agents \cup Tools \cup Intentions \cup ToolRequests

VARIABLES
    intention,  \* agent_intentions.status
    effects,    \* agent_effect_results of an intention: which statuses
    server,     \* what each request has learnt and does next
    used,       \* history: succeeded effects linked to a request
    contested   \* history: requests whose use was contested

gvars == <<approval, identities, intention, effects, used, contested>>

Jobs ==
    [step : {"idle", "asked", "known", "granted", "allowed", "denied"},
     agent : Agents \cup {None}, tool : Tools \cup {None}, rank : 0 .. 5,
     intention : Intentions \cup {None}, request : ToolRequests \cup {None}]

NoJob ==
    [step |-> "idle", agent |-> None, tool |-> None, rank |-> 0,
     intention |-> None, request |-> None]

GTypeOK ==
    /\ RowTypeOK
    /\ IdentitiesTypeOK
    /\ intention \in [Intentions -> {"absent", "proposed", "executed", "blocked"}]
    /\ effects \in [Intentions -> SUBSET {"succeeded", "refused"}]
    /\ server \in [Servers -> Jobs]
    /\ used \in [ToolRequests -> Nat]
    /\ contested \subseteq ToolRequests

GInit ==
    /\ RowInit
    /\ IdentitiesInit
    /\ intention = [i \in Intentions |-> "absent"]
    /\ effects = [i \in Intentions |-> {}]
    /\ server = [s \in Servers |-> NoJob]
    /\ used = [r \in ToolRequests |-> 0]
    /\ contested = {}

\* The run's status is not asked for.
CreateIntention(i) ==
    /\ runs # {}
    /\ intention[i] = "absent"
    /\ intention' = [intention EXCEPT ![i] = "proposed"]
    /\ UNCHANGED <<approval, identities, effects, used, contested, server>>

\* Requests that have verified an approval and not used it yet.
InUse(r) == {s \in Servers : server[s].step = "allowed" /\ server[s].request = r}

\* Members ask for an approval, and decide about it; no tool asks for more than
\* one approver.
RequestApproval(r) ==
    /\ RowRequested(r) \/ RowAutoApproved(r)
    /\ UNCHANGED <<identities, intention, effects, used, contested, server>>

DecideApproval(r) ==
    /\ RowDecided(r)
    /\ approval'[r].approvers <= 1
    /\ contested' = IF InUse(r) # {} THEN contested \cup {r} ELSE contested
    /\ UNCHANGED <<identities, intention, effects, used, server>>

-----------------------------------------------------------------------------
(* ExecuteTool *)

\* Mutant: executed_at is not looked at.
VerifiedUnlessRefused(r, t) ==
    /\ approval[r].status \in {"approved", "executed"}
    /\ ~approval[r].overdue
    /\ ToolFor[r] = t

\* verifyApproval; the target is part of what a request is for.
Verified(r, t) == Usable(r) /\ ToolFor[r] = t

At(s, step) == server[s].step = step
Proceeds(s, step) == server' = [server EXCEPT ![s].step = step]
Frees(s) == server' = [server EXCEPT ![s] = NoJob]

\* The agent, the run, the intention, the tool and the level are the caller's
\* words: nothing relates them to each other.
BeginTool(s, a, t, rank, i, r) ==
    /\ At(s, "idle")
    /\ intention[i] # "absent"
    /\ server' = [server EXCEPT ![s] =
            [step |-> "asked", agent |-> a, tool |-> t, rank |-> rank,
             intention |-> i, request |-> r]]
    /\ UNCHANGED gvars

\* Check 1, and check 2 with it: a run once there stays active.
CheckAgent(s) ==
    /\ At(s, "asked")
    /\ AgentAllows(server[s].agent, server[s].rank)
    /\ runs # {}
    /\ Proceeds(s, "known")
    /\ UNCHANGED gvars

CheckGrant(s) ==
    LET j == server[s] IN
    /\ At(s, "known")
    /\ GrantAllows(j.agent, j.tool, j.rank)
    /\ IF NeedsApproval(j.agent, j.tool)
       THEN j.request # None /\ Proceeds(s, "granted")
       ELSE server' = [server EXCEPT ![s].step = "allowed", ![s].request = None]
    /\ UNCHANGED gvars

CheckVerified(s) ==
    /\ At(s, "granted")
    /\ Verified(server[s].request, server[s].tool)
    /\ Proceeds(s, "allowed")
    /\ UNCHANGED gvars

\* One of the checks refuses, or its query fails.
Deny(s) ==
    /\ server[s].step \in {"asked", "known", "granted", "allowed"}
    /\ Proceeds(s, "denied")
    /\ UNCHANGED gvars

\* recordDecision: by the intention's id alone, whatever it is by now.
RecordDecision(s) ==
    LET i == server[s].intention IN
    /\ At(s, "denied")
    /\ intention' = [intention EXCEPT ![i] = "blocked"]
    /\ effects' = [effects EXCEPT ![i] = @ \cup {"refused"}]
    /\ Frees(s)
    /\ UNCHANGED <<approval, identities, used, contested>>

\* The transaction: intention, effect, and the approval if it is approved
\* still; how many rows that UPDATE changed is not asked.
ExecuteTool(s) ==
    LET i == server[s].intention
        r == server[s].request IN
    /\ At(s, "allowed")
    /\ intention' = [intention EXCEPT ![i] = "executed"]
    /\ effects' = [effects EXCEPT ![i] = @ \cup {"succeeded"}]
    /\ IF r = None
       THEN UNCHANGED <<approval, used, contested>>
       ELSE /\ used[r] < 2
            /\ used' = [used EXCEPT ![r] = @ + 1]
            /\ IF approval[r].status = "approved" THEN RowExecuted(r) ELSE UNCHANGED approval
            /\ contested' = IF InUse(r) # {s} THEN contested \cup {r} ELSE contested
    /\ Frees(s)
    /\ UNCHANGED identities

\* A request ends without a word.
GiveUpTool(s) ==
    /\ ~At(s, "idle")
    /\ Frees(s)
    /\ UNCHANGED gvars

-----------------------------------------------------------------------------
UseTool(s) ==
    \/ \E a \in Agents, t \in Tools, rank \in Autonomies, i \in Intentions :
        \E r \in ToolRequests \cup {None} : BeginTool(s, a, t, rank, i, r)
    \/ CheckAgent(s)
    \/ CheckGrant(s)
    \/ CheckVerified(s)
    \/ Deny(s)
    \/ RecordDecision(s)
    \/ ExecuteTool(s)
    \/ GiveUpTool(s)

GNext ==
    \/ ManageAgents /\ UNCHANGED <<approval, intention, effects, used, contested, server>>
    \/ \E i \in Intentions : CreateIntention(i)
    \/ \E r \in ToolRequests : RequestApproval(r) \/ DecideApproval(r)
    \/ \E s \in Servers : UseTool(s)

GSpec == GInit /\ [][GNext]_<<gvars, server>>

-----------------------------------------------------------------------------
(* Properties *)

\* An approval yields one effect of a tool, unless two requests had verified
\* it before either used it or a member changed it between the two; it is
\* marked as executed only with an effect on record, and no effect is linked to
\* a request that nobody ever approved (ExecuteTool, verifyApproval).  An
\* intention's status, too, is one that an effect on record accounts for,
\* although a denied request overwrites "executed" (recordDecision).
EffectsEarned ==
    /\ \A r \in ToolRequests :
        /\ used[r] <= 1 \/ r \in contested
        /\ approval[r].executed => used[r] >= 1
        /\ used[r] >= 1 => approval[r].approvers >= 1
    /\ \A i \in Intentions :
        /\ intention[i] = "executed" => "succeeded" \in effects[i]
        /\ intention[i] = "blocked" => "refused" \in effects[i]
=============================================================================
