--------------------------- MODULE AgentRegistry ---------------------------
(***************************************************************************)
(* internal/agent: agent identities, the tools granted to them and their   *)
(* runs, with the part of the policy evaluator that reads them.  The tool  *)
(* gateway and the execution of remediations are its two clients.          *)
(***************************************************************************)
EXTENDS Naturals, Sequences

CONSTANTS
    Agents,       \* names of agents of the team
    Tools,        \* rows of tool_registry that are active
    RiskOf,       \* risk_level of a tool
    Autonomies,   \* the autonomy levels that users choose, as ranks 0..5
    MaxGrants     \* bound: an agent with so many grants of a tool gets no more

RegistryAssumption ==
    /\ RiskOf \in [Tools -> {"low", "medium", "high", "critical"}]
    /\ Autonomies \subseteq 0 .. 5
    /\ MaxGrants \in Nat

VARIABLES
    agent,   \* agent_identities: each name's row
    runs,    \* agents with a row in agent_runs; no handler ends a run
    grants   \* agent_tool_grants, in the order of created_at

identities == <<agent, runs, grants>>

AgentRows == [state : {"absent", "active", "disabled"}, max : 0 .. 5]
GrantRows == [max : 0 .. 5, approval : BOOLEAN, revoked : BOOLEAN]

IdentitiesTypeOK ==
    /\ agent \in [Agents -> AgentRows]
    /\ runs \subseteq Agents
    /\ grants \in [Agents -> [Tools -> Seq(GrantRows)]]

IdentitiesInit ==
    /\ agent = [a \in Agents |-> [state |-> "absent", max |-> 0]]
    /\ runs = {}
    /\ grants = [a \in Agents |-> [t \in Tools |-> <<>>]]

Active(a) == agent[a].state = "active"

-----------------------------------------------------------------------------
(* Agents, grants and runs: one transaction each *)

\* (team_id, name) is unique, and a disabled agent keeps its name.
CreateAgent(a, max) ==
    /\ agent[a].state = "absent"
    /\ agent' = [agent EXCEPT ![a] = [state |-> "active", max |-> max]]
    /\ UNCHANGED <<runs, grants>>

UpdateAgent(a, max) ==
    /\ Active(a)
    /\ agent' = [agent EXCEPT ![a].max = max]
    /\ UNCHANGED <<runs, grants>>

DisableAgent(a) ==
    /\ Active(a)
    /\ agent' = [agent EXCEPT ![a].state = "disabled"]
    /\ UNCHANGED <<runs, grants>>

CreateGrant(a, t, max, needs) ==
    /\ Active(a)
    /\ \A u \in Tools : Len(grants[a][u]) < MaxGrants
    /\ grants' = [grants EXCEPT ![a][t] =
            Append(@, [max |-> max, approval |-> needs, revoked |-> FALSE])]
    /\ UNCHANGED <<agent, runs>>

RevokeGrant(a, t, n) ==
    /\ ~grants[a][t][n].revoked
    /\ grants' = [grants EXCEPT ![a][t][n].revoked = TRUE]
    /\ UNCHANGED <<agent, runs>>

CreateRun(a) ==
    /\ Active(a)
    /\ a \notin runs
    /\ runs' = runs \cup {a}
    /\ UNCHANGED <<agent, grants>>

ManageAgents ==
    \/ \E a \in Agents, max \in Autonomies :
        CreateAgent(a, max) \/ UpdateAgent(a, max)
    \/ \E a \in Agents : DisableAgent(a) \/ CreateRun(a)
    \/ \E a \in Agents, t \in Tools :
        \/ \E max \in Autonomies, needs \in BOOLEAN : CreateGrant(a, t, max, needs)
        \/ \E n \in DOMAIN grants[a][t] : RevokeGrant(a, t, n)

-----------------------------------------------------------------------------
(* PolicyEvaluator.Evaluate *)

\* Checks 1 and 6; an A5 request fails before any query.
AgentAllows(a, rank) == Active(a) /\ rank <= agent[a].max /\ rank # 5

Live(a, t) == {n \in DOMAIN grants[a][t] : ~grants[a][t][n].revoked}

\* Check 4: ORDER BY created_at DESC LIMIT 1.
Effective(a, t) == grants[a][t][CHOOSE n \in Live(a, t) : \A m \in Live(a, t) : m <= n]

\* Checks 4, 7 and 8.
GrantAllows(a, t, rank) ==
    /\ Live(a, t) # {}
    /\ rank <= Effective(a, t).max
    /\ RiskOf[t] \in {"high", "critical"} => rank >= 4

\* Check 9: whether an approval is asked for at all.
NeedsApproval(a, t) == RiskOf[t] # "low" \/ Effective(a, t).approval
=============================================================================
