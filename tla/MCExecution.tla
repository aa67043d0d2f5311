---------------------------- MODULE MCExecution ----------------------------
(* One instance of each component of Execution, for TLC. *)
EXTENDS Execution, TLC

CONSTANTS a1, w1, w2, h1, h2, executor, readTool, writeTool, p1, r1

\* A stop asks for two approvers and a recent MFA.
MCTypeOf == [a \in {a1} |-> "stop"]

MCRiskOf == [t \in {readTool, writeTool} |-> IF t = readTool THEN "low" ELSE "medium"]
MCToolFor == [r \in {r1} |-> readTool]

\* One step, or two of which the evaluator always denies the second.
MCPlans ==
    {<<[tool |-> readTool, high |-> TRUE, continue |-> FALSE]>>,
     <<[tool |-> readTool, high |-> FALSE, continue |-> TRUE],
       [tool |-> writeTool, high |-> TRUE, continue |-> FALSE]>>}

\* The requests in progress are the same ones for every component.
MCSymmetry == Permutations({w1, w2}) \cup Permutations({h1, h2})
=============================================================================
