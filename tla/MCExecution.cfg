CONSTANTS
    a1 = a1
    w1 = w1
    w2 = w2
    h1 = h1
    h2 = h2
    executor = executor
    readTool = readTool
    writeTool = writeTool
    p1 = p1
    r1 = r1
    Requests = {a1, r1}
    TypeOf <- MCTypeOf
    Windows = {w1, w2}
    Callers = {h1, h2}
    MaxCalls = 2
    Agents = {executor}
    Tools = {readTool, writeTool}
    RiskOf <- MCRiskOf
    MaxGrants = 1
    Levels = {4}
    ToolFor <- MCToolFor
    Intentions = {i1}
    Servers = {h1, h2}
    Proposals = {p1}
    Plans <- MCPlans
    Executor = executor
    Workers = {h1, h2}
    NoId = NoId
SPECIFICATION Spec
INVARIANTS
    CallsFollowChecks
    
    
    
    
SYMMETRY MCSymmetry
CHECK_DEADLOCK FALSE
