CONSTANTS
    h1 = h1
    h2 = h2
    h3 = h3
    prefix = prefix
    path = path
    Handlers = {h1, h2}
    Requesters = {h1, h2, h3}
    Objs = {o1}
    MaxVersion = 3
    CommentIds = {c1}
    LinkIds = {l1}
    Bodies = {x, y}
    NoNote = NoNote
    Keys = {1, 2, 3}
    Alerts = {a1}
    Origins <- MCOrigins
    MaxRequests = 1
    MaxDeliveries = 2
    NoKey = NoKey
    Tokens = {i1}
    Prints = {q1, q2}
    MaxEffects = 2
    NoToken = NoToken
    SessionIds = {s1}
    TokenIds = {1, 2, 3}
    ResetIds = {r1}
    MaxPassword = 2
    Nil = Nil
    Codes = {m1}
    Challenges = {v1}
    MaxFailed = 1
    MaxEnrolled = 2
    NoneOf = NoneOf
    SecurityKeyIds = {sk1, sk2}
    Ceremonies = {n1, n2, n3}
    MaxCount = 3
    NoCeremony = NoCeremony
    People = {p1, p2}
    Invitations = {w1}
    Grants = {g1}
    Nobody = Nobody
    Texts = {d1, d2}
    Titles = {e1, e2}
    MaxTxs = 3
    Nothing = Nothing
    Contents = {z1, z2}
    NoText = NoText
    FileKeys = {f1, f2}
SPECIFICATION Spec
INVARIANTS
    ObjectsTracked
    
    DocumentsSound
    KnowledgeSound
    FilesSound
    SessionsSound
    
    
    
    CallsOnce
SYMMETRY MCSymmetry
CHECK_DEADLOCK FALSE
