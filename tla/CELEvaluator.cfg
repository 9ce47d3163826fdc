SPECIFICATION Spec
CONSTANTS
    a = a
    b = b
    p1 = p1
    p2 = p2
    team = team
    tier = tier
    typed = typed
    unknown = unknown
    r1 = r1
    r2 = r2
    amd64 = amd64
    arm64 = arm64
    riscv64 = riscv64
    c1 = c1
    c2 = c2
    w1 = w1
    w2 = w2
    Clients = {c1, c2}
    Workers = {w1, w2}
    Objects <- MCObjects
    Supported <- MCSupported
    Admissible <- MCAdmissible
    Pods <- MCPods
    Compiles <- MCCompiles
    Verdict <- MCVerdict
    CacheSize = 1
    MaxRequests = 3
SYMMETRY Symmetry
INVARIANT TypeOK
INVARIANT OutcomeIsReference
INVARIANT EvaluationsAgree
INVARIANT EqualOnlyIfUnseen
