SPECIFICATION FairSpec
CONSTANTS
    w1 = w1
    w2 = w2
    app = app
    tool = tool
    r1 = r1
    r2 = r2
    host1 = host1
    host2 = host2
    short = short
    glob = glob
    amd64 = amd64
    arm64 = arm64
    old = old
    new = new
    Anonymous = Anonymous
    Unparsable = Unparsable
    Malformed = Malformed
    Absent = Absent
    NoPlatform = NoPlatform
    Workers <- TwoWorkers
    Images <- BothImages
    Repos <- TwoRepos
    Candidates <- MCCandidates
    Host <- MCHost
    GlobHosts <- MCGlobHosts
    Arch <- MCArch
    Supported <- MCArch
    Manifests <- MCManifests
    FirstContent <- MultiArchFirst
    Accepted <- MCAccepted
    Containers <- MCContainers
    GlobalSecrets <- MCGlobalSecrets
    CacheSize = 1
    MaxChanges = 1
    MaxFaults = 1
INVARIANT TypeOK
INVARIANT OnlyLateAnswersAreStale
INVARIANT AnswersAreOwn
INVARIANT AlwaysIsFresh
PROPERTY InspectionsRecover
