CONSTANTS
    amd64 = amd64
    arm64 = arm64
    ppc1 = ppc1
    ppc2 = ppc2
    Arch <- MCArch
    Names <- MCNames
    MaxRetryCount = 2
    PodSpecs <- PlainPods
    ImageChoices <- AllOrNone
    PPCObjects <- NoConfigs
    CPPCObjects <- PlainCPPC
    MaxChanges = 0
    MaxFaults = 0
SPECIFICATION Spec
INVARIANT UnsupportedPodIsLabelled
