CONSTANTS
    amd64 = amd64
    arm64 = arm64
    ppc1 = ppc1
    ppc2 = ppc2
    Arch <- MCArch
    Names <- MCNames
    MaxRetryCount = 2
    PodSpecs <- RetriedPods
    ImageChoices <- OneInCommon
    PPCObjects <- OneLate
    CPPCObjects <- FallbackCPPC
    MaxChanges = 2
    MaxFaults = 2
SPECIFICATION FairSpec
PROPERTY GatedPodIsReleased
