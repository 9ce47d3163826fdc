CONSTANTS
    amd64 = amd64
    arm64 = arm64
    ppc1 = ppc1
    ppc2 = ppc2
    Arch <- MCArch
    Names <- MCNames
    MaxRetryCount = 2
    PodSpecs <- AllPods
    ImageChoices <- AllOrNone
    PPCObjects <- MixedConfigs
    CPPCObjects <- FullCPPC
    MaxChanges = 2
    MaxFaults = 1
SPECIFICATION Spec
INVARIANT TypeOK
INVARIANT NoLostWakeup
INVARIANT ReleaseIsJustified
INVARIANT UserTermsRespected
PROPERTY ReleaseIsFinal
PROPERTY ImplementsGate
INVARIANT RetriesAreBounded
INVARIANT RejectedOnlyByLateCEL
INVARIANT PreferencesAreAttributed
