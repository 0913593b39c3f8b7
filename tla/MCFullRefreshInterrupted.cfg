SPECIFICATION FairSpec
CONSTANTS
    CrashPoints = {"suspendConfig"}
    FailPoints = {}
    MaxFaults = 1
    MaxUpdates = 0
    MaxOthers = 0
PROPERTY InterruptedRunsResume
