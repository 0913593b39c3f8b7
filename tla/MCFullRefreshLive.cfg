SPECIFICATION FairSpec
CONSTANTS
    CrashPoints = {"lock", "read", "run", "persist", "bootout", "agentOff", "confirm", "undo", "runtimeOn", "agentOn", "verify", "dropBridge", "failed", "unload", "plistOff", "clean", "release"}
    FailPoints = {"lock", "read", "run", "persist", "bootout", "agentOff", "suspendConfig", "config", "state", "confirm", "undo", "runtimeOn", "agentOn", "bootstrap", "managedConfig", "verify", "dropBridge", "failed", "unload", "plistOff", "clean", "release"}
    MaxFaults = 1
    MaxUpdates = 0
    MaxOthers = 0
PROPERTY InterruptedRunsResume
