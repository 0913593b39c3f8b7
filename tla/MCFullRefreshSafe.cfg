SPECIFICATION Spec
CONSTANTS
    CrashPoints = {"lock", "read", "run", "persist", "bootout", "agentOff", "runtimeOff", "suspendConfig", "config", "state", "confirm", "undo", "runtimeOn", "agentOn", "bootstrap", "managedConfig", "verify", "dropBridge", "failed", "unload", "plistOff", "clean", "release"}
    FailPoints = {"lock", "read", "run", "persist", "bootout", "agentOff", "runtimeOff", "suspendConfig", "config", "state", "confirm", "undo", "runtimeOn", "agentOn", "bootstrap", "managedConfig", "verify", "dropBridge", "failed", "unload", "plistOff", "clean", "release"}
    MaxFaults = 3
    MaxUpdates = 1
    MaxOthers = 1
INVARIANTS TypeOK CheckpointTruthful NotStranded OneWorker
PROPERTY ImplementsPendingRecovery
