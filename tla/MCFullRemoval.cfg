SPECIFICATION Spec
CONSTANTS
    MaxVersion = 2
    Providers = {p1, p2}
    Configured = {p1}
    MaxFaults = 2
CONSTRAINT FewFaults
INVARIANTS TypeOK CredentialsListed AllOrNothing
PROPERTIES RetainedForRecovery RemovedMeansGone
