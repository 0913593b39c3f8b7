SPECIFICATION FairSpec
CONSTANTS
  r1 = r1
  r2 = r2
  Requests = {r1, r2}
  Followed = {r1}
  MaxUnread = 1
  MaxUpdates = 1
  MaxFailures = 1
INVARIANTS TypeOK NeverCut OutcomeTruthful PausedOnlyWhileFull
PROPERTIES AdmittedOnFreshLook SettledOnce EveryRequestSettles
