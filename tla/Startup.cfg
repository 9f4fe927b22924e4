SPECIFICATION Spec
CONSTANTS
  Services = {api, worker}
  Refresh = refresh
  Scenarios <- Deployments
  NoReport = NoReport
  NoDoc = NoDoc
  MaxFaults = 1
  MaxChanges = 1
SYMMETRY Symmetry
INVARIANTS StampTellsTruth UpgradeNeverStuck UpMeansUsable MigratedWhenUp SkipsAreExplained
