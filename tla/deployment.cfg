CONSTANTS
  Identities = {"rian", "sp"}
  AppIdentities = {"sp"}
  Plans = {"syd"}
  StandardPlans = {"syd"}
  MaxFailures = 1
  Releases = {"v1", "v2"}
  GoodReleases = {"v1"}
  MaxHangs = 1
  MaxUpdates = 2
SPECIFICATION DeliverySpec
INVARIANT NothingIsRefused
PROPERTY DeliveryComesToRun
PROPERTY UpdatesKeepServing
CHECK_DEADLOCK FALSE
