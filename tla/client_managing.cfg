CONSTANTS
  Off = Off
  MaxRequests = 2
  MaxFaults = 1
  FileNames = {f1, f2}
  NoFile = NoFile
  MaxUploads = 2
  MaxFileFaults = 1
  MaxApps = 2
  NoApp = NoApp
  AppNames = {"n"}
  MaxLocations = 1
  Rows = {row1}
  Plans = {p1, p2}
  FirstPlan = p1
  Emails = {"e"}
  BadEmail = "bad"
  AllTerms = {t1}
  Heads = {"", "t"}
  Rests = {"", "q"}
  LastIndex = 2
  PagePaths = {"/", "amphora"}
  MaxVersion = 3
SPECIFICATION Spec
INVARIANT ListingIsTrue
INVARIANT ApplicationsAreAsAsked
INVARIANT AccountIsTrue
INVARIANT FormsSendWhatTheyShow
INVARIANT ShellFollowsUser
INVARIANT NewestIsSeen
PROPERTY AddedRowsAreNew
PROPERTY NobodyWaitsForEver
CHECK_DEADLOCK FALSE
