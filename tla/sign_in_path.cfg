CONSTANTS
  Off = Off
  MaxRequests = 2
  MaxFaults = 1
  PagePaths = {"/", "amphora"}
SPECIFICATION SessionSpec
PROPERTY SignInKeepsPath
CHECK_DEADLOCK FALSE
