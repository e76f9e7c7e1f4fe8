CONSTANTS
  Off = Off
  MaxRequests = 2
  MaxFaults = 1
  TextFields = {"name"}
  Amounts = {0, 5}
  TermsOffered = {"t1"}
  NoTerms = "none"
  TermsDefault = "1"
SPECIFICATION FormSpec
INVARIANT FreeIsFree
CHECK_DEADLOCK FALSE
