CONSTANTS
  t1 = t1 t2 = t2 a1 = a1 a2 = a2 w1 = w1 w2 = w2
  Off = Off
  MaxRequests = 2
  MaxFaults = 1
  LastPage = 2
  MaxAsked = 2
  MaxCreated = 1
  SearchTerms = {t1, t2}
  EmptyTerm = t2
  CommonTerms = {t1}
  MaxPages = 2
  MaxSearches = 2
  TextFields = {"name"}
  Amounts = {0, 5}
  TermsOffered = {"t1"}
  NoTerms = "none"
  TermsDefault = "1"
  Ids = {a1, a2}
  Own = {a1}
  NoAmphora = NoAmphora
  Fields = {"name", "price"}
  MaxTrail = 4
  Ranges = {w1, w2}
  FirstRange = w1
  FilterKeys = {"wt"}
  Hues = {715}
  Schemes = {"mono", "contrast", "triade", "tetrade", "analogic"}
  Variations = {"pastel"}
  Quarters = {3}
  BoxTexts = {"", "syd", "sydn"}
  LongTexts = {"syd", "sydn"}
  Words = {"love", "liebe"}
  Width = 2
  Height = 2
  MaxSize = 2
  MaxClouds = 2
  Examples <- MCExamples
  FirstExample = "love"
  OwnOptions <- MCOptionsTyped
  Files = {"f"}
  MaskArea = {}
  MaxChanges = 1
SPECIFICATION Spec
INVARIANT SelectedIsShown
INVARIANT CreatedIsListed
INVARIANT FoundIsAsked
INVARIANT SentIsShown
INVARIANT DetailIsCurrent
INVARIANT DrawnIsChosen
INVARIANT SavedReturnsToSignals
INVARIANT CloudPageIsTrue
PROPERTY PagesAreShown
CHECK_DEADLOCK FALSE
