SPECIFICATION Spec
CONSTANTS
  a = a
  b = b
  Series = {a, b, m}
  ByHand = {m}
  Initially = {a}
  Links <- MCLinks
  Titles = {t}
  NoSeries = NoSeries
  NoTitle = NoTitle
  Workers = {w1, w2}
  Clients = {c1, c2}
  MaxTries = 3
  Edits = {"refuse", "add", "import", "titles", "cover", "refresh", "delete", "suggest", "hide", "crash"}
  MaxEdits = 3
SYMMETRY ProcSymmetry
INVARIANTS
  TypeOK
  TitlesKept
  CoverIsThere
  SuggestionsKnowAll
PROPERTY
  HiddenStays
CHECK_DEADLOCK FALSE
