SPECIFICATION Spec
CONSTANTS
  a = a
  b = b
  a1 = a1
  a2 = a2
  b1 = b1
  sys = sys
  wa = wa
  Providers = {a, b}
  NoProvider = NoProvider
  Pages = {a1, a2, b1}
  NoPage = NoPage
  PagesOf <- MCPagesOf
  Hit <- MCHit
  Numbers = {1}
  Backlist <- MCBacklist
  Rank <- MCRank
  Workers = {sys, wa}
  Serves <- MCServes
  Editors = {e1}
  Edits = {"url", "series", "global", "monitor", "task", "crash"}
  MaxEdits = 2
INVARIANTS
  TypeOK
  SyncedMeansRead
  NoMassDownload
  NewChaptersAreQueued
  CanonicalFollows
CHECK_DEADLOCK FALSE
