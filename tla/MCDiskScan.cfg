SPECIFICATION Spec
CONSTANTS
  better = better
  worse = worse
  loose = loose
  Rows = {better, worse, loose}
  Local = {loose}
  Numbers = {1}
  NumberOf <- MCNumberOf
  Rank <- MCRank
  NoRow = NoRow
  System = System
  Loader = Loader
  Api = Api
  Edits = {"scan", "optimise", "refresh", "download", "delete", "purge", "put", "take", "import", "title", "crash"}
  MaxEdits = 5
INVARIANTS
  TypeOK
  ScanSparesFiles
  DownloadedHasFile
CHECK_DEADLOCK FALSE
