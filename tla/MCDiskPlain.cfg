SPECIFICATION Spec
CONSTANTS
  better = better
  worse = worse
  loose = loose
  Rows = {better, worse, loose}
  Local = {loose}
  Numbers = {1}
  NumberOf <- MCNumberOf
  Rank <- MCRank
  NoRow = NoRow
  System = System
  Loader = Loader
  Api = Api
  Edits = {"put", "scan"}
  MaxEdits = 2
INVARIANTS
  FilesAreMarked
CHECK_DEADLOCK FALSE
