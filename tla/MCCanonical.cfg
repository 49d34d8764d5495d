SPECIFICATION Spec
CONSTANTS
  whole = whole
  part1 = part1
  part1h = part1h
  part2 = part2
  bonusA = bonusA
  bonusB = bonusB
  pa = pa
  pb = pb
  gg = gg
  gh = gh
  Chapters = {whole, part1, part1h, part2, bonusA, bonusB}
  Info <- MCInfo
  NoProvider = NoProvider
  NoGroup = NoGroup
  Initially = {whole, part1, bonusA, bonusB}
  QualityRules <- MCQualityRules
  MetaRules <- MCMetaRules
  Users = {u, v}
  Edits = {"add", "provider", "clear", "choose", "extra", "download", "delete", "freeze", "rule"}
  MaxEdits = 3
SYMMETRY UserSymmetry
INVARIANTS
  TypeOK
  NoDoubles
  ChoiceIsListed
  EveryChapterHasOne
  OverrideSurvives
