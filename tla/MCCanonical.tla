----------------------------- MODULE MCCanonical -----------------------------
(* One chapter number. Provider pa has the whole chapter, pb its two       *)
(* parts, the first one by two groups, and both have a bonus chapter.      *)
EXTENDS Canonical, TLC

CONSTANTS whole, part1, part1h, part2, bonusA, bonusB, pa, pb, gg, gh

Row(v, p) == [base |-> 1, variant |-> v, provider |-> p, group |-> gg,
              titled |-> FALSE, foreign |-> FALSE]

MCInfo == [c \in Chapters |->
  CASE c = whole  -> Row(0, pa)
    [] c = part1  -> Row(1, pb)
    [] c = part1h -> [Row(1, pb) EXCEPT !.group = gh]
    [] c = part2  -> Row(2, pb)
    [] c = bonusA -> Row(5, pa)
    [] OTHER      -> Row(5, pb)]

MCQualityRules ==
  {[conditions |-> {[field |-> "split", value |-> 0, negate |-> FALSE]}, score |-> 1]}

MCMetaRules == {}

UserSymmetry == Permutations(Users)
==============================================================================
