SPECIFICATION Spec
CONSTANTS
  p1 = p1
  p2 = p2
  p3 = p3
  p4 = p4
  p5 = p5
  Proverbs <- FiveProverbs
  MinUnviewed = 2
SYMMETRY ProverbSymmetry
INVARIANTS
  LibraryTypeOK
  DrawFindsProverb
  NoRepeatInCycle
  ManyToChoose
