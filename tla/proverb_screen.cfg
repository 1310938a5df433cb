SPECIFICATION Spec
CONSTANTS
  t1 = t1
  t2 = t2
  Proverbs <- MCProverbs
  Docs <- MCDocs
  Stored <- MCStored
  Taps <- MCTaps
  Elsewhere = "elsewhere"
  MaxChecks = 2
  MaxWrites = 1
  MaxAnimations = 3
SYMMETRY TapSymmetry
CHECK_DEADLOCK FALSE
INVARIANTS
  ProverbScreenTypeOK
  ButtonKeepsImage
  ControlsComeBack
  ImageTellsTruth
