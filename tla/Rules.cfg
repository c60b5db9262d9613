SPECIFICATION Spec
CONSTANTS
  Texts <- MCTexts
  Originals <- MCOriginals
  Normal <- MCNormal
  Stripped <- MCStripped
  OtherHeaders <- MCHeaders
  OtherGoods <- MCGoods
  Errors = {1, 3}
  MaxSteps = 3
CHECK_DEADLOCK FALSE
INVARIANTS
  UnknownMakesNoDifference
  ShortagesAreDecided
  ProposalsHoldUp
