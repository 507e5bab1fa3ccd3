SPECIFICATION Spec
CONSTANTS
  TextRank <- MCTextRank
  TextOrder <- MCTextOrder
  Declared <- MCDeclared
  Feeds <- MCFeeds
  OtherNames <- MCOtherNames
  MaxOutages = 1
CHECK_DEADLOCK FALSE
INVARIANT TypeOK
PROPERTIES VariantKept NeverOlder EventuallyCurrent
