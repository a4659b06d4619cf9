SPECIFICATION Spec
CONSTANTS
  None = None
  NodeId <- MCNodeId
  EdgeId = {}
  ClassificationId = {"k1"}
  Order <- MCOrder
  AttrOrder <- MCAttrOrder
  TermOrder <- MCTermOrder
  Newline = "nl"
  Space = "sp"
  Scenarios <- BundleScenarios
INVARIANTS
  TypeOK
  ProjectionRoundTrips
  DocsInForce
  OnePolicyNode
  CleanFilesRoundTrip
PROPERTIES
  ImportsReplaceWhatWasRead
CHECK_DEADLOCK FALSE
