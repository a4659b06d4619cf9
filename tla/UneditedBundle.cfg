SPECIFICATION Spec
CONSTANTS
  None = None
  NodeId <- MCNodeId
  EdgeId = {}
  ClassificationId = {"k1"}
  Order <- MCOrder
  AttrOrder <- MCAttrOrder
  TermOrder <- MCTermOrder
  Newline = "nl"
  Space = "sp"
  Scenarios <- BundleScenarios
INVARIANTS
  CleanBundleIsNoEdit
CHECK_DEADLOCK FALSE
