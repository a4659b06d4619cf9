SPECIFICATION Spec
CONSTANTS
  None = None
  NodeId <- MCNodeId
  EdgeId = {"e1"}
  ClassificationId = {"k1", "k2", "k3", "k4"}
  Graph = {"A", "B"}
  PolicyNode <- MCPolicyNode
  Owner <- MCOwner
  KeyOf <- MCKeyOf
  Order <- MCOrder
  NodeIds <- MCNodeIds
  Scenarios <- FedScenarios
INVARIANTS
  TypeOK
  ImportsWereShared
  ImportsWereReviewed
  BundlesVerify
  ProofsAreExact
PROPERTIES
  GraphsStaySovereign
CHECK_DEADLOCK FALSE
