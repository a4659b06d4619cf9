SPECIFICATION Spec
CONSTANTS
  None = None
  NodeId <- ReviewNodeId
  EdgeId = {}
  ClassificationId = {}
  Genesis <- MCGenesis
  Requests <- ReviewRequests
  Roots <- AliceIsRoot
  Signers <- TwoReviewers
  Attesters = {}
  Verdicts = {"approve", "reject"}
  Measurements = {}
  MaxBuilt = 3
  MaxSigned = 2
INVARIANTS
  AuditHolds
CHECK_DEADLOCK FALSE
