SPECIFICATION SerialSpec
CONSTANTS
  None = None
  NodeId <- SchemaNodeId
  EdgeId = {"link"}
  ClassificationId = {}
  Genesis <- SchemaGenesis
  Requests <- SerialRequests
  Roots <- AliceIsRoot
  Signers <- TwoReviewers
  Attesters = {}
  Verdicts = {"approve"}
  Measurements = {}
  MaxBuilt = 4
  MaxSigned = 2
INVARIANTS
  TipFolds
  AuditHolds
  CacheCoherent
  VerifyAcceptsStable
  VerifyReplaysFold
CHECK_DEADLOCK FALSE
