SPECIFICATION Spec
CONSTANTS
  None = None
  NodeId <- SchemaNodeId
  EdgeId = {"link"}
  ClassificationId = {}
  Genesis <- SchemaGenesis
  Requests <- SchemaRequests
  Roots <- AliceIsRoot
  Signers = {}
  Attesters = {}
  Verdicts = {"approve"}
  Measurements = {}
  MaxBuilt = 3
  MaxSigned = 0
INVARIANTS
  CacheCoherent
CHECK_DEADLOCK FALSE
