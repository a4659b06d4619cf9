SPECIFICATION Spec
CONSTANTS
  None = None
  NodeId <- ReviewNodeId
  EdgeId = {}
  ClassificationId = {}
  Genesis <- MCGenesis
  Requests <- ReviewRequests
  Roots <- AliceIsRoot
  Signers <- TwoReviewers
  Attesters = {}
  Verdicts = {"approve", "reject"}
  Measurements = {}
  MaxBuilt = 4
  MaxSigned = 2
INVARIANTS
  TypeOK
  HistoryComplete
  EvidenceIsClean
PROPERTIES
  AdmissionJustified
  StoresATree
CHECK_DEADLOCK FALSE
