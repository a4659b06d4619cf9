SPECIFICATION Spec
CONSTANTS
  None = None
  NodeId <- RaceNodeId
  EdgeId = {}
  ClassificationId = {}
  Genesis <- MCGenesis
  Requests <- RaceRequests
  Roots <- AliceIsRoot
  Signers = {}
  Attesters = {}
  Verdicts = {"approve"}
  Measurements = {}
  MaxBuilt = 3
  MaxSigned = 0
PROPERTIES
  LogIsAppendOnly
CHECK_DEADLOCK FALSE
