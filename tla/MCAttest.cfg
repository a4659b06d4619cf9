SPECIFICATION Spec
CONSTANTS
  None = None
  NodeId <- AttestedNodeId
  EdgeId = {}
  ClassificationId = {"mark"}
  Genesis <- AttestedGenesis
  Requests <- AttestedRequests
  Roots <- AliceIsRoot
  Signers = {}
  Attesters <- CrawlerKeys
  Verdicts = {"approve"}
  Measurements = {"m1"}
  MaxBuilt = 3
  MaxSigned = 0
PROPERTIES
  AdmissionJustified
  EvidenceKept
CHECK_DEADLOCK FALSE
