SPECIFICATION Spec
CONSTANTS
  None = None
  NodeId <- MCNodeId
  EdgeId <- MCEdgeId
  ClassificationId = {"k1"}
  Commit = {"c1", "c2", "c3", "c4"}
  Paths <- MCPaths
  OwnPaths = {".allod"}
  Tree <- MCTree
  SourceOf <- MCSourceOf
  FirstParent <- MCFirstParent
  NodeIds <- MCNodeIds
  EdgeIds <- MCEdgeIds
  StartNodes <- MCStartNodes
  PolicyNode = "policy"
  Roots <- MCRoots
  KeyOf <- MCKeyOf
  Owner = "conner"
  Spelled <- MCSpelled
  RepoName = "allod"
  Refs = {"main", "topic"}
  Scenarios <- GitScenarios
INVARIANTS
  TypeOK
  IndexMatches
  UpToDate
  ImportApplies
  VerdictJustified
  NotesKeepDecisions
PROPERTIES
  IdentityKept
CHECK_DEADLOCK FALSE
