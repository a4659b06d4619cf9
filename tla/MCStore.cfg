SPECIFICATION Spec
CONSTANTS
  g1 = g1
  g2 = g2
  bob1 = bob1
  bob2 = bob2
  memo = memo
  note = note
  plan = plan
  None = None
  Processes = {p1, p2}
  Changesets <- MCChangesets
  Founding <- MCFounding
  Adding <- MCAdding
  NameOf <- MCNameOf
  Quorum <- MCQuorum
  Scenarios <- StoreScenarios
INVARIANTS
  TypeOK
  AckedSurvives
  HeadIsDurable
  KeysComeFirst
  MirrorCatchesUp
PROPERTIES
  HeldIsDecided
CHECK_DEADLOCK FALSE
