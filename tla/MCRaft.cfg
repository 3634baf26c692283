SPECIFICATION Spec
CONSTANTS
  p1 = p1
  p2 = p2
  p3 = p3
  Peers = {p1, p2, p3}
  None = None
  Values = {a}
  Noop = noop
  Lost <- MCLost
  Settings <- MCSettings
INVARIANTS ElectionSafety CommittedAgree LeaderCompleteness LogOfAcceptedLeader LogAssertions TransferTargetCaughtUp FortifiedLeaderIsUnique
