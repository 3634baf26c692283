SPECIFICATION Spec
CONSTANTS
  p1 = p1
  p2 = p2
  p3 = p3
  Peers = {p1, p2, p3}
  None = None
  Values = {a, b}
  Noop = noop
  Lost <- MCLost
  Settings <- SyncSettings
INVARIANT CommittedAgree
