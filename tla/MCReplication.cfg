SPECIFICATION ReplicationSpec
CONSTANTS
  Term = 3
  Elections <- MCElections
  Settings <- MCSettings
  Size = 3
  MaxBytes = 3
  MaxIndex = 5
  Sizes = {0, 1, 2}
  Ids = {1, 2, 3, 4}
INVARIANTS MatchIsDurable WindowAhead RolesAsWanted QuorumsAreCounted
PROPERTIES ImplementsWindow QuorumsOverlap FollowerCatchesUp
