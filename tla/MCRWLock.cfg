SPECIFICATION Spec
CONSTANTS
  Readers = {r1, r2}
  Writers = {w1, w2}
  Nobody = Nobody
  EndItem = Nobody
  Channels = 2
  TillPriority <- AnyPriority
SYMMETRY ThreadSymmetry
INVARIANTS
  WaitsAreLegal
  TagsAreCurrent
  SomePusherRuns
  ExpressReadsCovered
  LeaderIsFirst
PROPERTY LockSpec
