SPECIFICATION MCSpec
CONSTANTS
  Readers = {r1, r2}
  Writers = {w1, w2}
  Nobody = Nobody
  EndItem = separator
  Channels = 1
  TillPriority = {0, 1}
  TryReaders = {r1, r2}
  LockReaders = {r1, r2}
  TryWriters = {w2}
  LockWriters = {w1}
  MaxInside = 3
INVARIANTS
  WaitsCounted
  BarrierHolds
  TryWriteFailsOnBusy
  ExpressReadsCovered
PROPERTIES
  LockSpec
  WriteLockReturns
  ReadLockReturns
