SPECIFICATION Spec
CONSTANTS
  Items = {i1, i2, i3}
  Splicer = Splicer
  Nobody = Nobody
  Queue = Queue
  Drain = Drain
  LastDrainIdx = 4
SYMMETRY ItemSymmetry
INVARIANT
  ListsConsistent
PROPERTY AbstractSpec
