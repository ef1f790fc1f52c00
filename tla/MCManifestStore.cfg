\* Two writers and a compactor share four manifest ids.
SPECIFICATION Spec
CONSTANTS
  Writers = {w1, w2}
  Compactors = {c1}
  MaxId = 4
SYMMETRY Symmetry
INVARIANTS
  TypeOK
  IdsConsecutive
  EpochsMonotone
  EpochsUnique
  NoEpochPanic
