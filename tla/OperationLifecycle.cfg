SPECIFICATION Spec
CONSTANTS
  Ops = {o1, o2, o3}
  Writers = {w1, w2}
  NoOp = NoOp
SYMMETRY Symmetry
PROPERTIES CallsAreAtomic
CHECK_DEADLOCK FALSE
