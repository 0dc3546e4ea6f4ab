SPECIFICATION Spec
CONSTANTS
  e1 = e1
  e2 = e2
  l1 = l1
  l2 = l2
  l3 = l3
  Events = {e1, e2}
  Listeners = {l1, l2, l3}
  MaxDepth = 2
  MaxCmds = 1
SYMMETRY Sym
INVARIANTS TypeOK EachOnce
PROPERTY NoneMissed
