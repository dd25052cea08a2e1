CONSTANTS
  s1 = s1
  s2 = s2
  f1 = f1
  f2 = f2
  p1 = p1
  p2 = p2
  NoFn = NoFn
  Streams = {s1, s2}
  Fns = {f1, f2}
  Ports = {p1, p2}
  Values = {1, 2}
  SharedIn = {"gen", "rec"}
  FreedKept = FALSE
SPECIFICATION Spec
SYMMETRY Symmetry
INVARIANTS Inv EncFollows
PROPERTY GenPartsOnly
