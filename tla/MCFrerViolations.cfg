CONSTANTS
  s1 = s1
  s2 = s2
  f1 = f1
  f2 = f2
  p1 = p1
  p2 = p2
  NoFn = NoFn
  Streams = {s1, s2}
  Fns = {f1, f2}
  Ports = {p1, p2}
  Values = {1, 2}
  \* The handle in a freed list element is used (as below); a generation function is
  \* shared by two streams: SharedIn = {"gen"}, FreedKept = TRUE; the two invariants of
  \* recovery: SharedIn = {}, FreedKept = TRUE.  One at a time; none holds.
  SharedIn = {}
  FreedKept = FALSE
SPECIFICATION Spec
SYMMETRY Symmetry
INVARIANT GenFollows
\* INVARIANT RecActivated
\* INVARIANT RecConfigured
