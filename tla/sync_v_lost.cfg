SPECIFICATION Spec
CONSTANTS
  c1 = c1
  c2 = c2
  p1 = p1
  p2 = p2
  Channels = {c1, c2}
  Programs = {p1, p2}
  Capacity = 4
  Lossy = TRUE
  Reports = FALSE
  MaxEdits = 1
  MaxFailures = 1
INVARIANT
  InSync
