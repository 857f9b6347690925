SPECIFICATION FairSpec
CONSTANTS
  c1 = c1
  p1 = p1
  p2 = p2
  Channels = {c1}
  Programs = {p1, p2}
  Capacity = 2
  Lossy = TRUE
  Reports = TRUE
  MaxEdits = 2
  MaxFailures = 2
INVARIANTS
  TypeOK
  FreshInSync
PROPERTY
  FreshRowsSettle
