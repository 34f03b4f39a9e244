CONSTANTS
  r1 = r1
  r2 = r2
  r3 = r3
  b1 = b1
  b2 = b2
  f1 = f1
  Rows = {r1, r2, r3}
  Blobs = {b1, b2}
  Previews = {f1}
  Passes = {p1, p2}
  Deletes = {d1}
  BlobOf <- MCBlobOf
  MakesOf <- MCMakesOf
  Absent = Absent
  NoPreview = NoPreview
  NoItem = NoItem
  PassesSlow = FALSE
  SweepsSlow = FALSE

SPECIFICATION Spec

SYMMETRY Alike

INVARIANTS
  StoredKept
  PassHeals
