SPECIFICATION OverlaySpec
CONSTANTS
  t1 = t1
  t2 = t2
  r1 = r1
  foo = foo
  Foo = Foo
  v1 = v1
  v2 = v2
  d1 = d1
  d2 = d2
  Tasks = {t1, t2}
  Readers = {r1}
  Names = {foo, Foo}
  Versions = {v1, v2}
  Data = {d1, d2}
  Keys = {foo}
  KeyOf <- MCKeyOf
  Valid <- Request
  ReadOnly = FALSE
  ValidateMetadata = FALSE
  Isolated = TRUE
  MayAbandon = FALSE
  UpstreamIndex <- MCUpstreamIndex
  UpstreamBlob <- MCUpstreamBlob
  UpstreamMayFail = TRUE
  NoFile = NoFile
  Empty = Empty
  Torn = Torn
  Junk = Junk
  NoEntry = NoEntry
SYMMETRY Symmetry
INVARIANTS
  TopLayersWin
