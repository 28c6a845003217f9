SPECIFICATION Spec
CONSTANTS
  t1 = t1
  t2 = t2
  t3 = t3
  foo = foo
  Foo = Foo
  bar = bar
  v1 = v1
  v2 = v2
  d1 = d1
  d2 = d2
  Tasks = {t1, t2, t3}
  Names = {foo, Foo, bar}
  Versions = {v1, v2}
  Data = {d1, d2}
  Keys = {foo, bar}
  KeyOf <- MCKeyOf
  Valid <- MCValid
  ReadOnly = FALSE
  ValidateMetadata = TRUE
  Isolated = TRUE
  MayAbandon = TRUE
  NoFile = NoFile
  Empty = Empty
  Torn = Torn
  Junk = Junk
SYMMETRY Symmetry
INVARIANT
  PublishUpdatesIndex
