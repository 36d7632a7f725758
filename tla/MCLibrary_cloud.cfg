\* The merge writes through the Web API; one edit by the user.
CONSTANTS
  None = None
  Unread = Unread
  MaxEdits = 1
  OnCloud = TRUE
  Master = m
  d1 = d1
  d2 = d2
  k1 = k1
  t1 = t1
  a1 = a1
  Dups = {d1, d2}
  Kids = {k1, k2}
  Tags = {t1, t2}
  Abstracts = {a1, a2}
  i1 = i1
  i2 = i2
  att3 = att3
  Items = {i1, i2}
  Atts = {att1, att2, att3}
  FULLTEXT_RECOVERY_ATTEMPTS = 1
  MaxExtractions = 2
  MaxBodyEdits = 1
  n1 = n1
  Children = {n1, n2}
  Homes <- StartHomes
  MaxVersion = 4
  Entries = {e1, e2, e3}
  MaxEntries = 2
  Chunk = 1
  TrashPage = 1
  KeyBatch = 1
  MaxListEdits = 1
  AppStops = TRUE
SPECIFICATION Spec
CHECK_DEADLOCK FALSE
PROPERTY NoChildTrashed
