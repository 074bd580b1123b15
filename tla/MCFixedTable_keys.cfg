CONSTANTS
  key = key
  tag = tag
  t1 = t1
  t2 = t2
  t3 = t3
  t4 = t4
  t5 = t5
  None = None
  Kind = "Fixed"
  RowCount = 3
  Columns = {key, tag}
  Unique = {key, tag}
  Primary = key
  Frozen = {}
  Values = {t1, t2, t3, t4, t5}
  Text <- Strings
  Hash <- Collide
SPECIFICATION FixedSpec
INVARIANTS KeysSound IndexTight
