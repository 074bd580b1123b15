CONSTANTS
  key = key
  note = note
  u = u
  v = v
  w = w
  None = None
  Columns = {key, note}
  Unique = {key}
  Frozen = {note}
  Values = {u, v}
  Text <- Plain
  Reserve = 2
  GenMod = 1000
  CounterMax = 5
  MaxAdds = 4
  MaxVersion = 4
SPECIFICATION FairSpec
INVARIANTS RowsSound FreeListSound
PROPERTIES ImplementsRowStore ShrinkReturns
CHECK_DEADLOCK FALSE
