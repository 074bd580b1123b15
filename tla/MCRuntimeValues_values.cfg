SPECIFICATION Spec
CONSTANTS
  Vars = {x, y}
  x = x
  y = y
  Types <- MCTypes
  u = u
  v = v
  Bytes = {u, v}
  Registries = {"root", "mod"}
  Names = {"sprite", "sound"}
  Visible = {{"sprite"}}
  MaxNames = 1
  MaxObjects = 4
  MaxPayloads = 1
  MaxLength = 3
  MaxNesting = 2
  InitialCapacity = 1
  CapMod = 4
INVARIANTS
  RefsMatchOwners
  ReleasedByItsType
  GrowsToHalf
  
PROPERTY ImplementsValueStore
CHECK_DEADLOCK FALSE
SYMMETRY Symmetry
