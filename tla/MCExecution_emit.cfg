SPECIFICATION Spec
CONSTANTS
  x = x
  y = y
  Names = {x, y}
  LocalTypes = {"string", "strs"}
  Exprs <- SpreadForms
  Stmts = {"let", "assign", "expr", "break", "continue", "block", "if", "else", "while", "for", "column", "switch"}
  MaxStmts = 3
  Gaps = {}
SYMMETRY MCSymmetry
INVARIANTS
  SlotsSound
  NeverAborts
  HeightsAgree
  FreesOnce
  NoLeak
