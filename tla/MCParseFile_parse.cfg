SPECIFICATION Spec
CONSTANTS
  MaxErrors = 25
  Texts <- MCTexts
  Files <- MCFiles
INVARIANTS
  RespacedLexesSame
  ParsesTheGrammar
  RecoveryMoves
  NextDeclSurvives
