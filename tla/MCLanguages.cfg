CONSTANTS
  Names = {"x"}
  Fragments <- MCFragments
  Inputs <- MCInputs
  MaxSteps = 12
  Lexemes = {"n0", "n2", "n3", "+", "-", "*", "(", ")", "=", ";", "?"}
  MaxExpression = 6
  MaxEquations = 8
  MaxWords = 3
SPECIFICATION AnySpec
INVARIANTS NamesDefined OutputsAgree TreesFreed ParsersRight
PROPERTIES ParsersEnd
CHECK_DEADLOCK FALSE
