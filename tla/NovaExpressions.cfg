SPECIFICATION Spec
CONSTANTS
  Width = 4
  CharWidth = 2
  Temps = 3
  Literal <- MCLiteral
  Start = 1
  Macros = {"M"}
  EnumNames <- MCEnumNames
  Directives <- MCDirectives
  Programs <- MCPrograms
INVARIANTS TypeOK ParsesAsWritten EvaluationsAgree TempsReturned
