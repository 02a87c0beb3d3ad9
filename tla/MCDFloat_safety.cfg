SPECIFICATION Spec
CONSTANTS
  WordBits = 10
  ExponentBits = 3
  Signed = FALSE
  Operand <- MCOperand
INVARIANTS
  ValueExact
  UndoExact
  Ordered
  PrintsValue
