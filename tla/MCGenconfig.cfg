SPECIFICATION TemplateSpec
CONSTANTS
  Patterns = {"@", "$", "ENV"}
  Open <- MCOpen
  Close <- MCClose
  Args <- MCArgs
  Lines <- MCLines
  BufSize = 12
  MaxLines = 2
INVARIANTS
  SimplePiecesRight
  LinesFit
CHECK_DEADLOCK FALSE
