CONSTANTS
  Dates = {1, 2}
  Suppliers = {s1, s2}
  Amounts = {1, 2}
  Modes <- Every
  MaxLines = 2
SPECIFICATION Spec
INVARIANTS BooksAgree
  
SYMMETRY Alike
CHECK_DEADLOCK FALSE
