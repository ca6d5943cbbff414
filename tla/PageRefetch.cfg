SPECIFICATION StoreSpec
CONSTANTS
  Tool = {"c1"}
  Inquiry = {"q1"}
  MaxThread = 3
  MaxReplays = 2
CHECK_DEADLOCK FALSE
INVARIANT PageDeclinesNothing
