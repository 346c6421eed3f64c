SPECIFICATION Spec
CONSTANT Operands = {0, 1, 9, 16, 128, 153, 255}
INVARIANTS
  AddIsExact
  SubtractIsExact
  FlagsDescribeResult
  DecimalSum
