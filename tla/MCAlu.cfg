SPECIFICATION Spec
CONSTANT
  Cases <- MCCases
INVARIANTS
  ArithmeticExact
  DecimalExact
  RoundTrips
  WordsByBytes
CHECK_DEADLOCK FALSE
