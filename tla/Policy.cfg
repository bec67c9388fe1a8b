SPECIFICATION Spec
CONSTANTS
  a = a
  b = b
  Policies = {a, b}
  AnyPolicy = any
  Absent = 9
  Inputs <- MCInputs
CHECK_DEADLOCK FALSE
INVARIANTS
  VerdictIsRight
  RequiredPolicyIsVouchedFor
