SPECIFICATION Spec
CONSTANTS
  c1 = c1
  c2 = c2
  c3 = c3
  r1 = r1
  Calls = {c1, c2, c3}
  Requests = {r1}
  Inputs = {"create", "delete", "input", "approval", "turn_mode_update"}
  OperationOf <- OperationNames
  None = None
SYMMETRY Alike
CHECK_DEADLOCK FALSE
INVARIANTS ForwardedOnce AnswersAreTrue
