SPECIFICATION Spec
CONSTANTS
  Call = {"resolve_name", "is_available", "list_names", "verify"}
  Method <- MCMethod
  MaxCalls = 2
  Endpoints = 2
INVARIANT
  WrongShapeIsNoAnswer
