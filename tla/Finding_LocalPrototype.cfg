SPECIFICATION ASpec
CONSTANTS
  VarName = {"x"}
  FnName = {"f"}
  DeclaredName = {"g"}
  PointerName = {"p"}
  TagName = {"s"}
  ObjectType = {"array"}
  ParamType = {"int"}
  Registers = {3}
  PrototypeIn = {"file", "proto", "func", "block"}
  MaxNested = 2
  MaxStructs = 2
  Garbage = {"GLOBAL_SCOPE"}
  MaxSymbols = 5
  MaxScopes = 4
INVARIANT BackInGlobalScope
CHECK_DEADLOCK FALSE
