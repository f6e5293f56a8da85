SPECIFICATION ASpec
CONSTANTS
  VarName = {"x"}
  FnName = {"f"}
  DeclaredName = {"g"}
  PointerName = {"p"}
  TagName = {"s", "t"}
  ObjectType = {"array"}
  ParamType = {"int"}
  Registers = {3}
  PrototypeIn = {"file", "proto"}
  MaxNested = 2
  MaxStructs = 2
  Garbage = {"GLOBAL_SCOPE"}
  MaxSymbols = 5
  MaxScopes = 4
INVARIANTS
  TypeOK
  EveryObjectPlaced
  ObjectsApart
  ParametersInOrder
  FunctionHasItsCode
PROPERTIES
  LexicallyScoped
CHECK_DEADLOCK FALSE
