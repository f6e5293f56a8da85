SPECIFICATION TSpec
CONSTANTS
  VarName = {"x"}
  FnName = {f, g}
  DeclaredName = {}
  PointerName = {}
  TagName = {"s"}
  LabelName = {"l"}
  MaxPlaces = 3
  ObjectType = {"int"}
  ParamType = {"int"}
  Registers = {3}
  PrototypeIn = {}
  MaxNested = 0
  MaxStructs = 2
  Garbage = {"GLOBAL_SCOPE"}
  MaxSymbols = 5
  MaxScopes = 6
SYMMETRY FnSymmetry
INVARIANTS
  TypeOK
  TagsAsInC
  GotosReachTheirLabel
CHECK_DEADLOCK FALSE
