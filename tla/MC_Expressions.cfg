SPECIFICATION Spec
CONSTANTS
  TypeOf <- MCTypeOf
  AddressOf <- MCAddressOf
  Arity <- MCArity
  Returned <- MCReturned
  Object <- MCObject
  Global <- MCGlobal
  Statement <- MCStatement
  Memory <- MCMemory
  SlotBase = 0
  MaxReg = 12
  Stale = 999
INVARIANTS
  TypeOK
  AcceptsC
  ComputesC
PROPERTIES
  OnlyWhatCWrites
CHECK_DEADLOCK FALSE
