SPECIFICATION Spec
CONSTANTS
  TypeOf <- MCTypeOf
  AddressOf <- MCAddressOf
  Arity <- MCArity
  Returned <- MCReturned
  Object <- MCObject
  Global <- MCGlobal
  Statement <- ElementAddress
  Memory <- MCMemory
  SlotBase = 0
  MaxReg = 12
  Stale = 999
INVARIANTS
  StatementsAsInC
CHECK_DEADLOCK FALSE
