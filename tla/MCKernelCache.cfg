SPECIFICATION Spec
CONSTANTS
  Process = {p, q}
  Calls <- MCCalls
  MaxCalls = 3
  MaxKills = 1
  Text <- codegen
  Accepts <- Compiles
  NoFile = NoFile
  NoCall = NoCall
INVARIANTS
  TypeOK
  NeverAnotherKernel
  UndisturbedCallsReturnTheKernel
  CompiledOnce
