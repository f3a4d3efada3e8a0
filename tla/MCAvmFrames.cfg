CONSTANTS
  Word = 64
  StackSize = 28
  Globals = 3
  CodeSize <- MCCodeSize
  Code <- MCCode
  LocalSize <- MCLocalSize
  Owner <- MCOwner
  DataCells <- MCDataCells
SPECIFICATION FairSpec
INVARIANTS
  TypeOK
  EnvironmentsIntact
  RegistersMatch
  FormalsAreActuals
  ActualsInCells
PROPERTIES
  ReflectionSeesCaller
  CallersUntouched
  ImplementsCallStack
  MachineStops
