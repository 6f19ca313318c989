SPECIFICATION LocksSpec
CONSTANTS
  Fibers = {f1, f2, f3}
  Units = 2
  Nrs = {1, 2}
  Consumed = {3}
  MaxSlots = 4
  Lockers = {f1, f2, f3, f4, f5}
INVARIANTS
  WaitListSound
  UnitsConserved
  MutexTypeOK
  Exclusion
  NobodyStranded
PROPERTIES
  FifoService
  WaiterAnswered
  MutexFifoService
  NoStarvation
