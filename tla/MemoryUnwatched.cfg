SPECIFICATION Spec
CONSTANTS
  a = a
  b = b
  NrPages = 8
  PageUnits = 2
  Reserved = 1
  MinFreePages = 2
  Pools = {a, b}
  ObjectSize <- OneAndOneAndAHalf
  Preferred <- OneAndThree
  Fallback <- OneAndTwo
  MaxFree <- ThreeAndTwo
  TaskPool = a
  Threads = {t1, t2}
  LargeSizes = {3}
  MaxLive = 2
  None = None
INVARIANT ReclaimIsResumed
