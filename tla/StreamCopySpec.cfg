SPECIFICATION Spec
CONSTANTS
  BufferSize = 3
  KernelBuffer = 1
  MaxTyped = 4
  MaxSent = 2
INVARIANTS Fifo ShutdownAfterAll
PROPERTY Finishes
CHECK_DEADLOCK FALSE
