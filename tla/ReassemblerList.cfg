\* Every excerpt of a 10-byte stream, in any order, into a capacity of 5.
SPECIFICATION ListSpec
CONSTANTS
  SizeMax = 99
  Capacity = 5
  StreamLen = 10
INVARIANTS TypeOK OutputInOrder PromisedBytesKept NothingDeliverableWaits EndSignalled
           ListImplementsSet
