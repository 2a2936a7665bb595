SPECIFICATION MCSpec
CONSTANTS
  CPUs = {0, 1, 2}
  Formats <- KnownFormats
  NULL = NULL
  Unknown = Unknown
  WithDebug = TRUE
  MaxEintr = 2
  Inputs <- SomeInputs
  Numbers <- SomeNumbers
  NoString = NULL
  n1 = n1
  n2 = n2
  n3 = n3
  n4 = n4
  n5 = n5
  n6 = n6
  n7 = n7
  n8 = n8
  n9 = n9
  Nodes = {n1, n2, n3, n4, n5, n6, n7, n8, n9}
  Key <- Keys
  NoNode = NoNode
  RingBytes = {0, 1}
  count_bytes = 4
INVARIANTS TypeOK GivesBack RowsMatch CodecsRight HeapTypeOK Complete Ordered RingTypeOK InsideMappings
PROPERTIES CallReturns ImplementsMinQueue ImplementsFifo
