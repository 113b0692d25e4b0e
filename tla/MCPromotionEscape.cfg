SPECIFICATION Spec
CONSTANTS
  Programs <- AddressesTaken
  NumRegs = 16
  Numbers <- TwoNumbers
  Extended <- LowBytes
  MaxBlocks = 32
  MaxChildren = 4
  MaxFrontier = 2
  MaxPhiSources = 2
INVARIANT PassedStaysInMemory
