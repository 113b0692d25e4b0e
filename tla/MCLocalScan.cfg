SPECIFICATION Spec
CONSTANTS
  a = a
  b = b
  p = p
  q = q
  g = g
  Declared <- MCDeclared
  NumParams = 3
  Words <- MCWords
  Offset <- MCOffset
  Scalars = {a, b, p, q}
  Programs <- AllPrograms
  MaxLocals = 2
  NumRegs = 1
INVARIANTS LocalScanTypeOK SharersMeetInNoLoop OnlyPlainLocalsInRegisters ReadsSeeTheLastWrite
