SPECIFICATION SerialSpec
CONSTANTS
  Savers = {s1, s2}
  Readers = {r1}
  Files = {f1, f2, f3, f4}
  NoFile = NoFile
  MaxChunks = 2
INVARIANTS
  DestIsWhole
  NeverCorrupt
PROPERTIES
  ImplementsRegister
