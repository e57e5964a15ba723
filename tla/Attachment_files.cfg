SPECIFICATION Spec
CONSTANTS
  w1 = w1
  w2 = w2
  p1 = p1
  p2 = p2
  Writers <- MCWriters
  Peers <- MCPeers
  FileLens <- MCFileLens
  Block = 2
  MaxFiles = 2
INVARIANTS
  TypeOK
  WholeAtCallback
  ReadIsWhole
