CONSTANTS
  NULL = NULL
  a = a
  b = b
  d = d
  Value = {a, b}
  Size <- Sizes
  MaxBlocks = 3
  Byte = {1}
  ListKey = {k1, k2, k3}
  ListLen = 4
  Thread = {t1, t2}
  SharedKey = {k1}
  MaxRev = 3
  MaxDeletes = 1
  Entry = {n1, n2}
  NUM_INTS = 8
  Inputs <- CommandLines
  Cell = {n1, n2, n3, n4}
  Pointer <- Pointers
  QueueLen = 4
  KeyComp <- PairComp
  Node = {n1, n2, n3}
  Item = {a, b}
  Commands <- Lines
  Queries <- Prefixes
  LogSize = 4
  c1 = c1
  c2 = c2
  Client = {c1, c2}
  Letter = {a, b, d}
  Format <- Formats
  Messages <- Texts
  ASCII = ASCII
  BIN = BIN
  NEWLINE = NEWLINE
  INIT_BUF = 2
SPECIFICATION Spec
CHECK_DEADLOCK FALSE
INVARIANTS HeapsSound ThreadsDisjoint PrintsSorted LastMatchRuns EchoesExact RevisionNamesValue
PROPERTIES ListImplementsDictionary TreeImplementsDictionary ImplementsQueue ImplementsSequence NoLostUpdate
