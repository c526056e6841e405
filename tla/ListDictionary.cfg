CONSTANTS
  Key = {k1, k2}
  Value = {a, b}
  NULL = NULL
  MaxLen = 2
SPECIFICATION Spec
PROPERTY ImplementsDictionary
