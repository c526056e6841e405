CONSTANTS
  Threads = {t1}
  Inputs <- CleanInputs
SPECIFICATION Spec
CHECK_DEADLOCK FALSE
INVARIANTS RulesConserved DependenciesMet BuiltUpToDate

PROPERTY BuildEnds
