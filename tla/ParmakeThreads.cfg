CONSTANTS
  Threads = {t1, t2}
  Inputs <- FirstBuild
SPECIFICATION Spec
CHECK_DEADLOCK FALSE
INVARIANT DependenciesMet
