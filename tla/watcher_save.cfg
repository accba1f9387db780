SPECIFICATION Spec
CONSTANTS
  root = root
  d = d
  e = e
  Root = root
  Dir = {}
  Path <- MCSave
  Ignored = {}
  Backend = {"windows"}
  MaxEdits = 2
CHECK_DEADLOCK FALSE
INVARIANT RenamesApply
