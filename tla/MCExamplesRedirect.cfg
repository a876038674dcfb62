CONSTANTS
  Process = {root, p1, p2}
  Root = root
  Kinds = {"exec", "redirect", "system"}
  MaxFd = 1
  MaxFaults = 1
  Thread = {t1, t2, t3}
  Program = Program
  Nobody = Nobody
  MaxLocks = 2
SPECIFICATION ExamplesSpec
INVARIANTS RedirectClosesItsFile
CHECK_DEADLOCK FALSE
