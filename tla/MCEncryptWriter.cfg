\* Refutes a claim: a server without a key keeps writing while a start with DB_KEY migrates.
CONSTANTS
  Procs = {p1, p2}
  OldServers = {p1}
  Inodes = {f1, f2, f3}
  Original = f1
  Rows = {r1, r2}
  MaxStarts = 2
  None = None
SPECIFICATION Spec
INVARIANT MainIsWhole
CHECK_DEADLOCK FALSE
