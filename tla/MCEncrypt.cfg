\* Two starts at a time, killed at any step, power losses, the operator's repair.
CONSTANTS
  Procs = {p1, p2}
  OldServers = {}
  Inodes = {f1, f2, f3}
  Original = f1
  Rows = {r1, r2}
  MaxStarts = 4
  None = None
SYMMETRY Symmetry
SPECIFICATION Spec
INVARIANTS EncryptTypeOK MainIsWhole BackupIsWhole OneMigrator
CHECK_DEADLOCK FALSE
