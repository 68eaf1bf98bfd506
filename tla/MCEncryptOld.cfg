\* A server without a key keeps writing while two starts with DB_KEY migrate.
CONSTANTS
  Procs = {old, p1, p2}
  OldServers = {old}
  Inodes = {f1, f2, f3}
  Original = f1
  Rows = {r1, r2}
  MaxStarts = 2
  None = None
SPECIFICATION FairSpec
INVARIANTS NothingDestroyed NoForeignWal
PROPERTY StartEnds
CHECK_DEADLOCK FALSE
