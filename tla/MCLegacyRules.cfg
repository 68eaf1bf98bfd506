\* Databases of earlier versions, started again and again.
CONSTANTS
  People = {1, 2}
  Legacy <- LegacyDatabases
  MaxQuantity = 5
SPECIFICATION StartupSpec
INVARIANT OrphansAdopted
CHECK_DEADLOCK FALSE
