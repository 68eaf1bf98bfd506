--------------------------- MODULE MCDbEncryption ---------------------------
(***************************************************************************)
(* The instances of DbEncryption that TLC checks.                          *)
(***************************************************************************)
EXTENDS DbEncryption, TLC

Symmetry == Permutations(Procs \ OldServers) \cup Permutations(Rows) \cup
            Permutations(Inodes \ {Original})
=============================================================================
