----------------------------- MODULE MCStartup -----------------------------
(* Startup over the databases an earlier version may have left. *)
EXTENDS Startup

Positions == {{}, {[id |-> 1, owner |-> 0, quantity |-> 1]},
              {[id |-> 1, owner |-> 0, quantity |-> 1], [id |-> 2, owner |-> 0, quantity |-> 2]},
              {[id |-> 1, owner |-> 1, quantity |-> 1], [id |-> 2, owner |-> 1, quantity |-> 2],
               [id |-> 3, owner |-> 2, quantity |-> 1]}}
OldProfiles == {{}, {[id |-> 1, owner |-> 0]},
                {[id |-> 1, owner |-> 1], [id |-> 2, owner |-> 1]}}

(* Databases of a version without the indexes: single-user ones, those of   *)
(* two accounts. *)
OldDatabases ==
  {[users |-> users, holdings |-> holdings, profiles |-> profiles, unique |-> FALSE,
    uniqueProfiles |-> FALSE, orphans |-> orphans] :
     users \in {{}, {1}, {1, 2}}, holdings \in Positions, profiles \in OldProfiles,
     orphans \in {{}, {"transactions", "alerts", "advices", "targets"}}}
Consistent(db) == \A r \in db.holdings \union db.profiles : r.owner \in db.users \union {0}
LegacyDatabases == {Empty} \union {db \in OldDatabases : Consistent(db)}
=============================================================================
