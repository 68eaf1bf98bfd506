---------------------------- MODULE DbEncryption ----------------------------
(***************************************************************************)
(* How backend/database.py brings the database file to the encryption that *)
(* DB_KEY asks for before the engine is used: ensure_db_encryption, the    *)
(* migration of a plaintext file, and the pre-flight of init_db, run by    *)
(* starting processes that may be killed at any step, with power losses    *)
(* that forget what was not synced, and the operator's repair.             *)
(*                                                                         *)
(* A file is its inode, so that a process that has it open follows it      *)
(* through renames, as SQLite and flock do.  The directory gives the names *)
(* that matter; a WAL is named apart from its database file because the    *)
(* migration renames the two in two steps.                                 *)
(***************************************************************************)
EXTENDS Naturals

CONSTANTS
  Procs,       \* processes of the backend started over the file
  OldServers,  \* those that already serve, without a key, at the beginning
  Inodes,      \* bound: the files that may ever exist
  Original,    \* the file of the database found at the beginning
  Rows,        \* rows that may be committed
  MaxStarts,   \* bound: how many starts there are
  None

ASSUME OldServersAssumption == OldServers \subseteq Procs
ASSUME FilesAssumption == Original \in Inodes
ASSUME NoneAssumption == None \notin Inodes \cup Procs
ASSUME StartsAssumption == MaxStarts \in Nat

VARIABLES
  dir,        \* the names: db, the WAL beside it, exports, backups and their WALs
  past,       \* what a power loss may leave of dir: since its last fsync
  file,       \* file[i]: what is in file i, and whether an export was synced
  wal,        \* wal[i]: the rows in the WAL of file i
  committed,  \* the rows some process was told are committed
  pc, key,    \* where process p is in its start; whether it has DB_KEY
  open,       \* open[p]: the file p has open, for flock or for serving
  source,     \* source[p]: the plaintext file p exports
  export,     \* export[p]: the encrypted copy p made
  snap,       \* snap[p]: the rows of snapshot_before
  flock,      \* flock[i]: the process that holds the lock of file i
  starts

diskVars == <<dir, past, file, wal>>
migrationVars == <<source, export, snap>>
procVars == <<pc, key, open, migrationVars, flock>>
vars == <<diskVars, committed, procVars, starts>>

Directory == [db : Inodes \cup {None}, dbWal : Inodes \cup {None},
              tmp : SUBSET Inodes, bak : SUBSET Inodes, bakWal : SUBSET Inodes]

Contents == [kind : {"none", "empty", "plain", "cipher", "torn"},
             rows : SUBSET Rows, synced : BOOLEAN]

Labels == {"down", "refused", "detect", "orphans", "open", "flock", "recheck",
           "converge", "snapshot", "export", "verify", "sync", "swapOut",
           "swapWal", "swapIn", "settle", "connect", "serve"}

\* One file has one name among db, exports and backups.
OneNameEach(d) ==
  /\ d.db \notin d.tmp \cup d.bak
  /\ d.tmp \cap d.bak = {}
  /\ d.dbWal \notin d.bakWal

EncryptTypeOK ==
  /\ dir \in Directory /\ past \in SUBSET Directory /\ dir \in past
  /\ OneNameEach(dir)
  /\ file \in [Inodes -> Contents]
  /\ wal \in [Inodes -> SUBSET Rows]
  /\ committed \in SUBSET Rows
  /\ pc \in [Procs -> Labels]
  /\ key \in [Procs -> BOOLEAN]
  /\ open \in [Procs -> Inodes \cup {None}]
  /\ source \in [Procs -> Inodes \cup {None}]
  /\ export \in [Procs -> Inodes \cup {None}]
  /\ snap \in [Procs -> SUBSET Rows]
  /\ flock \in [Inodes -> Procs \cup {None}]
  /\ starts \in 0..MaxStarts

-----------------------------------------------------------------------------
(* The disk                                                                *)

NoFile == [kind |-> "none", rows |-> {}, synced |-> FALSE]
Fresh(k) == [kind |-> k, rows |-> {}, synced |-> TRUE]
Unused == {i \in Inodes : file[i].kind = "none"}

\* What a connection that has file i open sees.
Content(i) == file[i].rows \cup wal[i]

\* What SQLite finds when it opens file i by the name db.
AtMain(i) == file[i].rows \cup (IF dir.dbWal = i THEN wal[i] ELSE {})

\* detect_db_state: anything that is not empty and not SQLite is encrypted.
Detected ==
  CASE dir.db = None -> "missing"
    [] dir.db # None /\ file[dir.db].kind = "empty" -> "empty"
    [] dir.db # None /\ file[dir.db].kind = "plain" -> "plaintext"
    [] OTHER -> "encrypted"

\* _find_orphans; a backup's WAL matches the pattern of the backups.
Orphans == dir.tmp \cup dir.bak \cup dir.bakWal

\* Names change in memory first; an fsync of the directory makes them last.
Rename(d) == dir' = d /\ past' = past \cup {d}
RenameAndSync(d) == dir' = d /\ past' = {d}

-----------------------------------------------------------------------------
(* The processes                                                           *)

Running(p) == pc[p] \notin {"down", "refused"}
Goto(p, l) == pc' = [pc EXCEPT ![p] = l]
GoOn(p, l) == Goto(p, l) /\ UNCHANGED <<key, open, migrationVars, flock>>
Unlocked(p) == [i \in Inodes |-> IF flock[i] = p THEN None ELSE flock[i]]

\* The end of the migration's frame: its connections and lock_fd are closed.
LeaveMigration(p, l) ==
  /\ Goto(p, l)
  /\ open' = [open EXCEPT ![p] = None]
  /\ source' = [source EXCEPT ![p] = None]
  /\ export' = [export EXCEPT ![p] = None]
  /\ snap' = [snap EXCEPT ![p] = {}]
  /\ flock' = Unlocked(p)

\* The process ends: killed, or by an error that main.py raises again.
Exit(p, l) == LeaveMigration(p, l) /\ key' = [key EXCEPT ![p] = FALSE]
Refuse(p) == Exit(p, "refused")

Init ==
  /\ \E main \in {None, Original}, base, logged \in SUBSET Rows :
       /\ OldServers # {} => main = Original
       /\ main = None => base = {} /\ logged = {}
       /\ base \cap logged = {}
       /\ dir = [db |-> main, tmp |-> {}, bak |-> {}, bakWal |-> {},
                 dbWal |-> IF logged # {} \/ OldServers # {} THEN main ELSE None]
       /\ file = [i \in Inodes |-> IF i = main
                    THEN [kind |-> "plain", rows |-> base, synced |-> TRUE] ELSE NoFile]
       /\ wal = [i \in Inodes |-> IF i = main THEN logged ELSE {}]
       /\ committed = base \cup logged
  /\ past = {dir}
  /\ pc = [p \in Procs |-> IF p \in OldServers THEN "serve" ELSE "down"]
  /\ open = [p \in Procs |-> IF p \in OldServers THEN Original ELSE None]
  /\ key = [p \in Procs |-> FALSE]
  /\ source = [p \in Procs |-> None] /\ export = [p \in Procs |-> None]
  /\ snap = [p \in Procs |-> {}]
  /\ flock = [i \in Inodes |-> None]
  /\ starts = 0

-----------------------------------------------------------------------------
(* ensure_db_encryption                                                    *)

\* The operator starts p, with or without DB_KEY.  Processes that are up
\* together all have it, but for the old servers.
Start(p) ==
  /\ ~Running(p) /\ p \notin OldServers
  /\ starts < MaxStarts /\ starts' = starts + 1
  /\ \E k \in BOOLEAN :
       /\ \A q \in Procs : Running(q) => k /\ (key[q] \/ q \in OldServers)
       /\ key' = [key EXCEPT ![p] = k]
  /\ Goto(p, "detect")
  /\ UNCHANGED <<diskVars, committed, open, migrationVars, flock>>

Detect(p) ==
  /\ pc[p] = "detect"
  /\ \/ Detected \in {"missing", "empty"} /\ GoOn(p, "orphans")
     \/ Detected = "plaintext" /\ GoOn(p, IF key[p] THEN "open" ELSE "connect")
     \/ Detected = "encrypted" /\ key[p] /\ GoOn(p, "connect")
     \/ Detected = "encrypted" /\ ~key[p] /\ Refuse(p)
  /\ UNCHANGED <<diskVars, committed, starts>>

\* Mutant: remains of a migration are not looked for.
CheckOrphansNever(p) ==
  /\ pc[p] = "orphans" /\ GoOn(p, "connect")
  /\ UNCHANGED <<diskVars, committed, starts>>

\* Never a fresh database over the remains of an interrupted migration.
CheckOrphans(p) ==
  /\ pc[p] = "orphans"
  /\ \/ Orphans # {} /\ Refuse(p)
     \/ Orphans = {} /\ GoOn(p, "connect")
  /\ UNCHANGED <<diskVars, committed, starts>>

\* migrate_plaintext_to_encrypted opens the file by its name ...
OpenForLock(p) ==
  /\ pc[p] = "open"
  /\ \/ Refuse(p)  \* no such file, or it cannot be opened
     \/ /\ dir.db # None /\ open' = [open EXCEPT ![p] = dir.db] /\ Goto(p, "flock")
        /\ UNCHANGED <<key, migrationVars, flock>>
  /\ UNCHANGED <<diskVars, committed, starts>>

\* ... and locks that file, whatever its name is by then.
Flock(p) ==
  /\ pc[p] = "flock" /\ flock[open[p]] = None
  /\ flock' = [flock EXCEPT ![open[p]] = p]
  /\ Goto(p, "recheck")
  /\ UNCHANGED <<diskVars, committed, key, open, migrationVars, starts>>

\* Mutant: the state is not read again under the lock.
RecheckNever(p) ==
  /\ pc[p] = "recheck" /\ GoOn(p, "snapshot")
  /\ UNCHANGED <<diskVars, committed, starts>>

\* The state is read again under the lock.
Recheck(p) ==
  /\ pc[p] = "recheck"
  /\ \/ /\ Detected = "plaintext" /\ Goto(p, "snapshot")
        /\ UNCHANGED <<open, migrationVars, flock>>
     \/ Detected # "plaintext" /\ LeaveMigration(p, "converge")
  /\ UNCHANGED <<diskVars, committed, key, starts>>

\* After "non e' plaintext" the caller looks a third time, without the lock.
Converge(p) ==
  /\ pc[p] = "converge"
  /\ \/ /\ Detected = "encrypted" /\ Goto(p, "connect")
        /\ UNCHANGED <<key, open, migrationVars, flock>>
     \/ Detected # "encrypted" /\ Refuse(p)
  /\ UNCHANGED <<diskVars, committed, starts>>

-----------------------------------------------------------------------------
(* migrate_plaintext_to_encrypted under the lock                           *)

\* No server has file i open: SQLite can truncate its WAL.
Sole(i) == \A q \in Procs : pc[q] = "serve" => open[q] # i

\* The file after PRAGMA wal_checkpoint, or a new one.
Checkpointed(i, done) ==
  IF dir.db = None THEN Fresh("empty")
  ELSE [file[i] EXCEPT !.rows = IF done THEN AtMain(i) ELSE @]

\* sqlcipher3.connect by name (it would create a missing file), checkpoint
\* (its result is not looked at: a server that reads may keep it from
\* completing), snapshot_before.
Snapshot(p) ==
  /\ pc[p] = "snapshot" /\ Detected # "encrypted"
  /\ \E i \in (IF dir.db = None THEN Unused ELSE {dir.db}), done \in BOOLEAN :
       /\ done \/ ~Sole(i)
       /\ source' = [source EXCEPT ![p] = i]
       /\ snap' = [snap EXCEPT ![p] = AtMain(i)]
       /\ file' = [file EXCEPT ![i] = Checkpointed(i, done)]
       /\ wal' = IF done /\ dir.dbWal = i THEN [wal EXCEPT ![i] = {}] ELSE wal
       /\ Rename([dir EXCEPT !.db = i])
  /\ Goto(p, "export")
  /\ UNCHANGED <<committed, key, open, export, flock, starts>>

\* src.close(): the last connection empties the WAL and removes it.
LastClose(p) == source[p] # None /\ Sole(source[p])
FilesAfterClose(p, f) ==
  IF LastClose(p) THEN [f EXCEPT ![source[p]].rows = Content(source[p])] ELSE f
WalAfterClose(p) == IF LastClose(p) THEN [wal EXCEPT ![source[p]] = {}] ELSE wal
NamesAfterClose(p, d) ==
  IF LastClose(p) /\ d.dbWal = source[p] THEN [d EXCEPT !.dbWal = None] ELSE d

\* sqlcipher_export in a read of its own, DETACH, src.close().  What the
\* library copies is not trusted, hence the verification.
Export(p) ==
  /\ pc[p] = "export"
  /\ \E t \in Unused, got \in SUBSET Content(source[p]) :
       /\ export' = [export EXCEPT ![p] = t]
       /\ file' = FilesAfterClose(p, [file EXCEPT
                    ![t] = [kind |-> "cipher", rows |-> got, synced |-> FALSE]])
       /\ Rename(NamesAfterClose(p, [dir EXCEPT !.tmp = @ \cup {t}]))
  /\ wal' = WalAfterClose(p)
  /\ Goto(p, "verify")
  /\ UNCHANGED <<committed, key, open, source, snap, flock, starts>>

\* An error up to here removes the export, if that succeeds.
ExportFails(p) ==
  /\ pc[p] \in {"snapshot", "export"}
  /\ \/ /\ file' = FilesAfterClose(p, file)
        /\ Rename(NamesAfterClose(p, dir))
     \/ \E t \in Unused :
          /\ file' = FilesAfterClose(p, [file EXCEPT ![t] = Fresh("torn")])
          /\ Rename(NamesAfterClose(p, [dir EXCEPT !.tmp = @ \cup {t}]))
  /\ wal' = WalAfterClose(p)
  /\ Refuse(p)
  /\ UNCHANGED <<committed, starts>>

\* snapshot_after = snapshot_before.
Verify(p) ==
  /\ pc[p] = "verify" /\ file[export[p]].rows = snap[p]
  /\ GoOn(p, "sync")
  /\ UNCHANGED <<diskVars, committed, starts>>

\* A difference, or an error of the verification, chmod or fsync: the export
\* is removed, if that succeeds.
GiveUp(p) ==
  /\ pc[p] \in {"verify", "sync"}
  /\ \/ Rename([dir EXCEPT !.tmp = @ \ {export[p]}])
     \/ UNCHANGED <<dir, past>>
  /\ Refuse(p)
  /\ UNCHANGED <<file, wal, committed, starts>>

\* Durable before the originals are touched: fsync of the export and of the
\* directory.
Sync(p) ==
  /\ pc[p] = "sync"
  /\ file' = [file EXCEPT ![export[p]].synced = TRUE]
  /\ past' = {dir}
  /\ GoOn(p, "swapOut")
  /\ UNCHANGED <<dir, wal, committed, starts>>

\* Mutant: the database is copied to the backup's name and left in place.
SwapOutCopy(p) ==
  /\ pc[p] = "swapOut"
  /\ Rename([dir EXCEPT !.bak = @ \cup ({dir.db} \ {None})])
  /\ GoOn(p, "swapWal")
  /\ UNCHANGED <<file, wal, committed, starts>>

\* Mutant: the original is deleted instead of kept as a backup.
SwapOutDelete(p) ==
  /\ pc[p] = "swapOut"
  /\ Rename([dir EXCEPT !.db = None])
  /\ GoOn(p, "swapWal")
  /\ UNCHANGED <<file, wal, committed, starts>>

\* The swap: the database and its WAL become the backup ...
SwapOut(p) ==
  /\ pc[p] = "swapOut"
  /\ IF dir.db = None THEN UNCHANGED <<dir, past>>
     ELSE Rename([dir EXCEPT !.db = None, !.bak = @ \cup {dir.db}])
  /\ GoOn(p, "swapWal")
  /\ UNCHANGED <<file, wal, committed, starts>>

\* Mutant: the WAL is deleted as a leftover of the checkpoint.
SwapWalDelete(p) ==
  /\ pc[p] = "swapWal"
  /\ Rename([dir EXCEPT !.dbWal = None])
  /\ GoOn(p, "swapIn")
  /\ UNCHANGED <<file, wal, committed, starts>>

\* Mutant: only the database is moved.
SwapWalSkip(p) ==
  /\ pc[p] = "swapWal" /\ GoOn(p, "swapIn")
  /\ UNCHANGED <<diskVars, committed, starts>>

SwapWal(p) ==
  /\ pc[p] = "swapWal"
  /\ IF dir.dbWal = None THEN UNCHANGED <<dir, past>>
     ELSE Rename([dir EXCEPT !.dbWal = None, !.bakWal = @ \cup {dir.dbWal}])
  /\ GoOn(p, "swapIn")
  /\ UNCHANGED <<file, wal, committed, starts>>

\* ... and one os.replace puts the export in their place.
SwapIn(p) ==
  /\ pc[p] = "swapIn"
  /\ Rename([dir EXCEPT !.db = export[p], !.tmp = @ \ {export[p]}])
  /\ GoOn(p, "settle")
  /\ UNCHANGED <<file, wal, committed, starts>>

\* Mutant: the way out forgets LOCK_UN and lock_fd.
SettleHoldingLock(p) ==
  /\ pc[p] = "settle"
  /\ past' = {dir}
  /\ GoOn(p, "connect")
  /\ UNCHANGED <<dir, file, wal, committed, starts>>

\* fsync of the directory, chmod, LOCK_UN.  A chmod that fails ends the start
\* with the swap done.
Settle(p) ==
  /\ pc[p] = "settle"
  /\ past' = {dir}
  /\ \/ LeaveMigration(p, "connect") /\ UNCHANGED key
     \/ Refuse(p)
  /\ UNCHANGED <<dir, file, wal, committed, starts>>

\* An OSError during the swap undoes nothing.
SwapFails(p) ==
  /\ pc[p] \in {"swapOut", "swapWal", "swapIn", "settle"}
  /\ Refuse(p)
  /\ UNCHANGED <<diskVars, committed, starts>>

-----------------------------------------------------------------------------
(* init_db's first connections, and the server                             *)

\* A missing or an empty file becomes the database.  A file of the other kind
\* is "not a database", as it is with a wrong key; any error ends the start.
Connect(p) ==
  /\ pc[p] = "connect"
  /\ LET kind == IF key[p] THEN "cipher" ELSE "plain"
     IN \E i \in (IF dir.db = None THEN Unused ELSE {dir.db}) :
          /\ dir.db # None => file[i].kind \in {kind, "empty"}
          /\ file' = [file EXCEPT ![i] = IF @.kind = kind THEN @ ELSE Fresh(kind)]
          /\ RenameAndSync([dir EXCEPT !.db = i, !.dbWal = IF key[p] THEN @ ELSE i])
          /\ Goto(p, "serve") /\ open' = [open EXCEPT ![p] = i]
  /\ UNCHANGED <<wal, committed, key, migrationVars, flock, starts>>

ConnectFails(p) ==
  /\ pc[p] = "connect" /\ Refuse(p)
  /\ UNCHANGED <<diskVars, committed, starts>>

\* A server commits to the file it has open, by whatever name.
CommitRow(p) ==
  /\ pc[p] = "serve"
  /\ \E r \in Rows \ committed :
       /\ committed' = committed \cup {r}
       /\ IF file[open[p]].kind = "plain"
          THEN wal' = [wal EXCEPT ![open[p]] = @ \cup {r}] /\ UNCHANGED file
          ELSE file' = [file EXCEPT ![open[p]].rows = @ \cup {r}] /\ UNCHANGED wal
  /\ UNCHANGED <<dir, past, procVars, starts>>

Kill(p) ==
  /\ Running(p) /\ Exit(p, "down")
  /\ UNCHANGED <<diskVars, committed, starts>>

\* Everything stops.  Of the directory what a state since its last fsync
\* held is left; an export that was not synced may be torn, empty or whole.
PowerLoss ==
  /\ \E d \in past : dir' = d /\ past' = {d}
  /\ LET unsynced == {i \in Inodes : file[i].kind = "cipher" /\ ~file[i].synced}
     IN \E left \in [unsynced -> {"cipher", "empty", "torn"}] :
          file' = [i \in Inodes |->
            IF i \notin unsynced THEN file[i]
            ELSE IF left[i] = "cipher" THEN [file[i] EXCEPT !.synced = TRUE]
            ELSE Fresh(left[i])]
  /\ pc' = [p \in Procs |-> "down"]
  /\ key' = [p \in Procs |-> FALSE]
  /\ open' = [p \in Procs |-> None]
  /\ source' = [p \in Procs |-> None] /\ export' = [p \in Procs |-> None]
  /\ snap' = [p \in Procs |-> {}]
  /\ flock' = [i \in Inodes |-> None]
  /\ UNCHANGED <<wal, committed, starts>>

\* What the error tells the operator to do before the next start: the backup
\* goes back to the original names, exports are removed.
Restore ==
  /\ \A p \in Procs : ~Running(p)
  /\ Detected \in {"missing", "empty"}
  /\ \E i \in dir.bak :
       Rename([db |-> i, dbWal |-> IF i \in dir.bakWal THEN i ELSE dir.dbWal,
               tmp |-> {}, bak |-> dir.bak \ {i}, bakWal |-> dir.bakWal \ {i}])
  /\ UNCHANGED <<file, wal, committed, procVars, starts>>

\* After a migration that was logged as complete the backup may go; where an
\* old server wrote on, it holds rows of its own and is kept.
Archive ==
  /\ OldServers = {} /\ \E p \in Procs : pc[p] = "serve" /\ key[p]
  /\ dir.bak # {}
  /\ Rename([dir EXCEPT !.bak = {}, !.bakWal = {}])
  /\ UNCHANGED <<file, wal, committed, procVars, starts>>

-----------------------------------------------------------------------------
Ensure(p) == Detect(p) \/ CheckOrphans(p) \/ OpenForLock(p) \/ Flock(p) \/
             Recheck(p) \/ Converge(p)
Prepare(p) == Snapshot(p) \/ Export(p) \/ ExportFails(p) \/ Verify(p) \/ GiveUp(p) \/ Sync(p)
Swap(p) == SwapOut(p) \/ SwapWal(p) \/ SwapIn(p) \/ Settle(p) \/ SwapFails(p)
Starting(p) == Ensure(p) \/ Prepare(p) \/ Swap(p) \/ Connect(p) \/ ConnectFails(p)

Next ==
  \/ \E p \in Procs : Start(p) \/ Starting(p) \/ CommitRow(p) \/ Kill(p)
  \/ PowerLoss \/ Restore \/ Archive

Spec == Init /\ [][Next]_vars

\* A process that runs goes on; the kernel gives a lock that is free.
Fairness == \A p \in Procs : WF_vars(Starting(p))
FairSpec == Spec /\ Fairness

-----------------------------------------------------------------------------
(* Properties                                                              *)

\* Whatever was killed or lost, a file under the database's name is a
\* database with every committed row in it (or the name is free).
MainIsWhole ==
  dir.db # None => /\ file[dir.db].kind \in {"plain", "cipher"}
                   /\ committed \subseteq AtMain(dir.db)

\* When the name is free although rows were committed, some backup, with the
\* WAL that Restore will put beside it, has them all.
BackupIsWhole ==
  dir.db = None /\ committed # {} =>
    \E i \in dir.bak :
      committed \subseteq file[i].rows \cup (IF i \in dir.bakWal \cup {dir.dbWal}
                                             THEN wal[i] ELSE {})

\* One process at a time is between the second look at the file and the end
\* of the swap, although each file has a lock of its own and files are renamed.
Migrating(p) == pc[p] \in {"snapshot", "export", "verify", "sync", "swapOut",
                           "swapWal", "swapIn", "settle"}
OneMigrator == \A p, q \in Procs : Migrating(p) /\ Migrating(q) => p = q

\* Even when a server still writes the old file, each committed row stays in
\* some file that has a name: the database, a backup, or a WAL of theirs.
NothingDestroyed ==
  \A r \in committed :
    \/ \E i \in ({dir.db} \cup dir.bak) \ {None} : r \in file[i].rows
    \/ \E i \in ({dir.dbWal} \cup dir.bakWal) \ {None} : r \in wal[i]

\* The database never stands beside the WAL of another file, which SQLite
\* would replay into it.
NoForeignWal == dir.db # None /\ dir.dbWal # None => dir.dbWal = dir.db

\* A start ends: it serves, refuses, or is killed.
StartEnds ==
  \A p \in Procs : pc[p] \in Labels \ {"down", "refused", "serve"} ~>
                   pc[p] \in {"down", "refused", "serve"}
=============================================================================
