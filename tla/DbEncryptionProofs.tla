------------------------- MODULE DbEncryptionProofs -------------------------
(***************************************************************************)
(* Theorems about DbEncryption, for every number of processes, files, rows *)
(* and starts.  EncInv says who may migrate; DiskInv, which rests on it,   *)
(* says what the directory and the files hold, for the directory as it is  *)
(* and for each one that a power loss may leave.                           *)
(***************************************************************************)
EXTENDS DbEncryption, TLAPS

File == Inodes \cup {None}

TypeInv ==
  /\ dir \in Directory /\ past \in SUBSET Directory
  /\ file \in [Inodes -> Contents] /\ wal \in [Inodes -> SUBSET Rows]
  /\ committed \in SUBSET Rows
  /\ pc \in [Procs -> Labels] /\ key \in [Procs -> BOOLEAN]
  /\ open \in [Procs -> File] /\ source \in [Procs -> File] /\ export \in [Procs -> File]
  /\ snap \in [Procs -> SUBSET Rows]
  /\ flock \in [Inodes -> Procs \cup {None}]

(* Before the swap takes the plaintext away, and after. *)
Before == {"snapshot", "export", "verify", "sync", "swapOut"}
After == {"swapWal", "swapIn", "settle"}
KeyLabels == {"open", "flock", "recheck", "converge"} \cup Before \cup After

Plain == dir.db # None /\ file[dir.db].kind = "plain"

(* What a process may rely on.  Whoever opened the plaintext file to lock   *)
(* it has the file that is still plaintext under the name, if one is.       *)
Good(p) ==
  /\ p \in OldServers => pc[p] \in {"serve", "down"}
  /\ pc[p] \in KeyLabels => key[p]
  /\ pc[p] \in {"flock", "recheck", "serve"} \cup Before \cup After => open[p] \in Inodes
  /\ pc[p] \in {"flock", "recheck"} \cup Before /\ Plain => dir.db = open[p]
  /\ pc[p] \in {"recheck"} \cup Before \cup After => flock[open[p]] = p
  /\ pc[p] \in Before => Plain
  /\ pc[p] \in After => ~Plain
  /\ pc[p] = "export" => source[p] \in Inodes
  /\ pc[p] \in {"verify", "sync", "swapOut", "swapWal", "swapIn"} =>
       export[p] \in Inodes /\ file[export[p]].kind = "cipher"

(* Processes that are up together all have the key, but for old servers. *)
SameKey == \A p, q \in Procs :
  Running(p) /\ Running(q) /\ key[q] => key[p] \/ p \in OldServers

EncInv == TypeInv /\ (\A p \in Procs : Good(p)) /\ SameKey /\ OneMigrator

LEMMA MigratingIs == \A p : Migrating(p) <=> pc[p] \in Before \cup After
  BY DEF Migrating, Before, After

-----------------------------------------------------------------------------
(* The disk                                                                *)

LEMMA NewFile ==
  /\ NoFile \in Contents /\ NoFile.kind = "none"
  /\ \A k \in {"none", "empty", "plain", "cipher", "torn"} :
       Fresh(k) \in Contents /\ Fresh(k).kind = k
  BY DEF NoFile, Fresh, Contents

\* Writing rows to a file changes nothing else.
Written(f, i, rs) == [f EXCEPT ![i].rows = rs]

LEMMA RowsWritten ==
  ASSUME NEW f \in [Inodes -> Contents], NEW i \in Inodes, NEW rs \in SUBSET Rows
  PROVE  /\ Written(f, i, rs) \in [Inodes -> Contents]
         /\ \A j \in Inodes : Written(f, i, rs)[j].kind = f[j].kind
<1> DEFINE e == [f[i] EXCEPT !.rows = rs]
<1>1. e \in Contents /\ e.kind = f[i].kind
  BY DEF Contents
<1>2. Written(f, i, rs) = [f EXCEPT ![i] = e]
  BY DEF Written
<1> HIDE DEF e
<1> QED
  BY <1>1, <1>2

LEMMA ContentType ==
  ASSUME TypeInv, NEW i \in Inodes
  PROVE  Content(i) \in SUBSET Rows /\ AtMain(i) \in SUBSET Rows /\ file[i].rows \in SUBSET Rows
  BY DEF TypeInv, Content, AtMain, Contents

LEMMA AfterClose ==
  ASSUME TypeInv, NEW p \in Procs
  PROVE  /\ \A f \in [Inodes -> Contents] :
              /\ FilesAfterClose(p, f) \in [Inodes -> Contents]
              /\ \A i \in Inodes : FilesAfterClose(p, f)[i].kind = f[i].kind
         /\ WalAfterClose(p) \in [Inodes -> SUBSET Rows]
         /\ \A d \in Directory : NamesAfterClose(p, d) \in Directory
                                 /\ NamesAfterClose(p, d).db = d.db
<1>1. ASSUME LastClose(p) PROVE source[p] \in Inodes
  BY <1>1 DEF LastClose, TypeInv, File
<1>2. ASSUME NEW f \in [Inodes -> Contents]
      PROVE  /\ FilesAfterClose(p, f) \in [Inodes -> Contents]
             /\ \A i \in Inodes : FilesAfterClose(p, f)[i].kind = f[i].kind
  <2>1. CASE LastClose(p)
    <3>1. Content(source[p]) \in SUBSET Rows
      BY <1>1, <2>1, ContentType
    <3>2. FilesAfterClose(p, f) = Written(f, source[p], Content(source[p]))
      BY <2>1 DEF FilesAfterClose, Written
    <3> QED
      BY <1>1, <2>1, <3>1, <3>2, RowsWritten
  <2>2. CASE ~LastClose(p)
    BY <2>2 DEF FilesAfterClose
  <2> QED
    BY <2>1, <2>2
<1>3. WalAfterClose(p) \in [Inodes -> SUBSET Rows]
  BY DEF WalAfterClose, TypeInv
<1>4. ASSUME NEW d \in Directory
      PROVE  NamesAfterClose(p, d) \in Directory /\ NamesAfterClose(p, d).db = d.db
  BY DEF NamesAfterClose, Directory
<1> QED
  BY <1>2, <1>3, <1>4

-----------------------------------------------------------------------------
(* What the steps do to the disk: names and files keep their types; a file  *)
(* that is encrypted stays so.                                              *)

\* No file becomes plaintext or stops being so.
CalmFiles ==
  \A i \in Inodes : /\ file'[i].kind = "plain" <=> file[i].kind = "plain"
                    /\ file[i].kind = "cipher" => file'[i].kind = "cipher"

DiskType == /\ dir' \in Directory /\ past' \in SUBSET Directory
            /\ file' \in [Inodes -> Contents] /\ wal' \in [Inodes -> SUBSET Rows]
            /\ committed' \in SUBSET Rows

LEMMA SameDisk ==
  TypeInv /\ UNCHANGED <<diskVars, committed>> => DiskType /\ CalmFiles
  BY DEF TypeInv, diskVars, DiskType, CalmFiles

LEMMA SnapshotDisk ==
  ASSUME TypeInv, NEW p \in Procs, Snapshot(p)
  PROVE  /\ DiskType /\ CalmFiles
         /\ dir.db # None => dir'.db = dir.db
         /\ \E i \in Inodes, rs \in SUBSET Rows :
              source' = [source EXCEPT ![p] = i] /\ snap' = [snap EXCEPT ![p] = rs]
<1>1. PICK i \in (IF dir.db = None THEN Unused ELSE {dir.db}), done \in BOOLEAN :
        /\ source' = [source EXCEPT ![p] = i]
        /\ snap' = [snap EXCEPT ![p] = AtMain(i)]
        /\ file' = [file EXCEPT ![i] = Checkpointed(i, done)]
        /\ wal' = IF done /\ dir.dbWal = i THEN [wal EXCEPT ![i] = {}] ELSE wal
        /\ Rename([dir EXCEPT !.db = i])
        /\ committed' = committed
  BY DEF Snapshot
<1>2. i \in Inodes
  BY DEF Unused, TypeInv, Directory
<1>3. [dir EXCEPT !.db = i] \in Directory /\ [dir EXCEPT !.db = i].db = i
  BY <1>2 DEF TypeInv, Directory
<1>4. wal' \in [Inodes -> SUBSET Rows] /\ committed' \in SUBSET Rows
  BY <1>1 DEF TypeInv
<1>5. dir' \in Directory /\ past' \in SUBSET Directory /\ dir'.db = i
  BY <1>1, <1>3 DEF Rename, TypeInv
<1> DEFINE rs == IF done THEN AtMain(i) ELSE file[i].rows
<1>6. rs \in SUBSET Rows /\ AtMain(i) \in SUBSET Rows
  BY <1>2, ContentType
<1>7. CASE dir.db = None
  <2>1. file' = [file EXCEPT ![i] = Fresh("empty")] /\ file[i].kind = "none"
    BY <1>1, <1>7 DEF Unused, Checkpointed
  <2>2. file' \in [Inodes -> Contents] /\ CalmFiles
    BY <1>2, <2>1, NewFile DEF TypeInv, CalmFiles
  <2> QED
    BY <1>1, <1>2, <1>4, <1>5, <1>6, <1>7, <2>2 DEF DiskType
<1>8. CASE dir.db # None
  <2> DEFINE e == Checkpointed(i, done)
  <2>1. file' = [file EXCEPT ![i] = e]
    BY <1>1
  <2>2. e = [file[i] EXCEPT !.rows = rs]
    BY <1>8 DEF Checkpointed
  <2>3. file[i] \in Contents
    BY <1>2 DEF TypeInv
  <2> HIDE DEF rs, e
  <2>4. e \in Contents /\ e.kind = file[i].kind
    BY <1>6, <2>2, <2>3 DEF Contents
  <2>5. file' \in [Inodes -> Contents] /\ CalmFiles
    BY <1>2, <2>1, <2>4 DEF TypeInv, CalmFiles
  <2> QED
    BY <1>1, <1>2, <1>4, <1>5, <1>6, <1>8, <2>5 DEF DiskType
<1> QED
  BY <1>7, <1>8

LEMMA ExportDisk ==
  ASSUME TypeInv, NEW p \in Procs, Export(p), source[p] \in Inodes
  PROVE  /\ DiskType /\ CalmFiles /\ dir'.db = dir.db
         /\ \E t \in Inodes : export' = [export EXCEPT ![p] = t] /\ file'[t].kind = "cipher"
<1>1. PICK t \in Unused, got \in SUBSET Content(source[p]) :
        /\ export' = [export EXCEPT ![p] = t]
        /\ file' = FilesAfterClose(p, [file EXCEPT
                     ![t] = [kind |-> "cipher", rows |-> got, synced |-> FALSE]])
        /\ Rename(NamesAfterClose(p, [dir EXCEPT !.tmp = @ \cup {t}]))
        /\ wal' = WalAfterClose(p) /\ committed' = committed
  BY DEF Export
<1> DEFINE e == [kind |-> "cipher", rows |-> got, synced |-> FALSE]
           f == [file EXCEPT ![t] = e]
           d == [dir EXCEPT !.tmp = @ \cup {t}]
<1>2. t \in Inodes /\ file[t].kind = "none"
  BY DEF Unused
<1>3. e \in Contents /\ e.kind = "cipher"
  BY ContentType DEF Contents
<1>4. d \in Directory /\ d.db = dir.db
  BY <1>2 DEF TypeInv, Directory
<1> HIDE DEF e, d
<1>5. f \in [Inodes -> Contents] /\ f[t].kind = "cipher"
      /\ \A i \in Inodes : i # t => f[i].kind = file[i].kind
  BY <1>2, <1>3 DEF TypeInv
<1>6. file' = FilesAfterClose(p, f) /\ Rename(NamesAfterClose(p, d))
  BY <1>1 DEF d, e
<1> HIDE DEF f
<1>7. /\ file' \in [Inodes -> Contents] /\ file'[t].kind = "cipher"
      /\ \A i \in Inodes : i # t => file'[i].kind = file[i].kind
  BY <1>2, <1>5, <1>6, AfterClose
<1>8. dir' \in Directory /\ past' \in SUBSET Directory /\ dir'.db = dir.db
  BY <1>4, <1>6, AfterClose DEF Rename, TypeInv
<1>9. wal' \in [Inodes -> SUBSET Rows] /\ committed' \in SUBSET Rows
  BY <1>1, AfterClose DEF TypeInv
<1> QED
  BY <1>1, <1>2, <1>7, <1>8, <1>9 DEF DiskType, CalmFiles

LEMMA ExportFailsDisk ==
  ASSUME TypeInv, NEW p \in Procs, ExportFails(p)
  PROVE  DiskType /\ CalmFiles /\ dir'.db = dir.db
<1>1. wal' \in [Inodes -> SUBSET Rows] /\ committed' \in SUBSET Rows
  BY AfterClose DEF ExportFails, TypeInv
<1>2. CASE file' = FilesAfterClose(p, file) /\ Rename(NamesAfterClose(p, dir))
  <2>1. file' \in [Inodes -> Contents] /\ \A i \in Inodes : file'[i].kind = file[i].kind
    BY <1>2, AfterClose DEF TypeInv
  <2>2. dir' \in Directory /\ past' \in SUBSET Directory /\ dir'.db = dir.db
    BY <1>2, AfterClose DEF Rename, TypeInv
  <2> QED
    BY <1>1, <2>1, <2>2 DEF DiskType, CalmFiles
<1>3. ASSUME NEW t \in Unused,
             file' = FilesAfterClose(p, [file EXCEPT ![t] = Fresh("torn")]),
             Rename(NamesAfterClose(p, [dir EXCEPT !.tmp = @ \cup {t}]))
      PROVE  DiskType /\ CalmFiles /\ dir'.db = dir.db
  <2> DEFINE f == [file EXCEPT ![t] = Fresh("torn")]
             d == [dir EXCEPT !.tmp = @ \cup {t}]
  <2>1. t \in Inodes /\ file[t].kind = "none"
    BY DEF Unused
  <2>2. f \in [Inodes -> Contents] /\ f[t].kind = "torn"
        /\ \A i \in Inodes : i # t => f[i].kind = file[i].kind
    BY <2>1, NewFile DEF TypeInv
  <2>3. d \in Directory /\ d.db = dir.db
    BY <2>1 DEF TypeInv, Directory
  <2>4. file' = FilesAfterClose(p, f) /\ Rename(NamesAfterClose(p, d))
    BY <1>3
  <2> HIDE DEF f, d
  <2>5. /\ file' \in [Inodes -> Contents] /\ file'[t].kind = "torn"
        /\ \A i \in Inodes : i # t => file'[i].kind = file[i].kind
    BY <2>1, <2>2, <2>4, AfterClose
  <2>6. dir' \in Directory /\ past' \in SUBSET Directory /\ dir'.db = dir.db
    BY <2>3, <2>4, AfterClose DEF Rename, TypeInv
  <2> QED
    BY <1>1, <2>1, <2>5, <2>6 DEF DiskType, CalmFiles
<1> QED
  BY <1>2, <1>3 DEF ExportFails

LEMMA CommitDisk ==
  ASSUME TypeInv, NEW p \in Procs, CommitRow(p), open[p] \in Inodes
  PROVE  DiskType /\ CalmFiles /\ dir'.db = dir.db
<1>1. PICK r \in Rows \ committed :
        /\ committed' = committed \cup {r}
        /\ IF file[open[p]].kind = "plain"
           THEN wal' = [wal EXCEPT ![open[p]] = @ \cup {r}] /\ UNCHANGED file
           ELSE file' = [file EXCEPT ![open[p]].rows = @ \cup {r}] /\ UNCHANGED wal
        /\ UNCHANGED <<dir, past>>
  BY DEF CommitRow
<1>2. committed' \in SUBSET Rows /\ dir' \in Directory /\ past' \in SUBSET Directory
  BY <1>1 DEF TypeInv
<1>3. CASE file[open[p]].kind = "plain"
  BY <1>1, <1>2, <1>3 DEF TypeInv, DiskType, CalmFiles
<1>4. CASE file[open[p]].kind # "plain"
  <2> DEFINE rs == file[open[p]].rows \cup {r}
  <2>1. file' = Written(file, open[p], rs) /\ wal' = wal
    BY <1>1, <1>4 DEF Written
  <2>2. rs \in SUBSET Rows
    BY <1>1, ContentType
  <2> HIDE DEF rs
  <2>3. file' \in [Inodes -> Contents] /\ CalmFiles
    BY <2>1, <2>2, RowsWritten DEF TypeInv, CalmFiles
  <2> QED
    BY <1>1, <1>2, <2>1, <2>3 DEF TypeInv, DiskType
<1> QED
  BY <1>3, <1>4

LEMMA ConnectDisk ==
  ASSUME TypeInv, NEW p \in Procs, Connect(p)
  PROVE  /\ DiskType
         /\ open'[p] \in Inodes /\ open' = [open EXCEPT ![p] = open'[p]]
         /\ key[p] => /\ Plain' => Plain /\ dir'.db = dir.db
                      /\ Plain => Plain'
                      /\ \A i \in Inodes : file[i].kind = "cipher" => file'[i].kind = "cipher"
<1> DEFINE kind == IF key[p] THEN "cipher" ELSE "plain"
<1>1. PICK i \in (IF dir.db = None THEN Unused ELSE {dir.db}) :
        /\ dir.db # None => file[i].kind \in {kind, "empty"}
        /\ file' = [file EXCEPT ![i] = IF @.kind = kind THEN @ ELSE Fresh(kind)]
        /\ RenameAndSync([dir EXCEPT !.db = i, !.dbWal = IF key[p] THEN @ ELSE i])
        /\ open' = [open EXCEPT ![p] = i]
        /\ UNCHANGED <<wal, committed>>
  BY DEF Connect
<1> DEFINE e == IF file[i].kind = kind THEN file[i] ELSE Fresh(kind)
           w == IF key[p] THEN dir.dbWal ELSE i
           d == [dir EXCEPT !.db = i, !.dbWal = w]
<1>2. i \in Inodes /\ (dir.db = None => file[i].kind = "none")
  BY <1>1 DEF Unused, TypeInv, Directory
<1>3. kind \in {"cipher", "plain"} /\ (key[p] => kind = "cipher")
  OBVIOUS
<1>4. e \in Contents /\ e.kind = kind
  BY <1>2, <1>3, NewFile DEF TypeInv
<1>5. w \in Inodes \cup {None}
  BY <1>2 DEF TypeInv, Directory
<1>6. file' = [file EXCEPT ![i] = e] /\ RenameAndSync(d)
  BY <1>1
<1> HIDE DEF kind, e, w
<1>7. d \in Directory /\ d.db = i
  BY <1>2, <1>5 DEF TypeInv, Directory
<1> HIDE DEF d
<1>8. dir' \in Directory /\ past' \in SUBSET Directory /\ dir'.db = i
  BY <1>6, <1>7 DEF RenameAndSync
<1>9. /\ file' \in [Inodes -> Contents] /\ file'[i].kind = kind
      /\ \A j \in Inodes : j # i => file'[j].kind = file[j].kind
  BY <1>2, <1>4, <1>6 DEF TypeInv
<1>10. DiskType /\ open'[p] = i
  BY <1>1, <1>8, <1>9 DEF DiskType, TypeInv
<1>11. ASSUME key[p]
       PROVE  /\ Plain' => Plain /\ dir'.db = dir.db
              /\ Plain => Plain'
              /\ \A j \in Inodes : file[j].kind = "cipher" => file'[j].kind = "cipher"
  <2>1. ~Plain'
    BY <1>3, <1>8, <1>9, <1>11 DEF Plain
  <2>2. ~Plain
    BY <1>1, <1>2, <1>3, <1>11 DEF Plain
  <2> QED
    BY <1>2, <1>3, <1>9, <1>11, <2>1, <2>2
<1> QED
  BY <1>1, <1>2, <1>10, <1>11

-----------------------------------------------------------------------------
(* What the steps do to the processes                                      *)

ProcType == /\ pc' \in [Procs -> Labels] /\ key' \in [Procs -> BOOLEAN]
            /\ open' \in [Procs -> File] /\ source' \in [Procs -> File]
            /\ export' \in [Procs -> File] /\ snap' \in [Procs -> SUBSET Rows]
            /\ flock' \in [Inodes -> Procs \cup {None}]

\* The other processes stay where they are, with their locks.
Others(p) ==
  /\ \A q \in Procs : q # p => /\ pc'[q] = pc[q] /\ key'[q] = key[q] /\ open'[q] = open[q]
                               /\ source'[q] = source[q] /\ export'[q] = export[q]
  /\ \A q \in Procs, i \in Inodes : q # p /\ flock[i] = q => flock'[i] = q

LEMMA GoOnProc ==
  ASSUME TypeInv, NEW p \in Procs, NEW l \in Labels, GoOn(p, l)
  PROVE  /\ ProcType /\ Others(p) /\ pc'[p] = l
         /\ UNCHANGED <<key, open, source, export, flock>>
  BY DEF GoOn, Goto, TypeInv, ProcType, Others, migrationVars

LEMMA LeaveProc ==
  ASSUME TypeInv, NEW p \in Procs, NEW l \in Labels, LeaveMigration(p, l),
         key' = key \/ key' = [key EXCEPT ![p] = FALSE]
  PROVE  ProcType /\ Others(p) /\ pc'[p] = l
<1>1. flock' \in [Inodes -> Procs \cup {None}]
      /\ \A q \in Procs, i \in Inodes : q # p /\ flock[i] = q => flock'[i] = q
  BY DEF LeaveMigration, Unlocked, TypeInv
<1>2. /\ pc' \in [Procs -> Labels] /\ pc'[p] = l
      /\ open' \in [Procs -> File] /\ source' \in [Procs -> File]
      /\ export' \in [Procs -> File] /\ snap' \in [Procs -> SUBSET Rows]
  BY DEF LeaveMigration, Goto, TypeInv, File
<1>3. key' \in [Procs -> BOOLEAN]
  BY DEF TypeInv
<1> QED
  BY <1>1, <1>2, <1>3 DEF LeaveMigration, Goto, TypeInv, ProcType, Others

-----------------------------------------------------------------------------
(* A step of one process                                                   *)

LEMMA StepInv ==
  ASSUME EncInv, NEW p \in Procs, DiskType, ProcType, Others(p),
         \/ /\ Plain' => Plain /\ dir'.db = dir.db
            /\ Plain => Plain' \/ \A q \in Procs : q # p => pc[q] \notin Before
            /\ \A i \in Inodes : file[i].kind = "cipher" => file'[i].kind = "cipher"
         \/ \A q \in Procs : q # p => pc[q] \notin KeyLabels,
         Good(p)',
         \/ ~Running(p)'
         \/ Running(p) /\ key'[p] = key[p]
         \/ \A q \in Procs : q # p /\ Running(q) => key'[p] /\ (key[q] \/ q \in OldServers),
         Migrating(p)' => \A q \in Procs : q # p => ~Migrating(q)
  PROVE  EncInv'
<1>1. TypeInv'
  BY DEF TypeInv, DiskType, ProcType
<1>2. ASSUME NEW q \in Procs, q # p PROVE Good(q)'
  <2>1. Good(q) /\ open[q] \in File
    BY DEF EncInv, TypeInv
  <2>2. /\ pc'[q] = pc[q] /\ key'[q] = key[q] /\ open'[q] = open[q]
        /\ source'[q] = source[q] /\ export'[q] = export[q]
    BY <1>2 DEF Others
  <2>3. \A i \in Inodes : flock[i] = q => flock'[i] = q
    BY <1>2 DEF Others
  <2>4. CASE pc[q] \notin KeyLabels
    BY <2>1, <2>2, <2>4 DEF Good, KeyLabels, Before, After
  <2>5. CASE /\ Plain' => Plain /\ dir'.db = dir.db
             /\ Plain => Plain' \/ pc[q] \notin Before
             /\ \A i \in Inodes : file[i].kind = "cipher" => file'[i].kind = "cipher"
    BY <2>1, <2>2, <2>3, <2>5 DEF Good, KeyLabels, Before, After
  <2> QED
    BY <1>2, <2>4, <2>5
<1>3. SameKey'
  <2> SUFFICES ASSUME NEW q \in Procs, NEW r \in Procs, Running(q)', Running(r)', key'[r]
               PROVE  key'[q] \/ q \in OldServers
    BY DEF SameKey
  <2>1. \A s \in Procs : s # p => /\ Running(s)' <=> Running(s)
                                  /\ key'[s] = key[s]
    BY DEF Others, Running
  <2> QED
    BY <2>1 DEF EncInv, SameKey
<1>4. OneMigrator'
  <2>1. \A s \in Procs : s # p => (Migrating(s)' <=> Migrating(s))
    BY DEF Others, Migrating
  <2> QED
    BY <2>1 DEF EncInv, OneMigrator
<1> QED
  BY <1>1, <1>2, <1>3, <1>4 DEF EncInv

\* A step that leaves the plaintext and the encrypted files as they are.
LEMMA CalmPlain ==
  ASSUME TypeInv, CalmFiles, dir'.db = dir.db
  PROVE  /\ Plain' <=> Plain
         /\ \A i \in Inodes : file[i].kind = "cipher" => file'[i].kind = "cipher"
<1>1. dir.db \in Inodes \cup {None}
  BY DEF TypeInv, Directory
<1> QED
  BY <1>1 DEF CalmFiles, Plain

LEMMA CalmStep ==
  ASSUME EncInv, NEW p \in Procs, DiskType, CalmFiles, dir'.db = dir.db, ProcType, Others(p),
         Good(p)',
         \/ ~Running(p)'
         \/ Running(p) /\ key'[p] = key[p]
         \/ \A q \in Procs : q # p /\ Running(q) => key'[p] /\ (key[q] \/ q \in OldServers),
         Migrating(p)' => \A q \in Procs : q # p => ~Migrating(q)
  PROVE  EncInv'
  BY CalmPlain, StepInv DEF EncInv

\* The process ends, or goes back to work without the lock.
LEMMA LeaveStep ==
  ASSUME EncInv, NEW p \in Procs, NEW l \in {"down", "refused", "converge", "connect"},
         LeaveMigration(p, l), DiskType, CalmFiles, dir'.db = dir.db,
         \/ l \in {"down", "refused"} /\ key' = [key EXCEPT ![p] = FALSE]
         \/ l \in {"converge", "connect"} /\ key' = key /\ key[p],
         p \in OldServers => l = "down",
         Running(p)
  PROVE  EncInv'
<1>1. l \in Labels
  BY DEF Labels
<1>2. ProcType /\ Others(p) /\ pc'[p] = l
  BY <1>1, LeaveProc DEF EncInv
<1>3. Good(p)'
  BY <1>2 DEF Good, KeyLabels, Before, After
<1>4. ~Running(p)' \/ (Running(p) /\ key'[p] = key[p])
  BY <1>2 DEF Running
<1>5. ~Migrating(p)'
  BY <1>2 DEF Migrating
<1> QED
  BY <1>2, <1>3, <1>4, <1>5, CalmStep

LEMMA RefuseStep ==
  ASSUME EncInv, NEW p \in Procs, Refuse(p), DiskType, CalmFiles, dir'.db = dir.db,
         Running(p), pc[p] # "serve"
  PROVE  EncInv'
<1>1. p \notin OldServers
  BY DEF EncInv, Good, Running
<1> QED
  BY <1>1, LeaveStep DEF Refuse, Exit

LEMMA SameDiskStep ==
  ASSUME EncInv, UNCHANGED <<diskVars, committed>>
  PROVE  DiskType /\ CalmFiles /\ dir'.db = dir.db
  BY SameDisk DEF EncInv, diskVars

-----------------------------------------------------------------------------
(* The steps                                                               *)

LEMMA StartKeeps == ASSUME EncInv, NEW p \in Procs, Start(p) PROVE EncInv'
<1>1. DiskType /\ CalmFiles /\ dir'.db = dir.db
  BY SameDiskStep DEF Start
<1>2. PICK k \in BOOLEAN :
        /\ \A q \in Procs : Running(q) => k /\ (key[q] \/ q \in OldServers)
        /\ key' = [key EXCEPT ![p] = k]
  BY DEF Start
<1>3. ProcType /\ Others(p) /\ pc'[p] = "detect" /\ key'[p] = k
  BY <1>2 DEF Start, Goto, EncInv, TypeInv, ProcType, Others, Labels, migrationVars
<1>4. Good(p)'
  BY <1>3 DEF Start, Good, KeyLabels, Before, After
<1>5. ~Migrating(p)'
  BY <1>3 DEF Migrating
<1> QED
  BY <1>1, <1>2, <1>3, <1>4, <1>5, CalmStep

\* A step of p that only moves on.
LEMMA MoveStep ==
  ASSUME EncInv, NEW p \in Procs, NEW l \in Labels, GoOn(p, l), Running(p), p \notin OldServers,
         DiskType, CalmFiles, dir'.db = dir.db,
         l \in {"open", "orphans", "connect"},
         l = "open" => key[p]
  PROVE  EncInv'
<1>1. ProcType /\ Others(p) /\ pc'[p] = l /\ UNCHANGED <<key, open, source, export, flock>>
  BY GoOnProc DEF EncInv
<1>2. Good(p)'
  BY <1>1 DEF Good, KeyLabels, Before, After
<1>3. ~Migrating(p)'
  BY <1>1 DEF Migrating
<1> QED
  BY <1>1, <1>2, <1>3, CalmStep

LEMMA EnsureKeeps == ASSUME EncInv, NEW p \in Procs, Ensure(p) PROVE EncInv'
<1>0. /\ DiskType /\ CalmFiles /\ dir'.db = dir.db
      /\ {"open", "orphans", "connect", "flock", "recheck", "snapshot"} \subseteq Labels
  BY SameDiskStep DEF Ensure, Detect, CheckOrphans, OpenForLock, Flock, Recheck, Converge, Labels
<1>1. Good(p) /\ TypeInv
  BY DEF EncInv
<1>2. Running(p) /\ pc[p] # "serve" /\ p \notin OldServers
  BY <1>1 DEF Good, Ensure, Detect, CheckOrphans, OpenForLock, Flock, Recheck, Converge, Running
<1>3. CASE Detect(p)
  <2>1. \/ GoOn(p, "orphans")
        \/ GoOn(p, "connect")
        \/ GoOn(p, "open") /\ key[p]
        \/ Refuse(p)
    BY <1>3 DEF Detect
  <2> QED
    BY <1>0, <1>2, <2>1, MoveStep, RefuseStep
<1>4. CASE CheckOrphans(p)
  BY <1>0, <1>2, <1>4, MoveStep, RefuseStep DEF CheckOrphans
<1>5. CASE OpenForLock(p)
  <2>1. CASE Refuse(p)
    BY <1>0, <1>2, <2>1, RefuseStep
  <2>2. CASE /\ dir.db # None /\ open' = [open EXCEPT ![p] = dir.db] /\ Goto(p, "flock")
             /\ UNCHANGED <<key, migrationVars, flock>>
    <3>1. dir.db \in Inodes
      BY <1>1, <2>2 DEF TypeInv, Directory
    <3>2. ProcType /\ Others(p) /\ pc'[p] = "flock" /\ open'[p] = dir.db /\ key'[p] = key[p]
      BY <1>0, <1>1, <2>2, <3>1 DEF Goto, TypeInv, ProcType, Others, migrationVars, File
    <3>3. Good(p)'
      BY <1>0, <1>1, <1>2, <1>5, <3>1, <3>2 DEF OpenForLock, Good, KeyLabels, Before, After
    <3>4. ~Migrating(p)'
      BY <3>2 DEF Migrating
    <3> QED
      BY <1>0, <1>2, <3>2, <3>3, <3>4, CalmStep
  <2> QED
    BY <1>5, <2>1, <2>2 DEF OpenForLock
<1>6. CASE Flock(p)
  <2>1. open[p] \in Inodes /\ pc[p] = "flock"
    BY <1>1, <1>6 DEF Flock, Good
  <2>2. /\ ProcType /\ Others(p) /\ pc'[p] = "recheck" /\ flock'[open[p]] = p
        /\ UNCHANGED <<key, open, source, export>>
    BY <1>0, <1>1, <1>6, <2>1, NoneAssumption
    DEF Flock, Goto, TypeInv, ProcType, Others, migrationVars
  <2>3. Plain' <=> Plain
    BY <1>0, <1>1, CalmPlain
  <2>4. Good(p)'
    BY <1>0, <1>1, <1>2, <2>1, <2>2, <2>3 DEF Good, KeyLabels, Before, After
  <2>5. ~Migrating(p)'
    BY <2>2 DEF Migrating
  <2> QED
    BY <1>0, <1>2, <2>2, <2>4, <2>5, CalmStep
<1>7. CASE Recheck(p)
  <2>1. CASE LeaveMigration(p, "converge")
    <3>1. key' = key /\ key[p]
      BY <1>1, <1>7 DEF Recheck, Good, KeyLabels
    <3> QED
      BY <1>0, <1>2, <2>1, <3>1, LeaveStep
  <2>2. CASE /\ Detected = "plaintext" /\ Goto(p, "snapshot")
             /\ UNCHANGED <<open, migrationVars, flock>>
    <3>1. Plain
      BY <2>2 DEF Detected, Plain
    <3>2. /\ pc[p] = "recheck" /\ key' = key /\ open[p] \in Inodes
          /\ flock[open[p]] = p /\ dir.db = open[p]
      BY <1>1, <1>7, <3>1 DEF Recheck, Good
    <3>3. /\ ProcType /\ Others(p) /\ pc'[p] = "snapshot"
          /\ UNCHANGED <<key, open, source, export, flock>>
      BY <1>0, <1>1, <2>2, <3>2 DEF Goto, TypeInv, ProcType, Others, migrationVars
    <3>4. Plain'
      BY <1>0, <1>1, <3>1, CalmPlain
    <3>5. Good(p)'
      BY <1>0, <1>1, <1>2, <3>2, <3>3, <3>4 DEF Good, KeyLabels, Before, After
    <3>6. ASSUME NEW q \in Procs, q # p PROVE ~Migrating(q)
      <4>1. Good(q)
        BY DEF EncInv
      <4>2. pc[q] \notin After
        BY <3>1, <4>1 DEF Good
      <4>3. pc[q] \in Before => open[q] = dir.db /\ flock[open[q]] = q
        BY <3>1, <4>1 DEF Good
      <4> QED
        BY <3>2, <3>6, <4>2, <4>3, MigratingIs
    <3> QED
      BY <1>0, <1>2, <3>3, <3>5, <3>6, CalmStep
  <2> QED
    BY <1>7, <2>1, <2>2 DEF Recheck
<1>8. CASE Converge(p)
  <2>1. CASE Goto(p, "connect") /\ UNCHANGED <<key, open, migrationVars, flock>>
    <3>1. GoOn(p, "connect")
      BY <2>1 DEF GoOn
    <3> QED
      BY <1>0, <1>2, <3>1, MoveStep
  <2> QED
    BY <1>0, <1>2, <1>8, <2>1, RefuseStep DEF Converge
<1> QED
  BY <1>3, <1>4, <1>5, <1>6, <1>7, <1>8 DEF Ensure

\* The one migrator goes on with its migration.
LEMMA OtherMigrators ==
  ASSUME EncInv, NEW p \in Procs, Migrating(p)
  PROVE  /\ \A q \in Procs : q # p => ~Migrating(q) /\ pc[q] \notin Before
         /\ Running(p) /\ p \notin OldServers /\ pc[p] # "serve" /\ key[p]
         /\ open[p] \in Inodes /\ flock[open[p]] = p
<1>1. pc[p] \in Before \cup After /\ Good(p)
  BY MigratingIs DEF EncInv
<1>2. \A q \in Procs : q # p => ~Migrating(q) /\ pc[q] \notin Before
  BY MigratingIs DEF EncInv, OneMigrator
<1> QED
  BY <1>1, <1>2 DEF Good, Running, KeyLabels, Before, After

LEMMA PrepareKeeps == ASSUME EncInv, NEW p \in Procs, Prepare(p) PROVE EncInv'
<1>1. Good(p) /\ TypeInv
  BY DEF EncInv
<1>2. pc[p] \in Before /\ Migrating(p)
  BY DEF Prepare, Snapshot, Export, ExportFails, Verify, GiveUp, Sync, Before, Migrating
<1>3. /\ \A q \in Procs : q # p => ~Migrating(q) /\ pc[q] \notin Before
      /\ Running(p) /\ p \notin OldServers /\ pc[p] # "serve" /\ key[p]
      /\ open[p] \in Inodes /\ flock[open[p]] = p
  BY <1>2, OtherMigrators
<1>4. Plain /\ dir.db = open[p]
  BY <1>1, <1>2 DEF Good
<1>5. {"export", "verify", "sync", "swapOut"} \subseteq Labels
  BY DEF Labels
<1>6. ASSUME DiskType, CalmFiles, dir'.db = dir.db, ProcType, Others(p),
             pc'[p] \in Before, key'[p] = key[p], open'[p] = open[p], flock' = flock,
             pc'[p] = "export" => source'[p] \in Inodes,
             pc'[p] \in {"verify", "sync", "swapOut"} =>
               export'[p] \in Inodes /\ file'[export'[p]].kind = "cipher"
      PROVE  EncInv'
  <2>1. Plain'
    BY <1>1, <1>4, <1>6, CalmPlain
  <2>2. Good(p)'
    BY <1>3, <1>4, <1>6, <2>1 DEF Good, KeyLabels, Before, After
  <2> QED
    BY <1>3, <1>6, <2>2, CalmStep
<1>7. CASE Snapshot(p)
  <2>1. PICK i \in Inodes, rs \in SUBSET Rows :
          source' = [source EXCEPT ![p] = i] /\ snap' = [snap EXCEPT ![p] = rs]
    BY <1>1, <1>7, SnapshotDisk
  <2>2. DiskType /\ CalmFiles /\ dir'.db = dir.db
    BY <1>1, <1>4, <1>7, SnapshotDisk DEF Plain
  <2>3. /\ ProcType /\ Others(p) /\ pc'[p] = "export" /\ source'[p] = i
        /\ UNCHANGED <<key, open, flock>>
    BY <1>1, <1>5, <1>7, <2>1 DEF Snapshot, Goto, TypeInv, ProcType, Others, File
  <2> QED
    BY <1>6, <2>2, <2>3 DEF Before
<1>8. CASE Export(p)
  <2>1. source[p] \in Inodes
    BY <1>1, <1>8 DEF Export, Good
  <2>2. PICK t \in Inodes : export' = [export EXCEPT ![p] = t] /\ file'[t].kind = "cipher"
    BY <1>1, <1>8, <2>1, ExportDisk
  <2>3. DiskType /\ CalmFiles /\ dir'.db = dir.db
    BY <1>1, <1>8, <2>1, ExportDisk
  <2>4. /\ ProcType /\ Others(p) /\ pc'[p] = "verify" /\ export'[p] = t
        /\ UNCHANGED <<key, open, flock>>
    BY <1>1, <1>5, <1>8, <2>2 DEF Export, Goto, TypeInv, ProcType, Others, File
  <2> QED
    BY <1>6, <2>2, <2>3, <2>4 DEF Before
<1>9. CASE ExportFails(p)
  <2>1. DiskType /\ CalmFiles /\ dir'.db = dir.db /\ Refuse(p)
    BY <1>1, <1>9, ExportFailsDisk DEF ExportFails
  <2> QED
    BY <1>3, <2>1, RefuseStep
<1>10. CASE Verify(p)
  <2>1. DiskType /\ CalmFiles /\ dir'.db = dir.db /\ file' = file
    BY <1>10, SameDiskStep DEF Verify, diskVars
  <2>2. ProcType /\ Others(p) /\ pc'[p] = "sync" /\ UNCHANGED <<key, open, source, export, flock>>
    BY <1>1, <1>5, <1>10, GoOnProc DEF Verify
  <2>3. export[p] \in Inodes /\ file[export[p]].kind = "cipher"
    BY <1>1, <1>10 DEF Verify, Good
  <2> QED
    BY <1>6, <2>1, <2>2, <2>3 DEF Before
<1>11. CASE GiveUp(p)
  <2>1. [dir EXCEPT !.tmp = @ \ {export[p]}] \in Directory
        /\ [dir EXCEPT !.tmp = @ \ {export[p]}].db = dir.db
    BY <1>1 DEF TypeInv, Directory
  <2>2. DiskType /\ dir'.db = dir.db
    BY <1>1, <1>11, <2>1 DEF GiveUp, Rename, TypeInv, DiskType
  <2>3. CalmFiles /\ Refuse(p)
    BY <1>11 DEF GiveUp, CalmFiles
  <2> QED
    BY <1>3, <2>2, <2>3, RefuseStep
<1>12. CASE Sync(p)
  <2>1. export[p] \in Inodes /\ file[export[p]].kind = "cipher"
    BY <1>1, <1>12 DEF Sync, Good
  <2> DEFINE e == [file[export[p]] EXCEPT !.synced = TRUE]
  <2>2. e \in Contents /\ e.kind = "cipher"
    <3>1. file[export[p]] \in Contents
      BY <1>1, <2>1 DEF TypeInv
    <3> QED
      BY <2>1, <3>1 DEF Contents
  <2>3. file' = [file EXCEPT ![export[p]] = e]
    BY <1>12 DEF Sync
  <2> HIDE DEF e
  <2>4. /\ file' \in [Inodes -> Contents] /\ file'[export[p]].kind = "cipher"
        /\ CalmFiles
    BY <1>1, <2>1, <2>2, <2>3 DEF TypeInv, CalmFiles
  <2>5. DiskType /\ dir'.db = dir.db
    BY <1>1, <1>12, <2>4 DEF Sync, TypeInv, DiskType
  <2>6. ProcType /\ Others(p) /\ pc'[p] = "swapOut"
        /\ UNCHANGED <<key, open, source, export, flock>>
    BY <1>1, <1>5, <1>12, GoOnProc DEF Sync
  <2> QED
    BY <1>6, <2>1, <2>4, <2>5, <2>6 DEF Before
<1> QED
  BY <1>7, <1>8, <1>9, <1>10, <1>11, <1>12 DEF Prepare

LEMMA SwapKeeps == ASSUME EncInv, NEW p \in Procs, Swap(p) PROVE EncInv'
<1>1. Good(p) /\ TypeInv
  BY DEF EncInv
<1>2. Migrating(p)
  BY DEF Swap, SwapOut, SwapWal, SwapIn, Settle, SwapFails, Migrating
<1>3. /\ \A q \in Procs : q # p => ~Migrating(q) /\ pc[q] \notin Before
      /\ Running(p) /\ p \notin OldServers /\ pc[p] # "serve" /\ key[p]
      /\ open[p] \in Inodes /\ flock[open[p]] = p
  BY <1>2, OtherMigrators
<1>4. {"swapWal", "swapIn", "settle"} \subseteq Labels
  BY DEF Labels
<1>5. ASSUME NEW l \in After, GoOn(p, l), file' = file, dir' \in Directory,
             past' \in SUBSET Directory, UNCHANGED <<wal, committed>>,
             ~Plain',
             l # "settle" => export[p] \in Inodes /\ file[export[p]].kind = "cipher"
      PROVE  EncInv'
  <2>1. DiskType
    BY <1>1, <1>5 DEF TypeInv, DiskType
  <2>2. ProcType /\ Others(p) /\ pc'[p] = l /\ UNCHANGED <<key, open, source, export, flock>>
    BY <1>1, <1>4, <1>5, GoOnProc DEF After
  <2>3. Good(p)'
    BY <1>3, <1>5, <2>2 DEF Good, KeyLabels, Before, After
  <2> QED
    BY <1>3, <1>5, <2>1, <2>2, <2>3, StepInv
<1>6. CASE SwapOut(p)
  <2>1. Plain /\ export[p] \in Inodes /\ file[export[p]].kind = "cipher"
    BY <1>1, <1>6 DEF SwapOut, Good, Before
  <2> DEFINE bak == dir.bak \cup {dir.db}
             d == [dir EXCEPT !.db = None, !.bak = bak]
  <2>2. bak \in SUBSET Inodes
    BY <1>1, <2>1 DEF TypeInv, Directory, Plain
  <2>3. Rename(d)
    BY <1>6, <2>1 DEF SwapOut, Plain
  <2> HIDE DEF bak
  <2>4. d \in Directory /\ d.db = None
    BY <1>1, <2>2 DEF TypeInv, Directory
  <2> HIDE DEF d
  <2>5. dir' \in Directory /\ past' \in SUBSET Directory /\ ~Plain'
    BY <1>1, <2>3, <2>4 DEF Rename, TypeInv, Plain
  <2> QED
    BY <1>5, <1>6, <2>1, <2>5 DEF SwapOut, After
<1>7. CASE SwapWal(p)
  <2>1. ~Plain /\ export[p] \in Inodes /\ file[export[p]].kind = "cipher"
    BY <1>1, <1>7 DEF SwapWal, Good, After
  <2> DEFINE bakWal == dir.bakWal \cup {dir.dbWal}
             d == [dir EXCEPT !.dbWal = None, !.bakWal = bakWal]
  <2>2. dir.dbWal # None => bakWal \in SUBSET Inodes
    BY <1>1 DEF TypeInv, Directory
  <2>3. (dir.dbWal # None /\ Rename(d)) \/ UNCHANGED <<dir, past>>
    BY <1>7 DEF SwapWal
  <2> HIDE DEF bakWal
  <2>4. dir.dbWal # None => d \in Directory /\ d.db = dir.db
    BY <1>1, <2>2 DEF TypeInv, Directory
  <2> HIDE DEF d
  <2>5. dir' \in Directory /\ past' \in SUBSET Directory /\ dir'.db = dir.db
    BY <1>1, <2>3, <2>4 DEF Rename, TypeInv
  <2>6. file' = file /\ ~Plain'
    BY <1>7, <2>1, <2>5 DEF SwapWal, Plain
  <2> QED
    BY <1>5, <1>7, <2>1, <2>5, <2>6 DEF SwapWal, After
<1>8. CASE SwapIn(p)
  <2>1. export[p] \in Inodes /\ file[export[p]].kind = "cipher"
    BY <1>1, <1>8 DEF SwapIn, Good
  <2> DEFINE tmp == dir.tmp \ {export[p]}
             d == [dir EXCEPT !.db = export[p], !.tmp = tmp]
  <2>2. tmp \in SUBSET Inodes
    BY <1>1 DEF TypeInv, Directory
  <2>3. Rename(d)
    BY <1>8 DEF SwapIn
  <2> HIDE DEF tmp
  <2>4. d \in Directory /\ d.db = export[p]
    BY <1>1, <2>1, <2>2 DEF TypeInv, Directory
  <2> HIDE DEF d
  <2>5. dir' \in Directory /\ past' \in SUBSET Directory /\ dir'.db = export[p]
    BY <1>1, <2>3, <2>4 DEF Rename, TypeInv
  <2>6. file' = file /\ ~Plain'
    BY <1>8, <2>1, <2>5 DEF SwapIn, Plain
  <2> QED
    BY <1>5, <1>8, <2>1, <2>5, <2>6 DEF SwapIn, After
<1>9. CASE Settle(p)
  <2>1. DiskType /\ CalmFiles /\ dir'.db = dir.db
    <3>1. past' = {dir} /\ UNCHANGED <<dir, file, wal, committed>>
      BY <1>9 DEF Settle
    <3>2. DiskType
      BY <1>1, <3>1 DEF TypeInv, DiskType
    <3>3. CalmFiles
      BY <3>1 DEF CalmFiles
    <3> QED
      BY <3>1, <3>2, <3>3
  <2>2. (LeaveMigration(p, "connect") /\ key' = key) \/ Refuse(p)
    BY <1>9 DEF Settle
  <2> QED
    BY <1>3, <2>1, <2>2, LeaveStep, RefuseStep
<1>10. CASE SwapFails(p)
  <2>1. DiskType /\ CalmFiles /\ dir'.db = dir.db /\ Refuse(p)
    BY <1>10, SameDiskStep DEF SwapFails
  <2> QED
    BY <1>3, <2>1, RefuseStep
<1> QED
  BY <1>6, <1>7, <1>8, <1>9, <1>10 DEF Swap

LEMMA ConnectKeeps == ASSUME EncInv, NEW p \in Procs, Connect(p) PROVE EncInv'
<1>1. Good(p) /\ TypeInv
  BY DEF EncInv
<1>2. Running(p) /\ p \notin OldServers /\ pc[p] = "connect"
  BY <1>1 DEF Connect, Good, Running
<1>3. /\ DiskType /\ open'[p] \in Inodes /\ open' = [open EXCEPT ![p] = open'[p]]
      /\ key[p] => /\ Plain' => Plain /\ dir'.db = dir.db
                   /\ Plain => Plain'
                   /\ \A i \in Inodes : file[i].kind = "cipher" => file'[i].kind = "cipher"
  BY <1>1, ConnectDisk
<1>4. /\ ProcType /\ Others(p) /\ pc'[p] = "serve" /\ key' = key
  BY <1>1, <1>3 DEF Connect, Goto, TypeInv, ProcType, Others, Labels, migrationVars, File
<1>5. Good(p)'
  BY <1>2, <1>3, <1>4 DEF Good, KeyLabels, Before, After
<1>6. ~Migrating(p)'
  BY <1>4 DEF Migrating
<1>7. ASSUME ~key[p] PROVE \A q \in Procs : q # p => pc[q] \notin KeyLabels
  <2> SUFFICES ASSUME NEW q \in Procs, pc[q] \in KeyLabels PROVE FALSE
    OBVIOUS
  <2>1. Running(q) /\ key[q]
    BY DEF EncInv, Good, Running, KeyLabels, Before, After
  <2> QED
    BY <1>2, <1>7, <2>1 DEF EncInv, SameKey
<1> QED
  BY <1>2, <1>3, <1>4, <1>5, <1>6, <1>7, StepInv

LEMMA CommitKeeps == ASSUME EncInv, NEW p \in Procs, CommitRow(p) PROVE EncInv'
<1>1. Good(p) /\ TypeInv
  BY DEF EncInv
<1>2. pc[p] = "serve" /\ open[p] \in Inodes /\ UNCHANGED procVars
  BY <1>1 DEF CommitRow, Good
<1>3. DiskType /\ CalmFiles /\ dir'.db = dir.db
  BY <1>1, <1>2, CommitDisk
<1>4. ProcType /\ Others(p) /\ UNCHANGED <<pc, key, open>>
  BY <1>1, <1>2 DEF procVars, migrationVars, TypeInv, ProcType, Others
<1>5. Good(p)'
  BY <1>1, <1>2, <1>4 DEF Good, KeyLabels, Before, After
<1>6. Running(p) /\ ~Migrating(p)'
  BY <1>2, <1>4 DEF Migrating, Running
<1> QED
  BY <1>3, <1>4, <1>5, <1>6, CalmStep

\* Everything stops, or nothing runs, or only backups go.
LEMMA OutsideKeeps == ASSUME EncInv, PowerLoss \/ Restore \/ Archive PROVE EncInv'
<1>1. TypeInv /\ \A p \in Procs : Good(p)
  BY DEF EncInv
<1>2. CASE PowerLoss
  <2>1. dir' \in Directory /\ past' \in SUBSET Directory /\ UNCHANGED <<wal, committed>>
    BY <1>1, <1>2 DEF PowerLoss, TypeInv
  <2>2. PICK left \in [{i \in Inodes : file[i].kind = "cipher" /\ ~file[i].synced}
                       -> {"cipher", "empty", "torn"}] :
          file' = [i \in Inodes |->
            IF i \notin {j \in Inodes : file[j].kind = "cipher" /\ ~file[j].synced} THEN file[i]
            ELSE IF left[i] = "cipher" THEN [file[i] EXCEPT !.synced = TRUE]
            ELSE Fresh(left[i])]
    BY <1>2 DEF PowerLoss
  <2>3. \A i \in Inodes : file[i] \in Contents /\ [file[i] EXCEPT !.synced = TRUE] \in Contents
    BY <1>1 DEF TypeInv, Contents
  <2>4. ASSUME NEW i \in Inodes PROVE file'[i] \in Contents
    BY <2>2, <2>3, NewFile
  <2>5. file' \in [Inodes -> Contents]
    BY <2>2, <2>4
  <2>6. /\ \A p \in Procs : pc'[p] = "down" /\ ~key'[p]
        /\ ProcType
    BY <1>2 DEF PowerLoss, ProcType, Labels, File
  <2>7. TypeInv'
    BY <1>1, <2>1, <2>5, <2>6 DEF TypeInv, ProcType
  <2> QED
    BY <2>6, <2>7 DEF EncInv, Good, SameKey, OneMigrator, Running, Migrating,
                      KeyLabels, Before, After
<1>3. CASE Restore
  <2>1. /\ dir' \in Directory /\ past' \in SUBSET Directory
        /\ UNCHANGED <<file, wal, committed, procVars>>
    BY <1>1, <1>3 DEF Restore, Rename, TypeInv, Directory
  <2>2. /\ UNCHANGED <<pc, key, open, source, export, snap, flock>>
        /\ \A p \in Procs : pc[p] \in {"down", "refused"}
    BY <1>3, <2>1 DEF Restore, procVars, migrationVars, Running
  <2>3. TypeInv'
    BY <1>1, <2>1, <2>2 DEF TypeInv
  <2>4. \A p \in Procs : Good(p)'
    BY <1>1, <2>2 DEF Good, KeyLabels, Before, After
  <2>5. SameKey' /\ OneMigrator'
    BY <2>2 DEF SameKey, OneMigrator, Running, Migrating
  <2> QED
    BY <2>3, <2>4, <2>5 DEF EncInv
<1>4. CASE Archive
  <2> DEFINE none == {}
             d == [dir EXCEPT !.bak = none, !.bakWal = none]
  <2>1. none \in SUBSET Inodes /\ Rename(d) /\ UNCHANGED <<file, wal, committed, procVars>>
    BY <1>4 DEF Archive
  <2> HIDE DEF none
  <2>2. d \in Directory /\ d.db = dir.db
    BY <1>1, <2>1 DEF TypeInv, Directory
  <2> HIDE DEF d
  <2>3. dir' \in Directory /\ past' \in SUBSET Directory /\ dir'.db = dir.db
    BY <1>1, <2>1, <2>2 DEF Rename, TypeInv
  <2>4. UNCHANGED <<file, pc, key, open, source, export, snap, flock>>
    BY <2>1 DEF procVars, migrationVars
  <2>5. TypeInv'
    BY <1>1, <2>1, <2>3, <2>4 DEF TypeInv
  <2>6. \A p \in Procs : Good(p)'
    BY <1>1, <2>3, <2>4 DEF Good, Plain
  <2>7. SameKey' /\ OneMigrator'
    BY <2>4 DEF EncInv, SameKey, OneMigrator, Running, Migrating
  <2> QED
    BY <2>5, <2>6, <2>7 DEF EncInv
<1> QED
  BY <1>2, <1>3, <1>4

LEMMA KillKeeps == ASSUME EncInv, NEW p \in Procs, Kill(p) PROVE EncInv'
<1>1. DiskType /\ CalmFiles /\ dir'.db = dir.db
  BY SameDiskStep DEF Kill
<1> QED
  BY <1>1, LeaveStep DEF Kill, Exit

LEMMA ConnectFailsKeeps == ASSUME EncInv, NEW p \in Procs, ConnectFails(p) PROVE EncInv'
<1>1. DiskType /\ CalmFiles /\ dir'.db = dir.db
  BY SameDiskStep DEF ConnectFails
<1> QED
  BY <1>1, RefuseStep DEF ConnectFails, Running

LEMMA EncInvStep == EncInv /\ [Next]_vars => EncInv'
<1> SUFFICES ASSUME EncInv, [Next]_vars PROVE EncInv'
  OBVIOUS
<1>1. CASE UNCHANGED vars
  BY <1>1 DEF vars, diskVars, procVars, migrationVars, EncInv, TypeInv, Good, Plain, SameKey,
              OneMigrator, Running, Migrating
<1>2. ASSUME NEW p \in Procs, Starting(p) PROVE EncInv'
  BY <1>2, EnsureKeeps, PrepareKeeps, SwapKeeps, ConnectKeeps, ConnectFailsKeeps DEF Starting
<1> QED
  BY <1>1, <1>2, StartKeeps, CommitKeeps, KillKeeps, OutsideKeeps DEF Next

LEMMA EncInvInit == Init => EncInv
<1> SUFFICES ASSUME Init PROVE EncInv
  OBVIOUS
<1>1. PICK main \in {None, Original}, base \in SUBSET Rows, logged \in SUBSET Rows :
        /\ dir = [db |-> main, tmp |-> {}, bak |-> {}, bakWal |-> {},
                  dbWal |-> IF logged # {} \/ OldServers # {} THEN main ELSE None]
        /\ file = [i \in Inodes |-> IF i = main
                     THEN [kind |-> "plain", rows |-> base, synced |-> TRUE] ELSE NoFile]
        /\ wal = [i \in Inodes |-> IF i = main THEN logged ELSE {}]
        /\ committed = base \cup logged
  BY DEF Init
<1>2. main \in Inodes \cup {None} /\ Original \in Inodes
  BY FilesAssumption
<1>3. dir \in Directory /\ past \in SUBSET Directory
  BY <1>1, <1>2 DEF Init, Directory
<1>4. /\ file \in [Inodes -> Contents] /\ wal \in [Inodes -> SUBSET Rows]
      /\ committed \in SUBSET Rows
  <2>1. [kind |-> "plain", rows |-> base, synced |-> TRUE] \in Contents
    BY DEF Contents
  <2> QED
    BY <1>1, <2>1, NewFile
<1>5. /\ \A p \in Procs : /\ pc[p] = IF p \in OldServers THEN "serve" ELSE "down"
                          /\ open[p] = IF p \in OldServers THEN Original ELSE None
                          /\ ~key[p]
      /\ pc \in [Procs -> Labels] /\ key \in [Procs -> BOOLEAN]
      /\ open \in [Procs -> File] /\ source \in [Procs -> File] /\ export \in [Procs -> File]
      /\ snap \in [Procs -> SUBSET Rows] /\ flock \in [Inodes -> Procs \cup {None}]
  BY <1>2 DEF Init, Labels, File
<1>6. TypeInv
  BY <1>3, <1>4, <1>5 DEF TypeInv
<1>7. \A p \in Procs : Good(p)
  BY <1>2, <1>5 DEF Good, KeyLabels, Before, After
<1>8. SameKey /\ OneMigrator
  BY <1>5 DEF SameKey, OneMigrator, Migrating
<1> QED
  BY <1>6, <1>7, <1>8 DEF EncInv

(* However many processes start at once over one file, and whatever is      *)
(* killed or lost, one at a time is between the second look under its flock *)
(* and the end of the swap, although the flock is on a file that is renamed *)
(* and not on the name (migrate_plaintext_to_encrypted).                    *)
THEOREM MigratorsExclude == Spec => []OneMigrator
<1>1. EncInv => OneMigrator
  BY DEF EncInv
<1> QED
  BY EncInvInit, EncInvStep, <1>1, PTL DEF Spec

-----------------------------------------------------------------------------
(* What is on the disk, and what a power loss may leave of it.              *)

\* With the WAL that d puts beside it, file i has every committed row.
Complete(d, i) ==
  committed \subseteq file[i].rows \cup (IF i \in d.bakWal \cup {d.dbWal} THEN wal[i] ELSE {})

\* The four shapes of a directory: no database yet, a plaintext one, the
\* middle of the swap, an encrypted one.
Unborn(d) == d.db = None /\ d.tmp = {} /\ d.bak = {} /\ committed = {}
PlainMain(d) == d.db # None /\ file[d.db].kind = "plain" /\ d.bak = {}
Swapping(d) == d.db = None /\ \E i \in Inodes : d.bak = {i}
CipherMain(d) ==
  /\ d.db # None /\ file[d.db].kind = "cipher" /\ file[d.db].synced
  /\ d.db \notin d.tmp /\ d.dbWal = None

Sound(d) ==
  /\ \A i \in d.tmp : file[i].kind \notin {"none", "plain"}
  /\ \A i \in d.bak : file[i].kind = "plain"
  /\ d.bakWal \subseteq d.bak
  /\ d.dbWal \in {None, d.db} \cup d.bak
  /\ d.dbWal \notin d.bakWal
  /\ Unborn(d) \/ PlainMain(d) \/ Swapping(d) \/ CipherMain(d)

\* Without an old server that writes on, one file has everything.
Whole(d) ==
  OldServers = {} => IF d.db # None THEN Complete(d, d.db) ELSE \A i \in d.bak : Complete(d, i)

\* In any case each row is in a file or a WAL that has a name.
Kept(d) ==
  \A r \in committed :
    \/ \E i \in ({d.db} \cup d.bak) \ {None} : r \in file[i].rows
    \/ \E i \in ({d.dbWal} \cup d.bakWal) \ {None} : r \in wal[i]

Safe(d) == Sound(d) /\ Whole(d) /\ Kept(d)

\* A server has the file of the name open, and no power loss takes the name
\* from it; an old one may have the backup open, but its WAL has a name.
Serving(p) ==
  /\ pc[p] = "serve" /\ p \notin OldServers =>
       /\ file[open[p]].kind = IF key[p] THEN "cipher" ELSE "plain"
       /\ \A d \in past : d.db = open[p] /\ (~key[p] => d.dbWal = open[p])
  /\ pc[p] = "serve" /\ p \in OldServers =>
       /\ file[open[p]].kind = "plain"
       /\ \A d \in past : open[p] \in {d.dbWal} \cup d.bakWal

Placed(p) ==
  /\ pc[p] \in {"orphans", "connect"} /\ key[p] => ~Plain
  /\ pc[p] = "connect" /\ dir.db = None => Orphans = {}
  /\ pc[p] \in {"verify", "sync", "swapOut", "swapWal", "swapIn"} => export[p] \in dir.tmp
  /\ pc[p] \in {"swapWal", "swapIn"} => dir.db = None
  /\ pc[p] = "swapIn" => dir.dbWal = None
  /\ pc[p] = "settle" => dir.db # None
  /\ pc[p] \in {"swapOut", "swapWal", "swapIn"} => file[export[p]].synced

\* The snapshot, and after it the export, has every committed row.
Copied(p) ==
  OldServers = {} =>
    /\ pc[p] \in {"export", "verify"} => committed \subseteq snap[p]
    /\ pc[p] \in {"sync", "swapOut", "swapWal", "swapIn"} => committed \subseteq file[export[p]].rows

\* A process without a key runs alone, but for the old servers.
Alone(p) ==
  p \notin OldServers /\ Running(p) /\ ~key[p] => \A q \in Procs \ {p} : ~Running(q)

Local(p) == Serving(p) /\ Placed(p) /\ Copied(p) /\ Alone(p)

DiskInv ==
  /\ dir \in past
  /\ \A d \in past : Safe(d)
  /\ \A p \in Procs : Local(p)

\* No file that has a name loses rows or changes its kind.
Grows ==
  \A i \in Inodes : file[i].kind # "none" =>
    /\ file'[i].kind = file[i].kind
    /\ file[i].rows \subseteq file'[i].rows
    /\ file[i].synced => file'[i].synced
    /\ Content(i) \subseteq Content(i)'

LEMMA Named ==
  ASSUME TypeInv, NEW d \in past, Sound(d)
  PROVE  /\ d \in Directory
         /\ \A i \in ({d.db} \cup d.tmp \cup d.bak \cup {d.dbWal} \cup d.bakWal) \ {None} :
              i \in Inodes /\ file[i].kind # "none"
<1>1. d \in Directory
  BY DEF TypeInv
<1>2. \A i \in ({d.db} \cup d.tmp \cup d.bak) \ {None} : i \in Inodes /\ file[i].kind # "none"
  BY <1>1 DEF Directory, Sound, Unborn, PlainMain, Swapping, CipherMain
<1> QED
  BY <1>1, <1>2 DEF Sound

LEMMA StaysSound ==
  ASSUME TypeInv, NEW d \in past, Safe(d), Grows, committed' = committed
  PROVE  Safe(d)'
<1>1. /\ d \in Directory
      /\ \A i \in ({d.db} \cup d.tmp \cup d.bak \cup {d.dbWal} \cup d.bakWal) \ {None} :
           i \in Inodes /\ file[i].kind # "none"
  BY Named DEF Safe
<1>2. \A i \in ({d.db} \cup d.tmp \cup d.bak \cup {d.dbWal} \cup d.bakWal) \ {None} :
        /\ i \in Inodes
        /\ file'[i].kind = file[i].kind
        /\ file[i].rows \subseteq file'[i].rows
        /\ file[i].synced => file'[i].synced
        /\ file[i].rows \cup wal[i] \subseteq file'[i].rows \cup wal'[i]
  BY <1>1 DEF Grows, Content
<1>3. None \notin d.tmp /\ None \notin d.bak /\ None \notin d.bakWal
  BY <1>1, NoneAssumption DEF Directory
<1>4. Sound(d)'
  <2>1. \A i \in d.tmp : file'[i].kind \notin {"none", "plain"}
    BY <1>2, <1>3 DEF Safe, Sound
  <2>2. \A i \in d.bak : file'[i].kind = "plain"
    BY <1>2, <1>3 DEF Safe, Sound
  <2>3. Unborn(d)' \/ PlainMain(d)' \/ Swapping(d)' \/ CipherMain(d)'
    BY <1>2 DEF Safe, Sound, Unborn, PlainMain, Swapping, CipherMain
  <2> QED
    BY <2>1, <2>2, <2>3 DEF Safe, Sound
<1>5. Whole(d)'
  <2>1. \A i \in {d.db} \cup d.bak : i # None /\ Complete(d, i) => Complete(d, i)'
    <3> SUFFICES ASSUME NEW i \in {d.db} \cup d.bak, i # None, Complete(d, i) PROVE Complete(d, i)'
      OBVIOUS
    <3>1. /\ file[i].rows \subseteq file'[i].rows
          /\ file[i].rows \cup wal[i] \subseteq file'[i].rows \cup wal'[i]
      BY <1>2
    <3> QED
      BY <3>1 DEF Complete
  <2> QED
    BY <1>3, <2>1 DEF Safe, Whole
<1>6. Kept(d)'
  <2> SUFFICES ASSUME NEW r \in committed
               PROVE  \/ \E i \in ({d.db} \cup d.bak) \ {None} : r \in file'[i].rows
                      \/ \E i \in ({d.dbWal} \cup d.bakWal) \ {None} : r \in wal'[i]
    BY DEF Kept
  <2>1. CASE \E i \in ({d.db} \cup d.bak) \ {None} : r \in file[i].rows
    BY <1>2, <2>1
  <2>2. CASE \E i \in ({d.dbWal} \cup d.bakWal) \ {None} : r \in wal[i]
    <3>1. PICK i \in ({d.dbWal} \cup d.bakWal) \ {None} : r \in wal[i]
      BY <2>2
    <3>2. r \in file'[i].rows \/ r \in wal'[i]
      BY <1>2, <3>1
    <3>3. i \in ({d.db} \cup d.bak) \ {None}
      BY <3>1 DEF Safe, Sound
    <3> QED
      BY <3>1, <3>2, <3>3
  <2> QED
    BY <2>1, <2>2 DEF Safe, Kept
<1> QED
  BY <1>4, <1>5, <1>6 DEF Safe

-----------------------------------------------------------------------------
(* What holds of the processes together                                    *)

\* While one prepares or does the swap nobody but an old server serves.
LEMMA NobodyServes ==
  ASSUME EncInv, DiskInv, NEW p \in Procs, Migrating(p), pc[p] # "settle",
         NEW q \in Procs, pc[q] = "serve"
  PROVE  q \in OldServers
<1> SUFFICES ASSUME q \notin OldServers PROVE FALSE
  OBVIOUS
<1>1. q # p /\ Running(p) /\ Running(q)
  BY DEF Migrating, Running
<1>2. key[q]
  BY <1>1 DEF DiskInv, Local, Alone
<1>3. open[q] \in Inodes /\ dir.db = open[q] /\ file[dir.db].kind = "cipher"
  BY <1>2 DEF EncInv, Good, DiskInv, Local, Serving
<1>4. Plain \/ dir.db = None
  BY DEF EncInv, Good, DiskInv, Local, Placed, Migrating, Before
<1> QED
  BY <1>3, <1>4, NoneAssumption DEF Plain

\* p is the process that moves.
OtherSnaps(p) == \A q \in Procs : q # p => snap'[q] = snap[q]

LEMMA OthersAlone ==
  ASSUME DiskInv, NEW p \in Procs, Others(p),
         Running(p)' => Running(p) \/ \A q \in Procs : Running(q) => key[q] \/ q \in OldServers,
         NEW q \in Procs, q # p
  PROVE  Alone(q)'
<1>1. \A x \in Procs : x # p => (Running(x)' <=> Running(x)) /\ key'[x] = key[x]
  BY DEF Others, Running
<1>2. Alone(q)
  BY DEF DiskInv, Local
<1> QED
  BY <1>1, <1>2 DEF Alone

LEMMA OthersCopied ==
  ASSUME EncInv, DiskInv, NEW p \in Procs, Others(p), OtherSnaps(p), Grows, committed' = committed,
         NEW q \in Procs, q # p
  PROVE  Copied(q)'
<1>1. pc'[q] = pc[q] /\ export'[q] = export[q] /\ snap'[q] = snap[q] /\ Copied(q) /\ Good(q)
  BY DEF Others, OtherSnaps, EncInv, DiskInv, Local
<1>2. ASSUME pc[q] \in {"sync", "swapOut", "swapWal", "swapIn"}
      PROVE  file[export[q]].rows \subseteq file'[export[q]].rows
  <2>1. export[q] \in Inodes /\ file[export[q]].kind = "cipher"
    BY <1>1, <1>2 DEF Good
  <2> QED
    BY <2>1 DEF Grows
<1> QED
  BY <1>1, <1>2 DEF Copied

\* Names that stay, and fewer of them that a power loss may leave.
LEMMA OthersPlaced ==
  ASSUME EncInv, DiskInv, NEW p \in Procs, Others(p), Grows, dir' = dir,
         NEW q \in Procs, q # p
  PROVE  Placed(q)'
<1>1. /\ pc'[q] = pc[q] /\ export'[q] = export[q] /\ key'[q] = key[q]
      /\ Placed(q) /\ Good(q)
  BY DEF Others, EncInv, DiskInv, Local
<1>2. Plain' => Plain
  <2>1. dir.db \in Inodes \cup {None} /\ Sound(dir)
    BY DEF EncInv, TypeInv, Directory, DiskInv, Safe
  <2>2. dir.db # None => file[dir.db].kind # "none"
    BY <2>1 DEF Sound, Unborn, PlainMain, Swapping, CipherMain
  <2> QED
    BY <2>1, <2>2 DEF Grows, Plain
<1>3. Orphans' = Orphans
  BY DEF Orphans
<1>4. ASSUME pc[q] \in {"swapOut", "swapWal", "swapIn"}
      PROVE  file'[export[q]].synced
  <2>1. export[q] \in Inodes /\ file[export[q]].kind = "cipher" /\ file[export[q]].synced
    BY <1>1, <1>4 DEF Good, Placed
  <2> QED
    BY <2>1 DEF Grows
<1> QED
  BY <1>1, <1>2, <1>3, <1>4 DEF Placed, Plain

LEMMA OthersServing ==
  ASSUME EncInv, DiskInv, NEW p \in Procs, Others(p), Grows, past' \subseteq past,
         NEW q \in Procs, q # p
  PROVE  Serving(q)'
<1>1. /\ pc'[q] = pc[q] /\ open'[q] = open[q] /\ key'[q] = key[q]
      /\ Serving(q) /\ Good(q)
  BY DEF Others, EncInv, DiskInv, Local
<1>2. ASSUME pc[q] = "serve" PROVE file'[open[q]].kind = file[open[q]].kind
  <2>1. open[q] \in Inodes /\ file[open[q]].kind \in {"plain", "cipher"}
    BY <1>1, <1>2 DEF Good, Serving
  <2> QED
    BY <2>1 DEF Grows
<1> QED
  BY <1>1, <1>2 DEF Serving

LEMMA SameNames ==
  ASSUME EncInv, DiskInv, NEW p \in Procs, Others(p), OtherSnaps(p), Grows,
         dir' = dir, dir \in past', past' \subseteq past, committed' = committed,
         Running(p)' => Running(p) \/ \A q \in Procs : Running(q) => key[q] \/ q \in OldServers,
         Local(p)'
  PROVE  DiskInv'
<1>1. \A d \in past' : Safe(d)'
  <2> SUFFICES ASSUME NEW d \in past' PROVE Safe(d)'
    OBVIOUS
  <2>1. d \in past /\ Safe(d) /\ TypeInv
    BY DEF DiskInv, EncInv
  <2> QED
    BY <2>1, StaysSound
<1>2. \A q \in Procs : q # p => Local(q)'
  BY OthersAlone, OthersCopied, OthersPlaced, OthersServing DEF Local
<1> QED
  BY <1>1, <1>2 DEF DiskInv

\* The migration gives a file another name.
LEMMA Renamed ==
  ASSUME EncInv, DiskInv, NEW p \in Procs, Migrating(p), pc[p] # "settle",
         Others(p), OtherSnaps(p), Grows, committed' = committed,
         NEW d1 \in Directory, dir' = d1, past' = past \cup {d1}, Safe(d1)',
         \A i \in Inodes, q \in OldServers :
           i \in {dir.dbWal} \cup dir.bakWal /\ pc[q] = "serve" /\ open[q] = i =>
           i \in {d1.dbWal} \cup d1.bakWal,
         Plain' => Plain,
         Running(p)' => Running(p),
         Local(p)'
  PROVE  DiskInv'
<1>1. TypeInv /\ Running(p) /\ dir \in past
  BY DEF EncInv, DiskInv, Migrating, Running
<1>2. \A d \in past' : Safe(d)'
  <2> SUFFICES ASSUME NEW d \in past, d # d1 PROVE Safe(d)'
    OBVIOUS
  <2>1. Safe(d)
    BY DEF DiskInv
  <2> QED
    BY <1>1, <2>1, StaysSound
<1>3. ASSUME NEW q \in Procs, q # p PROVE Serving(q)'
  <2>1. /\ pc'[q] = pc[q] /\ open'[q] = open[q] /\ key'[q] = key[q]
        /\ Serving(q) /\ Good(q)
    BY <1>3 DEF Others, EncInv, DiskInv, Local
  <2>2. ASSUME pc[q] = "serve"
        PROVE  /\ q \in OldServers /\ file'[open[q]].kind = "plain"
               /\ open[q] \in {d1.dbWal} \cup d1.bakWal
    <3>1. q \in OldServers
      BY <2>2, NobodyServes
    <3>2. open[q] \in Inodes /\ file[open[q]].kind = "plain" /\ open[q] \in {dir.dbWal} \cup dir.bakWal
      BY <1>1, <2>1, <2>2, <3>1 DEF Good, Serving
    <3> QED
      BY <2>2, <3>1, <3>2 DEF Grows
  <2> QED
    BY <2>1, <2>2 DEF Serving
<1>4. ASSUME NEW q \in Procs, q # p PROVE Placed(q)'
  <2>1. /\ pc'[q] = pc[q] /\ export'[q] = export[q] /\ key'[q] = key[q]
        /\ Placed(q) /\ Alone(q) /\ Good(q) /\ ~Migrating(q)
    BY <1>4 DEF Others, EncInv, OneMigrator, DiskInv, Local
  <2>2. ASSUME pc[q] = "connect" PROVE dir'.db = None => Orphans' = {}
    <3>1. Running(q) /\ q \notin OldServers /\ key[q] /\ ~Plain
      BY <1>1, <1>4, <2>1, <2>2 DEF Good, Running, Alone, Placed
    <3>2. pc[p] \in {"swapWal", "swapIn"} /\ dir.db = None /\ export[p] \in dir.tmp
      BY <3>1 DEF EncInv, Good, Migrating, Before, DiskInv, Local, Placed
    <3> QED
      BY <2>1, <2>2, <3>2 DEF Placed, Orphans
  <2>3. pc[q] \notin {"verify", "sync", "swapOut", "swapWal", "swapIn", "settle"}
    BY <2>1 DEF Migrating
  <2> QED
    BY <2>1, <2>2, <2>3 DEF Placed
<1>5. \A q \in Procs : q # p => Local(q)'
  BY <1>3, <1>4, OthersAlone, OthersCopied DEF Local
<1> QED
  BY <1>2, <1>5 DEF DiskInv

-----------------------------------------------------------------------------
(* The directories that the migration makes out of a sound one              *)

LEMMA PlainSafe ==
  ASSUME NEW d0 \in Directory, NEW d1 \in Directory, Safe(d0)', PlainMain(d0)',
         d1.db = d0.db, d1.bak = d0.bak, d1.bakWal = d0.bakWal,
         \A i \in d1.tmp : file'[i].kind \notin {"none", "plain"},
         d1.dbWal = d0.dbWal \/ (d1.dbWal = None /\ (d0.dbWal # None => wal'[d0.dbWal] = {}))
  PROVE  Safe(d1)'
<1>1. Sound(d1)'
  BY DEF Safe, Sound, PlainMain
<1>2. Whole(d1)'
  BY DEF Safe, Sound, Whole, Complete, PlainMain
<1>3. Kept(d1)'
  BY DEF Safe, Sound, Kept, PlainMain
<1> QED
  BY <1>1, <1>2, <1>3 DEF Safe

LEMMA SwapOutSafe ==
  ASSUME NEW d0 \in Directory, NEW d1 \in Directory, Safe(d0)', PlainMain(d0)',
         d1 = [d0 EXCEPT !.db = None, !.bak = d0.bak \cup {d0.db}]
  PROVE  Safe(d1)'
<1>1. /\ d1.db = None /\ d1.bak = {d0.db} /\ d1.tmp = d0.tmp
      /\ d1.dbWal = d0.dbWal /\ d1.bakWal = {} /\ d0.bakWal = {}
      /\ d0.db \in Inodes /\ d0.dbWal \in {None, d0.db}
  BY DEF Directory, PlainMain, Safe, Sound
<1>2. Sound(d1)'
  BY <1>1 DEF Safe, Sound, PlainMain, Swapping
<1>3. Whole(d1)'
  BY <1>1 DEF Safe, Whole, Complete, PlainMain
<1>4. Kept(d1)'
  <2> SUFFICES ASSUME NEW r \in committed'
               PROVE  \/ \E i \in ({d1.db} \cup d1.bak) \ {None} : r \in file'[i].rows
                      \/ \E i \in ({d1.dbWal} \cup d1.bakWal) \ {None} : r \in wal'[i]
    BY DEF Kept
  <2>1. /\ ({d1.db} \cup d1.bak) \ {None} = ({d0.db} \cup d0.bak) \ {None}
        /\ ({d1.dbWal} \cup d1.bakWal) \ {None} = ({d0.dbWal} \cup d0.bakWal) \ {None}
    BY <1>1 DEF PlainMain
  <2> QED
    BY <2>1 DEF Safe, Kept
<1> QED
  BY <1>2, <1>3, <1>4 DEF Safe

LEMMA SwapWalSafe ==
  ASSUME NEW d0 \in Directory, NEW d1 \in Directory, Safe(d0)', Swapping(d0)', d0.dbWal # None,
         d1 = [d0 EXCEPT !.dbWal = None, !.bakWal = d0.bakWal \cup {d0.dbWal}]
  PROVE  Safe(d1)'
<1>1. PICK i \in Inodes : d0.bak = {i}
  BY DEF Swapping
<1>2. /\ d1.db = None /\ d0.db = None /\ d1.bak = {i} /\ d1.tmp = d0.tmp
      /\ d1.dbWal = None /\ d1.bakWal = {i} /\ d0.dbWal = i
  BY <1>1 DEF Directory, Swapping, Safe, Sound
<1>3. Sound(d1)'
  BY <1>1, <1>2, NoneAssumption DEF Safe, Sound, Swapping
<1>4. Whole(d1)'
  BY <1>1, <1>2 DEF Safe, Whole, Complete
<1>5. Kept(d1)'
  BY <1>1, <1>2 DEF Safe, Kept
<1> QED
  BY <1>3, <1>4, <1>5 DEF Safe

LEMMA SwapInSafe ==
  ASSUME NEW d0 \in Directory, NEW d1 \in Directory, Safe(d0)', d0.db = None, d0.dbWal = None,
         NEW e \in d0.tmp, file'[e].kind = "cipher", file'[e].synced,
         OldServers = {} => committed' \subseteq file'[e].rows,
         d1 = [d0 EXCEPT !.db = e, !.tmp = d0.tmp \ {e}]
  PROVE  Safe(d1)'
<1>1. /\ d1.db = e /\ e # None /\ d1.tmp = d0.tmp \ {e} /\ d1.bak = d0.bak
      /\ d1.dbWal = None /\ d1.bakWal = d0.bakWal
  BY NoneAssumption DEF Directory
<1>2. Sound(d1)'
  BY <1>1, NoneAssumption DEF Safe, Sound, CipherMain, Directory
<1>3. Whole(d1)'
  BY <1>1 DEF Whole, Complete
<1>4. Kept(d1)'
  BY <1>1 DEF Safe, Kept
<1> QED
  BY <1>2, <1>3, <1>4 DEF Safe

-----------------------------------------------------------------------------
(* The steps that write files                                               *)

LEMMA SameFiles == UNCHANGED <<file, wal>> => Grows
  BY DEF Grows, Content

LEMMA SnapshotGrows ==
  ASSUME TypeInv, Plain, NEW p \in Procs, Snapshot(p)
  PROVE  /\ Grows /\ committed' = committed /\ dir' = dir /\ past' = past \cup {dir}
         /\ snap'[p] = AtMain(dir.db) /\ OtherSnaps(p)
<1>1. PICK i \in {dir.db}, done \in BOOLEAN :
        /\ snap' = [snap EXCEPT ![p] = AtMain(i)]
        /\ file' = [file EXCEPT ![i] = Checkpointed(i, done)]
        /\ wal' = IF done /\ dir.dbWal = i THEN [wal EXCEPT ![i] = {}] ELSE wal
        /\ Rename([dir EXCEPT !.db = i])
        /\ committed' = committed
  BY DEF Snapshot, Plain
<1>2. i = dir.db /\ i \in Inodes /\ dir \in Directory
  BY DEF Plain, TypeInv, Directory
<1>3. dir' = dir /\ past' = past \cup {dir}
  BY <1>1, <1>2 DEF Rename, Directory
<1>4. Checkpointed(i, done) = [file[i] EXCEPT !.rows = IF done THEN AtMain(i) ELSE file[i].rows]
  BY <1>2 DEF Checkpointed, Plain
<1>5. /\ file[i] \in Contents /\ file \in [Inodes -> Contents] /\ wal \in [Inodes -> SUBSET Rows]
  BY <1>2 DEF TypeInv
<1> DEFINE rs == IF done THEN AtMain(i) ELSE file[i].rows
           e == [file[i] EXCEPT !.rows = rs]
<1>6. /\ e.kind = file[i].kind /\ e.rows = rs /\ e.synced = file[i].synced
  BY <1>5 DEF Contents
<1>7. file' = [file EXCEPT ![i] = e]
  BY <1>1, <1>4
<1>8. file[i].rows \subseteq rs /\ file[i].rows \cup wal[i] \subseteq rs \cup wal'[i]
  BY <1>1, <1>2, <1>5 DEF AtMain
<1>9. \A j \in Inodes : j # i => wal'[j] = wal[j]
  BY <1>1, <1>5
<1> HIDE DEF rs, e
<1>10. Grows
  BY <1>2, <1>5, <1>6, <1>7, <1>8, <1>9 DEF Grows, Content
<1> QED
  BY <1>1, <1>2, <1>3, <1>10 DEF OtherSnaps, TypeInv

LEMMA CloseGrows ==
  ASSUME TypeInv, NEW p \in Procs, NEW f \in [Inodes -> Contents],
         \A i \in Inodes : file[i].kind # "none" => f[i] = file[i],
         file' = FilesAfterClose(p, f), wal' = WalAfterClose(p)
  PROVE  Grows
<1>1. CASE LastClose(p)
  <2>1. source[p] \in Inodes
    BY <1>1 DEF LastClose, TypeInv, File
  <2> DEFINE s == source[p]
             e == [f[s] EXCEPT !.rows = Content(s)]
  <2>2. file' = [f EXCEPT ![s] = e] /\ wal' = [wal EXCEPT ![s] = {}]
    BY <1>1 DEF FilesAfterClose, WalAfterClose
  <2>3. /\ e.kind = f[s].kind /\ e.rows = Content(s) /\ e.synced = f[s].synced
    BY <2>1 DEF Contents
  <2>4. file'[s] = e /\ wal'[s] = {} /\ \A i \in Inodes : i # s => file'[i] = f[i] /\ wal'[i] = wal[i]
    BY <2>1, <2>2 DEF TypeInv
  <2> HIDE DEF e
  <2> QED
    BY <2>1, <2>3, <2>4 DEF Grows, Content
<1>2. CASE ~LastClose(p)
  <2>1. file' = f /\ wal' = wal
    BY <1>2 DEF FilesAfterClose, WalAfterClose
  <2> QED
    BY <2>1 DEF Grows, Content
<1> QED
  BY <1>1, <1>2

\* The WAL's name goes only when the WAL is empty and no server uses it.
LEMMA CloseNames ==
  ASSUME TypeInv, NEW p \in Procs, NEW d0 \in Directory, wal' = WalAfterClose(p)
  PROVE  LET d1 == NamesAfterClose(p, d0) IN
         /\ d1 \in Directory /\ d1.db = d0.db /\ d1.tmp = d0.tmp /\ d1.bak = d0.bak
         /\ d1.bakWal = d0.bakWal
         /\ \/ d1.dbWal = d0.dbWal
            \/ /\ d1.dbWal = None /\ d0.dbWal \in Inodes /\ wal'[d0.dbWal] = {}
               /\ Sole(d0.dbWal)
<1>1. CASE LastClose(p) /\ d0.dbWal = source[p]
  <2>1. NamesAfterClose(p, d0) = [d0 EXCEPT !.dbWal = None]
    BY <1>1 DEF NamesAfterClose
  <2>2. source[p] \in Inodes /\ Sole(source[p]) /\ wal'[source[p]] = {}
    BY <1>1 DEF LastClose, TypeInv, File, WalAfterClose
  <2> QED
    BY <1>1, <2>1, <2>2 DEF Directory
<1>2. CASE ~(LastClose(p) /\ d0.dbWal = source[p])
  BY <1>2 DEF NamesAfterClose
<1> QED
  BY <1>1, <1>2

-----------------------------------------------------------------------------
(* Each step keeps the disk sound: before the swap                          *)

LEMMA PlainIsWhole ==
  ASSUME TypeInv, DiskInv, Plain
  PROVE  /\ PlainMain(dir) /\ Safe(dir) /\ dir \in Directory /\ dir.db \in Inodes
         /\ OldServers = {} => committed \subseteq AtMain(dir.db)
<1>1. Safe(dir) /\ dir \in Directory /\ dir.db \in Inodes
  BY DEF DiskInv, TypeInv, Directory, Plain
<1>2. PlainMain(dir)
  BY <1>1 DEF Plain, Safe, Sound, Unborn, PlainMain, Swapping, CipherMain
<1>3. dir.db \in dir.bakWal \cup {dir.dbWal} <=> dir.dbWal = dir.db
  BY <1>1, <1>2 DEF PlainMain, Safe, Sound
<1> QED
  BY <1>1, <1>2, <1>3 DEF Safe, Whole, Complete, AtMain, PlainMain

LEMMA Ended ==
  ASSUME NEW p \in Procs, pc'[p] \in {"down", "refused"}
  PROVE  Local(p)' /\ ~Running(p)'
  BY DEF Local, Serving, Placed, Copied, Alone, Running

LEMMA RefuseOthers ==
  ASSUME TypeInv, NEW p \in Procs, NEW l \in {"down", "refused"}, Exit(p, l)
  PROVE  Others(p) /\ OtherSnaps(p) /\ Local(p)' /\ ~Running(p)'
<1>1. l \in Labels
  BY DEF Labels
<1>2. Others(p) /\ pc'[p] = l
  BY <1>1, LeaveProc DEF Exit
<1>3. OtherSnaps(p)
  BY DEF Exit, LeaveMigration, TypeInv, OtherSnaps
<1> QED
  BY <1>2, <1>3, Ended

LEMMA MoverHasKey ==
  ASSUME EncInv, DiskInv, NEW p \in Procs, Migrating(p)
  PROVE  key[p] /\ p \notin OldServers /\ Running(p)
  BY OtherMigrators

\* While the plaintext has the name, exports may come and go beside it, and
\* the name of a WAL that is empty may go.
LEMMA PlainRenamed ==
  ASSUME TypeInv, DiskInv, Plain, Grows, committed' = committed,
         NEW d \in Directory, d.db = dir.db, d.bak = dir.bak, d.bakWal = dir.bakWal,
         \A i \in d.tmp \ dir.tmp : file'[i].kind \notin {"none", "plain"},
         d.dbWal = dir.dbWal \/ (d.dbWal = None /\ wal'[dir.dbWal] = {})
  PROVE  Safe(d)'
<1>1. PICK c \in past : c = dir
  BY DEF DiskInv
<1>2. c \in Directory /\ Safe(c) /\ PlainMain(c)
  BY <1>1, PlainIsWhole
<1>3. Safe(c)'
  BY <1>2, StaysSound
<1>4. PlainMain(c)'
  BY <1>2 DEF PlainMain, Grows, Directory
<1>5. \A i \in d.tmp : file'[i].kind \notin {"none", "plain"}
  BY <1>1, <1>3 DEF Safe, Sound
<1> QED
  BY <1>1, <1>2, <1>3, <1>4, <1>5, PlainSafe

\* A WAL that an old server writes keeps its name.
LEMMA WalKept ==
  ASSUME NEW d, d.bakWal = dir.bakWal, d.dbWal = dir.dbWal \/ Sole(dir.dbWal),
         NEW i, NEW q \in OldServers, i \in {dir.dbWal} \cup dir.bakWal,
         pc[q] = "serve", open[q] = i
  PROVE  i \in {d.dbWal} \cup d.bakWal
  BY OldServersAssumption DEF Sole

LEMMA PrepareSafe ==
  ASSUME EncInv, DiskInv, NEW p \in Procs, Prepare(p)
  PROVE  DiskInv'
<1>1. TypeInv /\ Good(p) /\ Local(p) /\ dir \in past
  BY DEF EncInv, DiskInv
<1>2. Migrating(p) /\ pc[p] # "settle" /\ Plain /\ pc[p] \in Before
  BY <1>1 DEF Prepare, Snapshot, Export, ExportFails, Verify, GiveUp, Sync, Migrating, Good, Before
<1>3. key[p] /\ p \notin OldServers /\ Running(p)
  BY <1>2, MoverHasKey
<1>4. /\ PlainMain(dir) /\ Safe(dir) /\ dir \in Directory /\ dir.db \in Inodes
      /\ OldServers = {} => committed \subseteq AtMain(dir.db)
  BY <1>1, <1>2, PlainIsWhole
\* A step that stays in the migration is local to p, who has the key.
<1>5. ASSUME NEW l \in Before, pc'[p] = l, key'[p] = key[p], Placed(p)', Copied(p)'
      PROVE  Local(p)'
  BY <1>3, <1>5 DEF Local, Serving, Alone, Before
<1>6. CASE Snapshot(p)
  <2>1. /\ Grows /\ committed' = committed /\ dir' = dir /\ past' = past \cup {dir}
        /\ snap'[p] = AtMain(dir.db) /\ OtherSnaps(p)
    BY <1>1, <1>2, <1>6, SnapshotGrows
  <2>2. Others(p) /\ pc'[p] = "export" /\ key' = key
    BY <1>1, <1>6 DEF Snapshot, Goto, TypeInv, Others
  <2>3. Local(p)'
    BY <1>4, <1>5, <2>1, <2>2 DEF Placed, Copied, Before
  <2> QED
    BY <1>1, <1>3, <2>1, <2>2, <2>3, SameNames
<1>7. CASE Export(p)
  <2>1. PICK t \in Unused, got \in SUBSET Content(source[p]) :
          /\ export' = [export EXCEPT ![p] = t]
          /\ file' = FilesAfterClose(p, [file EXCEPT
                       ![t] = [kind |-> "cipher", rows |-> got, synced |-> FALSE]])
          /\ Rename(NamesAfterClose(p, [dir EXCEPT !.tmp = @ \cup {t}]))
          /\ wal' = WalAfterClose(p) /\ committed' = committed
    BY <1>7 DEF Export
  <2> DEFINE e == [kind |-> "cipher", rows |-> got, synced |-> FALSE]
             f == [file EXCEPT ![t] = e]
             d0 == [dir EXCEPT !.tmp = dir.tmp \cup {t}]
             d1 == NamesAfterClose(p, d0)
  <2>2. t \in Inodes /\ file[t].kind = "none"
    BY DEF Unused
  <2>3. e \in Contents /\ e.kind = "cipher"
    BY <1>1, <1>2, <1>7, ContentType DEF Contents, Export, Good
  <2>4. /\ d0 \in Directory /\ d0.db = dir.db /\ d0.tmp = dir.tmp \cup {t} /\ d0.bak = dir.bak
        /\ d0.bakWal = dir.bakWal /\ d0.dbWal = dir.dbWal
    BY <1>4, <2>2 DEF Directory
  <2> HIDE DEF e, d0
  <2>5. /\ f \in [Inodes -> Contents] /\ f[t].kind = "cipher"
        /\ \A i \in Inodes : i # t => f[i] = file[i]
    BY <1>1, <2>2, <2>3 DEF TypeInv
  <2>6. file' = FilesAfterClose(p, f) /\ dir' = d1 /\ past' = past \cup {d1}
    BY <2>1 DEF Rename, e, d0
  <2> HIDE DEF f
  <2>7. Grows /\ file'[t].kind = "cipher"
    BY <1>1, <2>1, <2>2, <2>5, <2>6, CloseGrows, AfterClose
  <2>8. /\ d1 \in Directory /\ d1.db = d0.db /\ d1.tmp = d0.tmp /\ d1.bak = d0.bak
        /\ d1.bakWal = d0.bakWal
        /\ \/ d1.dbWal = d0.dbWal
           \/ /\ d1.dbWal = None /\ d0.dbWal \in Inodes /\ wal'[d0.dbWal] = {}
              /\ Sole(d0.dbWal)
    BY <1>1, <2>1, <2>4, CloseNames
  <2> HIDE DEF d1
  <2>9. PICK d \in Directory :
          /\ dir' = d /\ past' = past \cup {d} /\ d.db = dir.db /\ d.tmp = dir.tmp \cup {t}
          /\ d.bak = dir.bak /\ d.bakWal = dir.bakWal
          /\ \/ d.dbWal = dir.dbWal
             \/ /\ d.dbWal = None /\ dir.dbWal \in Inodes /\ wal'[dir.dbWal] = {}
                /\ Sole(dir.dbWal)
    BY <2>4, <2>6, <2>8
  <2>10. Others(p) /\ OtherSnaps(p) /\ pc'[p] = "verify" /\ key' = key /\ snap' = snap
         /\ export'[p] = t
    BY <1>1, <1>7, <2>1 DEF Export, Goto, TypeInv, Others, OtherSnaps
  <2>11. Local(p)'
    BY <1>1, <1>5, <1>7, <2>1, <2>9, <2>10 DEF Export, Local, Placed, Copied, Before
  <2>12. Safe(d)'
    BY <1>1, <1>2, <2>1, <2>7, <2>9, PlainRenamed
  <2> QED
    BY <1>1, <1>2, <1>3, <2>1, <2>7, <2>9, <2>10, <2>11, <2>12, Renamed, WalKept
<1>8. CASE ExportFails(p)
  <2>1. /\ committed' = committed /\ wal' = WalAfterClose(p) /\ Refuse(p)
        /\ \/ /\ file' = FilesAfterClose(p, file)
              /\ Rename(NamesAfterClose(p, dir))
           \/ \E t \in Unused :
                /\ file' = FilesAfterClose(p, [file EXCEPT ![t] = Fresh("torn")])
                /\ Rename(NamesAfterClose(p, [dir EXCEPT !.tmp = @ \cup {t}]))
    BY <1>8 DEF ExportFails
  <2>2. Others(p) /\ OtherSnaps(p) /\ Local(p)' /\ ~Running(p)'
    BY <1>1, <2>1, RefuseOthers DEF Refuse
  <2>3. ASSUME NEW f \in [Inodes -> Contents], NEW d0 \in Directory,
               \A i \in Inodes : file[i].kind # "none" => f[i] = file[i],
               file' = FilesAfterClose(p, f), Rename(NamesAfterClose(p, d0)),
               d0.db = dir.db, d0.bak = dir.bak, d0.bakWal = dir.bakWal, d0.dbWal = dir.dbWal,
               \A i \in d0.tmp \ dir.tmp : i \in Inodes /\ f[i].kind = "torn"
        PROVE  DiskInv'
    <3>1. Grows
      BY <1>1, <2>1, <2>3, CloseGrows
    <3>2. PICK d \in Directory :
            /\ dir' = d /\ past' = past \cup {d} /\ d.db = dir.db /\ d.tmp = d0.tmp
            /\ d.bak = dir.bak /\ d.bakWal = dir.bakWal
            /\ \/ d.dbWal = dir.dbWal
               \/ d.dbWal = None /\ wal'[dir.dbWal] = {} /\ Sole(dir.dbWal)
      BY <1>1, <2>1, <2>3, CloseNames DEF Rename
    <3>3. \A i \in d.tmp \ dir.tmp : file'[i].kind \notin {"none", "plain"}
      BY <1>1, <2>3, <3>2, AfterClose
    <3>4. Safe(d)'
      BY <1>1, <1>2, <2>1, <3>1, <3>2, <3>3, PlainRenamed
    <3> QED
      BY <1>1, <1>2, <1>3, <2>1, <2>2, <3>1, <3>2, <3>4, Renamed, WalKept
  <2>4. CASE /\ file' = FilesAfterClose(p, file)
             /\ Rename(NamesAfterClose(p, dir))
    BY <1>1, <1>4, <2>3, <2>4 DEF TypeInv
  <2>5. ASSUME NEW t \in Unused,
               file' = FilesAfterClose(p, [file EXCEPT ![t] = Fresh("torn")]),
               Rename(NamesAfterClose(p, [dir EXCEPT !.tmp = @ \cup {t}]))
        PROVE  DiskInv'
    <3> DEFINE f == [file EXCEPT ![t] = Fresh("torn")]
               d0 == [dir EXCEPT !.tmp = dir.tmp \cup {t}]
    <3>1. t \in Inodes /\ file[t].kind = "none"
      BY DEF Unused
    <3>2. /\ f \in [Inodes -> Contents] /\ f[t].kind = "torn"
          /\ \A i \in Inodes : i # t => f[i] = file[i]
      BY <1>1, <3>1, NewFile DEF TypeInv
    <3>3. /\ d0 \in Directory /\ d0.db = dir.db /\ d0.tmp = dir.tmp \cup {t}
          /\ d0.bak = dir.bak /\ d0.bakWal = dir.bakWal /\ d0.dbWal = dir.dbWal
      BY <1>4, <3>1 DEF Directory
    <3>4. file' = FilesAfterClose(p, f) /\ Rename(NamesAfterClose(p, d0))
      BY <2>5
    <3> HIDE DEF f, d0
    <3> QED
      BY <2>3, <3>1, <3>2, <3>3, <3>4
  <2> QED
    BY <2>1, <2>4, <2>5
<1>9. CASE Verify(p)
  <2>1. /\ UNCHANGED <<dir, past, file, wal, committed, key, export>> /\ pc[p] = "verify"
        /\ snap' = snap /\ file[export[p]].rows = snap[p]
    BY <1>9 DEF Verify, diskVars, GoOn, migrationVars
  <2>2. Others(p) /\ OtherSnaps(p) /\ pc'[p] = "sync"
    BY <1>1, <1>9 DEF Verify, GoOn, Goto, migrationVars, TypeInv, Others, OtherSnaps
  <2>3. Local(p)'
    BY <1>1, <1>5, <2>1, <2>2 DEF Local, Placed, Copied, Before
  <2> QED
    BY <1>1, <1>3, <2>1, <2>2, <2>3, SameFiles, SameNames
<1>10. CASE GiveUp(p)
  <2>1. /\ UNCHANGED <<file, wal, committed>> /\ Refuse(p)
        /\ Rename([dir EXCEPT !.tmp = dir.tmp \ {export[p]}]) \/ UNCHANGED <<dir, past>>
    BY <1>10 DEF GiveUp
  <2>2. Others(p) /\ OtherSnaps(p) /\ Local(p)' /\ ~Running(p)' /\ Grows
    BY <1>1, <2>1, RefuseOthers, SameFiles DEF Refuse
  <2>3. CASE UNCHANGED <<dir, past>>
    BY <1>1, <2>1, <2>2, <2>3, SameNames
  <2>4. CASE Rename([dir EXCEPT !.tmp = dir.tmp \ {export[p]}])
    <3>1. PICK d \in Directory :
            /\ dir' = d /\ past' = past \cup {d} /\ d.db = dir.db /\ d.tmp \subseteq dir.tmp
            /\ d.bak = dir.bak /\ d.bakWal = dir.bakWal /\ d.dbWal = dir.dbWal
      BY <1>4, <2>4 DEF Rename, Directory
    <3>2. Safe(d)'
      BY <1>1, <1>2, <2>1, <2>2, <3>1, PlainRenamed
    <3> QED
      BY <1>1, <1>2, <1>3, <2>1, <2>2, <3>1, <3>2, Renamed
  <2> QED
    BY <2>1, <2>3, <2>4
<1>11. CASE Sync(p)
  <2>1. /\ UNCHANGED <<dir, wal, committed, key, export>> /\ pc[p] = "sync" /\ past' = {dir}
        /\ file' = [file EXCEPT ![export[p]].synced = TRUE]
    BY <1>11 DEF Sync, GoOn, migrationVars
  <2>2. Others(p) /\ OtherSnaps(p) /\ pc'[p] = "swapOut"
    BY <1>1, <1>11 DEF Sync, GoOn, Goto, migrationVars, TypeInv, Others, OtherSnaps
  <2>3. export[p] \in Inodes /\ file[export[p]] \in Contents
    BY <1>1, <2>1 DEF Good, TypeInv
  <2> DEFINE e == [file[export[p]] EXCEPT !.synced = TRUE]
  <2>4. /\ e.kind = file[export[p]].kind /\ e.rows = file[export[p]].rows /\ e.synced
        /\ file' = [file EXCEPT ![export[p]] = e]
    BY <2>1, <2>3 DEF Contents
  <2> HIDE DEF e
  <2>5. /\ Grows /\ file'[export[p]].synced /\ file'[export[p]].rows = file[export[p]].rows
    BY <1>1, <2>1, <2>3, <2>4 DEF Grows, Content, TypeInv
  <2>6. Local(p)'
    BY <1>1, <1>5, <2>1, <2>2, <2>5 DEF Local, Placed, Copied, Before
  <2> QED
    BY <1>1, <1>3, <2>1, <2>2, <2>5, <2>6, SameNames
<1> QED
  BY <1>6, <1>7, <1>8, <1>9, <1>10, <1>11 DEF Prepare

-----------------------------------------------------------------------------
(* ... the swap                                                             *)

LEMMA SwapSafe ==
  ASSUME EncInv, DiskInv, NEW p \in Procs, Swap(p)
  PROVE  DiskInv'
<1>1. TypeInv /\ Good(p) /\ Local(p) /\ dir \in past /\ dir \in Directory /\ Safe(dir)
  BY DEF EncInv, TypeInv, DiskInv
<1>2. Migrating(p)
  BY DEF Swap, SwapOut, SwapWal, SwapIn, Settle, SwapFails, Migrating
<1>3. key[p] /\ p \notin OldServers /\ Running(p)
  BY <1>2, MoverHasKey
<1>4. PICK c \in past : c = dir
  BY <1>1
<1>5. ASSUME NEW l \in After, GoOn(p, l)
      PROVE  /\ Others(p) /\ OtherSnaps(p) /\ pc'[p] = l /\ Running(p)'
             /\ UNCHANGED <<key, snap, export>>
             /\ Placed(p)' /\ Copied(p)' => Local(p)'
  <2>1. Others(p) /\ OtherSnaps(p) /\ pc'[p] = l /\ UNCHANGED <<key, snap, export>>
    BY <1>1, <1>5 DEF GoOn, Goto, migrationVars, TypeInv, Others, OtherSnaps
  <2> QED
    BY <1>3, <1>5, <2>1 DEF After, Local, Serving, Alone, Running
<1>6. ASSUME UNCHANGED <<file, wal, committed>>, pc[p] # "settle" PROVE Safe(c)' /\ Grows
  BY <1>1, <1>4, <1>6, SameFiles, StaysSound
<1>7. CASE SwapOut(p)
  <2>1. /\ Plain /\ PlainMain(c) /\ c \in Directory /\ c.db \in Inodes
    BY <1>1, <1>4, <1>7, PlainIsWhole DEF SwapOut, Good, Before
  <2>2. /\ UNCHANGED <<file, wal, committed>> /\ pc[p] = "swapOut" /\ GoOn(p, "swapWal")
        /\ Rename([dir EXCEPT !.db = None, !.bak = dir.bak \cup {dir.db}])
    BY <1>7, <2>1 DEF SwapOut, Plain
  <2>3. PICK d : d = [c EXCEPT !.db = None, !.bak = c.bak \cup {c.db}]
    OBVIOUS
  <2>4. /\ d \in Directory /\ d.db = None /\ d.tmp = c.tmp /\ d.dbWal = c.dbWal
        /\ d.bakWal = c.bakWal /\ dir' = d /\ past' = past \cup {d}
    BY <1>4, <2>1, <2>2, <2>3 DEF Directory, Rename
  <2>5. Safe(d)' /\ Grows
    BY <1>6, <2>1, <2>2, <2>3, <2>4, SwapOutSafe DEF PlainMain
  <2>6. Local(p)'
    <3>1. "swapWal" \in After
      BY DEF After
    <3>2. Placed(p)' /\ Copied(p)'
      BY <1>1, <1>4, <1>5, <2>2, <2>4, <3>1 DEF Local, Placed, Copied
    <3> QED
      BY <1>5, <2>2, <3>1, <3>2
  <2>7. Others(p) /\ OtherSnaps(p)
    BY <1>5, <2>2 DEF After
  <2> QED
    BY <1>2, <1>3, <1>4, <2>1, <2>2, <2>4, <2>5, <2>6, <2>7, Renamed
<1>8. CASE SwapWal(p)
  <2>1. /\ UNCHANGED <<file, wal, committed>> /\ pc[p] = "swapWal" /\ GoOn(p, "swapIn")
        /\ \/ dir.dbWal = None /\ UNCHANGED <<dir, past>>
           \/ /\ dir.dbWal # None
              /\ Rename([dir EXCEPT !.dbWal = None, !.bakWal = dir.bakWal \cup {dir.dbWal}])
    BY <1>8 DEF SwapWal
  <2>2. /\ Others(p) /\ OtherSnaps(p) /\ pc'[p] = "swapIn" /\ UNCHANGED <<key, snap, export>>
        /\ Placed(p)' /\ Copied(p)' => Local(p)'
    BY <1>5, <2>1 DEF After
  <2>3. c.db = None /\ export[p] \in c.tmp /\ c \in Directory
    BY <1>1, <1>4, <2>1 DEF Local, Placed
  <2>4. Safe(c)' /\ Grows /\ Swapping(c)'
    BY <1>1, <1>4, <1>6, <2>1, <2>3 DEF Safe, Sound, Unborn, PlainMain, CipherMain
  <2>5. CASE dir.dbWal = None /\ UNCHANGED <<dir, past>>
    <3>1. Local(p)'
      BY <1>1, <2>1, <2>2, <2>5 DEF Local, Placed, Copied
    <3> QED
      BY <1>1, <1>3, <2>1, <2>2, <2>4, <2>5, <3>1, SameNames
  <2>6. CASE /\ dir.dbWal # None
             /\ Rename([dir EXCEPT !.dbWal = None, !.bakWal = dir.bakWal \cup {dir.dbWal}])
    <3>1. PICK d : d = [c EXCEPT !.dbWal = None, !.bakWal = c.bakWal \cup {c.dbWal}]
      OBVIOUS
    <3>2. c.bakWal \cup {c.dbWal} \in SUBSET Inodes
      BY <1>4, <2>3, <2>6 DEF Directory
    <3>3. /\ d \in Directory /\ d.db = None /\ d.tmp = c.tmp /\ d.dbWal = None
          /\ d.bakWal = c.bakWal \cup {c.dbWal} /\ dir' = d /\ past' = past \cup {d}
      BY <1>4, <2>3, <2>6, <3>1, <3>2 DEF Directory, Rename
    <3>4. Safe(d)'
      BY <1>4, <2>3, <2>4, <2>6, <3>1, <3>3, SwapWalSafe
    <3>5. Local(p)'
      BY <1>1, <1>4, <2>1, <2>2, <3>3 DEF Local, Placed, Copied
    <3>6. ~Plain'
      BY <3>3 DEF Plain
    <3> QED
      BY <1>2, <1>3, <1>4, <2>1, <2>2, <2>4, <3>3, <3>4, <3>5, <3>6, Renamed
  <2> QED
    BY <2>1, <2>5, <2>6
<1>9. CASE SwapIn(p)
  <2>1. /\ UNCHANGED <<file, wal, committed>> /\ pc[p] = "swapIn" /\ GoOn(p, "settle")
        /\ Rename([dir EXCEPT !.db = export[p], !.tmp = dir.tmp \ {export[p]}])
    BY <1>9 DEF SwapIn
  <2>2. /\ Others(p) /\ OtherSnaps(p) /\ pc'[p] = "settle" /\ UNCHANGED <<key, snap, export>>
        /\ Placed(p)' /\ Copied(p)' => Local(p)'
    BY <1>5, <2>1 DEF After
  <2>3. PICK e \in c.tmp : e = export[p]
    BY <1>1, <1>4, <2>1 DEF Local, Placed
  <2>4. /\ c.db = None /\ c.dbWal = None /\ c \in Directory /\ e \in Inodes /\ e # None
        /\ file'[e].kind = "cipher" /\ file'[e].synced
        /\ OldServers = {} => committed' \subseteq file'[e].rows
    BY <1>1, <1>4, <2>1, <2>3, NoneAssumption DEF Local, Placed, Copied, Good, Directory
  <2>5. PICK d : d = [c EXCEPT !.db = e, !.tmp = c.tmp \ {e}]
    OBVIOUS
  <2>6. /\ d \in Directory /\ d.db = e /\ d.dbWal = None
        /\ d.bakWal = c.bakWal /\ dir' = d /\ past' = past \cup {d}
    BY <1>4, <2>1, <2>3, <2>4, <2>5 DEF Directory, Rename
  <2>7. Safe(c)' /\ Grows
    BY <1>6, <2>1
  <2>8. Safe(d)'
    BY <2>4, <2>5, <2>6, <2>7, SwapInSafe
  <2>9. Local(p)'
    BY <2>2, <2>4, <2>6 DEF Placed, Copied
  <2>10. ~Plain'
    BY <2>4, <2>6 DEF Plain
  <2> QED
    BY <1>2, <1>3, <1>4, <2>1, <2>2, <2>4, <2>6, <2>7, <2>8, <2>9, <2>10, Renamed
<1>10. CASE Settle(p)
  <2>1. /\ UNCHANGED <<dir, file, wal, committed>> /\ pc[p] = "settle" /\ past' = {dir}
        /\ (LeaveMigration(p, "connect") /\ UNCHANGED key) \/ Refuse(p)
    BY <1>10 DEF Settle
  <2>2. CASE Refuse(p)
    BY <1>1, <2>1, <2>2, RefuseOthers, SameFiles, SameNames DEF Refuse
  <2>3. CASE LeaveMigration(p, "connect") /\ UNCHANGED key
    <3>1. Others(p) /\ OtherSnaps(p) /\ pc'[p] = "connect"
      BY <1>1, <2>3, LeaveProc DEF Labels, LeaveMigration, TypeInv, OtherSnaps
    <3>2. ~Plain /\ dir.db # None
      BY <1>1, <2>1 DEF Local, Placed, Good, After
    <3>3. Local(p)'
      BY <1>3, <2>1, <2>3, <3>1, <3>2 DEF Local, Serving, Placed, Copied, Alone, Plain
    <3> QED
      BY <1>1, <1>3, <2>1, <3>1, <3>3, SameFiles, SameNames
  <2> QED
    BY <2>1, <2>2, <2>3
<1>11. CASE SwapFails(p)
  <2>1. UNCHANGED <<dir, past, file, wal, committed>> /\ Refuse(p)
    BY <1>11 DEF SwapFails, diskVars
  <2> QED
    BY <1>1, <2>1, RefuseOthers, SameFiles, SameNames DEF Refuse
<1> QED
  BY <1>7, <1>8, <1>9, <1>10, <1>11 DEF Swap

-----------------------------------------------------------------------------
(* ... what comes before and after the migration                            *)

LEMMA DetectedIs ==
  /\ Detected \in {"missing", "empty", "plaintext", "encrypted"}
  /\ Detected = "missing" <=> dir.db = None
  /\ Detected = "plaintext" <=> Plain
  /\ Detected = "empty" => dir.db # None /\ file[dir.db].kind = "empty"
  BY DEF Detected, Plain

LEMMA StillAlone ==
  ASSUME DiskInv, NEW p \in Procs, Others(p), Running(p), key'[p] = key[p]
  PROVE  Alone(p)'
  BY DEF DiskInv, Local, Alone, Others, Running

LEMMA EnsureSafe ==
  ASSUME EncInv, DiskInv, NEW p \in Procs, Ensure(p)
  PROVE  DiskInv'
<1>1. TypeInv /\ Good(p) /\ Local(p) /\ dir \in past /\ Running(p)
  BY DEF EncInv, DiskInv, Ensure, Detect, CheckOrphans, OpenForLock, Flock, Recheck, Converge, Running
<1>2. UNCHANGED <<dir, past, file, wal, committed>> /\ Grows
  BY SameFiles
  DEF Ensure, Detect, CheckOrphans, OpenForLock, Flock, Recheck, Converge, diskVars
<1>3. ASSUME Refuse(p) PROVE DiskInv'
  BY <1>1, <1>2, <1>3, RefuseOthers, SameNames DEF Refuse
<1>4. ASSUME Others(p), OtherSnaps(p), key' = key, NEW l, pc'[p] = l,
             l \in {"orphans", "connect", "open", "flock", "recheck", "snapshot", "converge"},
             l \in {"orphans", "connect"} /\ key[p] => ~Plain,
             l = "connect" /\ dir.db = None => Orphans = {}
      PROVE  DiskInv'
  <2>1. Placed(p)'
    BY <1>2, <1>4 DEF Placed, Plain, Orphans
  <2>2. Serving(p)' /\ Copied(p)'
    BY <1>4 DEF Serving, Copied
  <2>3. Alone(p)'
    BY <1>1, <1>4, StillAlone
  <2> QED
    BY <1>1, <1>2, <1>4, <2>1, <2>2, <2>3, SameNames DEF Local
<1>5. CASE Detect(p)
  <2>1. \/ /\ GoOn(p, "orphans") /\ ~Plain
        \/ GoOn(p, "open")
        \/ GoOn(p, "connect") /\ dir.db # None /\ (key[p] => ~Plain)
        \/ Refuse(p)
    BY <1>5, DetectedIs DEF Detect
  <2>2. ASSUME NEW l \in Labels, GoOn(p, l)
        PROVE  Others(p) /\ OtherSnaps(p) /\ key' = key /\ pc'[p] = l
    BY <1>1, <2>2, GoOnProc DEF GoOn, migrationVars, OtherSnaps
  <2> QED
    BY <1>3, <1>4, <2>1, <2>2 DEF Labels
<1>6. CASE CheckOrphans(p)
  <2>1. Refuse(p) \/ (Orphans = {} /\ GoOn(p, "connect"))
    BY <1>6 DEF CheckOrphans
  <2>2. ASSUME GoOn(p, "connect")
        PROVE  Others(p) /\ OtherSnaps(p) /\ key' = key /\ pc'[p] = "connect"
    BY <1>1, <2>2, GoOnProc DEF GoOn, migrationVars, OtherSnaps, Labels
  <2>3. key[p] => ~Plain
    BY <1>1, <1>6 DEF CheckOrphans, Local, Placed, Plain
  <2> QED
    BY <1>3, <1>4, <2>1, <2>2, <2>3
<1>7. CASE OpenForLock(p)
  <2>1. \/ Refuse(p)
        \/ open' = [open EXCEPT ![p] = dir.db] /\ Goto(p, "flock") /\ UNCHANGED <<key, migrationVars, flock>>
    BY <1>7 DEF OpenForLock
  <2>2. ASSUME open' = [open EXCEPT ![p] = dir.db], Goto(p, "flock"), UNCHANGED <<key, migrationVars, flock>>
        PROVE  Others(p) /\ OtherSnaps(p) /\ key' = key /\ pc'[p] = "flock"
    BY <1>1, <2>2 DEF Goto, migrationVars, TypeInv, Others, OtherSnaps
  <2> QED
    BY <1>3, <1>4, <2>1, <2>2
<1>8. CASE Flock(p)
  <2>1. Others(p) /\ OtherSnaps(p) /\ key' = key /\ pc'[p] = "recheck"
    BY <1>1, <1>8, NoneAssumption DEF Flock, Goto, migrationVars, TypeInv, Others, OtherSnaps
  <2> QED
    BY <1>4, <2>1
<1>9. CASE Recheck(p)
  <2>1. ASSUME LeaveMigration(p, "converge"), key' = key
        PROVE  Others(p) /\ OtherSnaps(p) /\ pc'[p] = "converge"
    BY <1>1, <2>1, LeaveProc DEF Labels, LeaveMigration, TypeInv, OtherSnaps
  <2>2. ASSUME Goto(p, "snapshot"), UNCHANGED <<key, open, migrationVars, flock>>
        PROVE  Others(p) /\ OtherSnaps(p) /\ key' = key /\ pc'[p] = "snapshot"
    BY <1>1, <2>2 DEF Goto, migrationVars, TypeInv, Others, OtherSnaps
  <2> QED
    BY <1>4, <1>9, <2>1, <2>2 DEF Recheck
<1>10. CASE Converge(p)
  <2>1. Refuse(p) \/ (Detected = "encrypted" /\ GoOn(p, "connect"))
    BY <1>10 DEF Converge, GoOn
  <2>2. ASSUME GoOn(p, "connect")
        PROVE  Others(p) /\ OtherSnaps(p) /\ key' = key /\ pc'[p] = "connect"
    BY <1>1, <2>2, GoOnProc DEF GoOn, migrationVars, OtherSnaps, Labels
  <2> QED
    BY <1>3, <1>4, <2>1, <2>2, DetectedIs
<1> QED
  BY <1>5, <1>6, <1>7, <1>8, <1>9, <1>10 DEF Ensure

LEMMA StartSafe ==
  ASSUME EncInv, DiskInv, NEW p \in Procs, Start(p)
  PROVE  DiskInv'
<1>1. TypeInv /\ dir \in past /\ UNCHANGED <<dir, past, file, wal, committed>> /\ Grows
  BY SameFiles DEF EncInv, DiskInv, Start, diskVars
<1>2. PICK k \in BOOLEAN :
        /\ \A q \in Procs : Running(q) => k /\ (key[q] \/ q \in OldServers)
        /\ key' = [key EXCEPT ![p] = k]
  BY DEF Start
<1>3. Others(p) /\ OtherSnaps(p) /\ pc'[p] = "detect" /\ key'[p] = k
  BY <1>1, <1>2 DEF Start, Goto, TypeInv, Others, OtherSnaps, migrationVars
<1>4. Alone(p)'
  BY <1>2, <1>3 DEF Alone, Others, Running
<1>5. Local(p)'
  BY <1>3, <1>4 DEF Local, Serving, Placed, Copied
<1> QED
  BY <1>1, <1>2, <1>3, <1>5, SameNames

LEMMA EndSafe ==
  ASSUME EncInv, DiskInv, NEW p \in Procs, ConnectFails(p) \/ Kill(p)
  PROVE  DiskInv'
<1>1. TypeInv /\ dir \in past /\ UNCHANGED <<dir, past, file, wal, committed>> /\ Grows
  BY SameFiles DEF EncInv, DiskInv, ConnectFails, Kill, diskVars
<1>2. PICK l \in {"down", "refused"} : Exit(p, l)
  BY DEF ConnectFails, Kill, Refuse
<1> QED
  BY <1>1, <1>2, RefuseOthers, SameNames

\* The first connection of init_db.
LEMMA ConnectSafe ==
  ASSUME EncInv, DiskInv, NEW p \in Procs, Connect(p)
  PROVE  DiskInv'
<1> DEFINE kind == IF key[p] THEN "cipher" ELSE "plain"
<1>1. PICK i \in (IF dir.db = None THEN Unused ELSE {dir.db}) :
        /\ dir.db # None => file[i].kind \in {kind, "empty"}
        /\ file' = [file EXCEPT ![i] = IF @.kind = kind THEN @ ELSE Fresh(kind)]
        /\ RenameAndSync([dir EXCEPT !.db = i, !.dbWal = IF key[p] THEN @ ELSE i])
        /\ Goto(p, "serve") /\ open' = [open EXCEPT ![p] = i]
        /\ UNCHANGED <<wal, committed, key, migrationVars, flock>> /\ pc[p] = "connect"
  BY DEF Connect
<1>2. TypeInv /\ Good(p) /\ Local(p) /\ dir \in past /\ dir \in Directory /\ Safe(dir)
  BY DEF EncInv, TypeInv, DiskInv
<1>3. i \in Inodes /\ i # None
  BY <1>1, <1>2, NoneAssumption DEF Unused, Directory
<1>4. p \notin OldServers /\ Running(p)
  BY <1>1, <1>2 DEF Good, Running
<1>5. /\ Others(p) /\ OtherSnaps(p) /\ pc'[p] = "serve" /\ open'[p] = i /\ key' = key
      /\ Running(p)'
  BY <1>1, <1>2, <1>3 DEF Goto, migrationVars, TypeInv, Others, OtherSnaps, Running
<1>6. PICK d : d = [dir EXCEPT !.db = i, !.dbWal = IF key[p] THEN dir.dbWal ELSE i]
  OBVIOUS
<1>7. /\ dir' = d /\ past' = {d} /\ d.db = i /\ d.dbWal = (IF key[p] THEN dir.dbWal ELSE i)
      /\ d.tmp = dir.tmp /\ d.bak = dir.bak /\ d.bakWal = dir.bakWal
  BY <1>1, <1>2, <1>6 DEF RenameAndSync, Directory
<1>8. kind \in {"cipher", "plain"} /\ (kind = "cipher" <=> key[p])
  OBVIOUS
<1>9. file'[i].kind = kind
  BY <1>1, <1>2, <1>3, <1>8, NewFile DEF TypeInv
<1>10. Local(p)'
  <2>1. Alone(p)'
    BY <1>4, <1>5, StillAlone
  <2>2. Serving(p)'
    BY <1>4, <1>5, <1>7, <1>9 DEF Serving
  <2> QED
    BY <1>5, <2>1, <2>2 DEF Local, Placed, Copied
<1> HIDE DEF kind
\* Without a key nobody else runs.
<1>11. ASSUME ~key[p], NEW q \in Procs, q # p PROVE Local(q)'
  <2>1. ~Running(q) /\ pc'[q] = pc[q]
    BY <1>2, <1>4, <1>5, <1>11 DEF Local, Alone, Others
  <2> QED
    BY <2>1, Ended DEF Running
<1>12. CASE dir.db = None
  <2>1. Orphans = {} /\ file[i].kind = "none"
    BY <1>1, <1>2, <1>12 DEF Local, Placed, Unused
  <2>2. /\ dir.tmp = {} /\ dir.bak = {} /\ dir.bakWal = {} /\ dir.dbWal = None
        /\ committed = {}
    BY <1>2, <1>12, <2>1
    DEF Orphans, Safe, Sound, Unborn, PlainMain, Swapping, CipherMain
  <2>3. file'[i] = Fresh(kind) /\ \A j \in Inodes : j # i => file'[j] = file[j]
    BY <1>1, <1>2, <1>3, <1>8, <2>1 DEF TypeInv
  <2>4. file'[i].synced
    BY <2>3 DEF Fresh
  <2>5. Safe(d)'
    <3>1. Sound(d)'
      BY <1>3, <1>7, <1>8, <1>9, <2>2, <2>4 DEF Sound, PlainMain, CipherMain
    <3>2. Whole(d)' /\ Kept(d)'
      BY <1>1, <1>7, <2>2 DEF Whole, Complete, Kept
    <3> QED
      BY <3>1, <3>2 DEF Safe
  <2>6. ASSUME key[p], NEW q \in Procs, q # p PROVE Local(q)'
    <3>1. /\ pc'[q] = pc[q] /\ export'[q] = export[q] /\ key'[q] = key[q] /\ open'[q] = open[q]
          /\ Local(q) /\ Good(q)
      BY <1>5, <2>6 DEF Others, EncInv, DiskInv
    <3>2. pc[q] # "serve"
      BY <1>2, <1>12, <2>2, <3>1, NoneAssumption DEF Local, Serving, Good
    <3>3. Placed(q)'
      BY <1>3, <1>7, <1>8, <1>9, <2>2, <2>6, <3>1 DEF Local, Placed, Plain
    <3>4. Copied(q)'
      BY <1>1, <2>2 DEF Copied
    <3>5. Alone(q)'
      BY <1>4, <1>5, <2>6, OthersAlone
    <3> QED
      BY <3>1, <3>2, <3>3, <3>4, <3>5 DEF Local, Serving
  <2> QED
    BY <1>7, <1>10, <1>11, <2>5, <2>6 DEF DiskInv
<1>13. CASE dir.db # None
  <2>1. i = dir.db /\ file[i].kind = kind
    BY <1>1, <1>2, <1>13 DEF Safe, Sound, Unborn, PlainMain, Swapping, CipherMain
  <2>2. file' = file /\ Grows
    BY <1>1, <1>2, <1>3, <2>1, SameFiles DEF TypeInv
  <2>3. CASE key[p]
    <3>1. dir' = dir /\ past' = {dir}
      BY <1>2, <1>6, <1>7, <2>1, <2>3 DEF Directory
    <3> QED
      BY <1>1, <1>2, <1>4, <1>5, <1>10, <2>2, <3>1, SameNames
  <2>4. CASE ~key[p]
    <3>1. Plain /\ PlainMain(dir)
      BY <1>2, <1>8, <1>13, <2>1, <2>4, PlainIsWhole DEF Plain, EncInv
    <3>2. Sound(d)'
      BY <1>2, <1>3, <1>7, <2>1, <2>2, <2>4, <3>1 DEF Safe, Sound, PlainMain
    <3>3. Whole(d)'
      BY <1>1, <1>2, <1>7, <2>1, <2>2, <2>4, <3>1 DEF Safe, Sound, Whole, Complete, PlainMain
    <3>4. Kept(d)'
      BY <1>1, <1>2, <1>3, <1>7, <2>1, <2>2, <2>4, <3>1 DEF Safe, Sound, Kept, PlainMain
    <3> QED
      BY <1>7, <1>10, <1>11, <2>4, <3>2, <3>3, <3>4 DEF DiskInv, Safe
  <2> QED
    BY <2>3, <2>4
<1> QED
  BY <1>12, <1>13

-----------------------------------------------------------------------------
(* ... the servers, the power and the operator                              *)

LEMMA CommitSafe ==
  ASSUME EncInv, DiskInv, NEW p \in Procs, CommitRow(p)
  PROVE  DiskInv'
<1>1. PICK r \in Rows \ committed :
        /\ committed' = committed \cup {r}
        /\ IF file[open[p]].kind = "plain"
           THEN wal' = [wal EXCEPT ![open[p]] = @ \cup {r}] /\ UNCHANGED file
           ELSE file' = [file EXCEPT ![open[p]].rows = @ \cup {r}] /\ UNCHANGED wal
        /\ UNCHANGED <<dir, past, procVars>> /\ pc[p] = "serve"
  BY DEF CommitRow
<1>2. TypeInv /\ Good(p) /\ Local(p) /\ open[p] \in Inodes /\ open[p] # None
  BY <1>1, NoneAssumption DEF EncInv, DiskInv, Good
<1> DEFINE o == open[p]
           e == [file[o] EXCEPT !.rows = file[o].rows \cup {r}]
<1>3. e.kind = file[o].kind /\ e.synced = file[o].synced /\ e.rows = file[o].rows \cup {r}
  BY <1>2 DEF TypeInv, Contents
<1> HIDE DEF e
<1>4. \A i \in Inodes : file'[i].kind = file[i].kind /\ file'[i].synced = file[i].synced
                        /\ file[i].rows \subseteq file'[i].rows /\ wal[i] \subseteq wal'[i]
  BY <1>1, <1>2, <1>3 DEF e, TypeInv
<1>5. IF file[o].kind = "plain" THEN r \in wal'[o] ELSE r \in file'[o].rows
  BY <1>1, <1>2, <1>3 DEF e, TypeInv
<1> HIDE DEF o
<1>6. ASSUME NEW d \in past PROVE Safe(d)'
  <2>1. /\ Safe(d) /\ d \in Directory
        /\ \A i \in ({d.db} \cup d.tmp \cup d.bak \cup {d.dbWal} \cup d.bakWal) \ {None} :
             i \in Inodes /\ file[i].kind # "none"
        /\ None \notin d.tmp \cup d.bak \cup d.bakWal
    BY <1>2, Named, NoneAssumption DEF DiskInv, Safe, TypeInv, Directory
  <2>2. \/ d.db = o /\ (file[o].kind = "plain" => d.dbWal = o)
        \/ p \in OldServers /\ file[o].kind = "plain" /\ o \in {d.dbWal} \cup d.bakWal
    BY <1>1, <1>2 DEF Local, Serving, o
  <2>3. Sound(d)'
    <3>1. ~Unborn(d)
      BY <1>2, <2>1, <2>2 DEF Safe, Sound, Unborn, o
    <3>2. PlainMain(d)' \/ Swapping(d)' \/ CipherMain(d)'
      BY <1>4, <2>1, <3>1 DEF Safe, Sound, PlainMain, Swapping, CipherMain
    <3> QED
      BY <1>4, <2>1, <3>2 DEF Safe, Sound
  <2>4. Whole(d)'
    <3> SUFFICES ASSUME OldServers = {} PROVE d.db # None /\ Complete(d, d.db)'
      BY DEF Whole
    <3>1. d.db = o /\ o # None /\ (file[o].kind = "plain" => d.dbWal = o) /\ Complete(d, o)
      BY <1>2, <2>1, <2>2 DEF Safe, Whole, o
    <3> QED
      BY <1>1, <1>2, <1>4, <1>5, <3>1 DEF Complete, o
  <2>5. Kept(d)'
    <3> SUFFICES ASSUME NEW x \in committed'
                 PROVE  \/ \E i \in ({d.db} \cup d.bak) \ {None} : x \in file'[i].rows
                        \/ \E i \in ({d.dbWal} \cup d.bakWal) \ {None} : x \in wal'[i]
      BY DEF Kept
    <3>1. CASE x = r
      BY <1>2, <1>5, <2>2, <3>1 DEF o
    <3>2. CASE x \in committed
      BY <1>4, <2>1, <3>2 DEF Safe, Kept
    <3> QED
      BY <1>1, <3>1, <3>2
  <2> QED
    BY <2>3, <2>4, <2>5 DEF Safe
<1>7. ASSUME NEW q \in Procs PROVE Local(q)'
  <2>1. Local(q) /\ Good(q) /\ UNCHANGED <<pc, key, open, export, snap, dir, past>>
    BY <1>1 DEF DiskInv, EncInv, procVars, migrationVars
  <2>2. Serving(q)'
    BY <1>4, <2>1 DEF Local, Serving, Good
  <2>3. Placed(q)'
    <3>1. dir \in Directory
      BY <1>2 DEF TypeInv
    <3>2. dir.db # None => file'[dir.db].kind = file[dir.db].kind
      BY <1>4, <3>1 DEF Directory
    <3>3. pc[q] \in {"swapOut", "swapWal", "swapIn"} => file'[export[q]].synced = file[export[q]].synced
      BY <1>4, <2>1 DEF Good
    <3> QED
      BY <2>1, <3>2, <3>3 DEF Local, Placed, Plain, Orphans
  <2>4. Copied(q)'
    <3>1. ASSUME OldServers = {}
          PROVE  pc[q] \notin {"export", "verify", "sync", "swapOut", "swapWal", "swapIn"}
      BY <1>1, <3>1, NobodyServes DEF Migrating
    <3> QED
      BY <2>1, <3>1 DEF Copied
  <2>5. Alone(q)'
    BY <2>1 DEF Local, Alone, Running
  <2> QED
    BY <2>2, <2>3, <2>4, <2>5 DEF Local
<1> QED
  BY <1>1, <1>6, <1>7 DEF DiskInv

LEMMA PowerLossSafe ==
  ASSUME EncInv, DiskInv, PowerLoss
  PROVE  DiskInv'
<1>1. PICK d \in past : dir' = d /\ past' = {d}
  BY DEF PowerLoss
<1>2. UNCHANGED <<wal, committed>> /\ \A p \in Procs : pc'[p] = "down"
  BY DEF PowerLoss
<1>3. TypeInv /\ Safe(d) /\ d \in Directory
  BY DEF EncInv, DiskInv, TypeInv
<1>4. PICK left \in [{i \in Inodes : file[i].kind = "cipher" /\ ~file[i].synced}
                     -> {"cipher", "empty", "torn"}] :
        file' = [i \in Inodes |->
          IF i \notin {j \in Inodes : file[j].kind = "cipher" /\ ~file[j].synced} THEN file[i]
          ELSE IF left[i] = "cipher" THEN [file[i] EXCEPT !.synced = TRUE]
          ELSE Fresh(left[i])]
  BY DEF PowerLoss
<1>5. /\ \A i \in Inodes : file[i].kind # "cipher" \/ file[i].synced => file'[i] = file[i]
      /\ \A i \in Inodes : file[i].kind \notin {"none", "plain"} => file'[i].kind \notin {"none", "plain"}
  <2>1. \A i \in Inodes : file[i] \in Contents
    BY <1>3 DEF TypeInv
  <2>2. \A i \in Inodes : [file[i] EXCEPT !.synced = TRUE].kind = file[i].kind
    BY <2>1 DEF Contents
  <2> QED
    BY <1>4, <2>2, NewFile
<1>6. \A i \in ({d.db} \cup d.bak) \ {None} : file'[i] = file[i]
  BY <1>3, <1>5 DEF Safe, Sound, Unborn, PlainMain, Swapping, CipherMain, Directory
<1>7. None \notin d.bak
  BY <1>3, NoneAssumption DEF Directory
<1>8. Sound(d)'
  <2>1. \A i \in d.tmp : file'[i].kind \notin {"none", "plain"}
    BY <1>3, <1>5 DEF Safe, Sound, Directory
  <2> QED
    BY <1>2, <1>3, <1>6, <1>7, <2>1 DEF Safe, Sound, Unborn, PlainMain, Swapping, CipherMain
<1>9. Whole(d)'
  BY <1>2, <1>3, <1>6, <1>7 DEF Safe, Whole, Complete
<1>10. Kept(d)'
  BY <1>2, <1>3, <1>6 DEF Safe, Kept
<1>11. \A p \in Procs : Local(p)'
  BY <1>2, Ended
<1> QED
  BY <1>1, <1>8, <1>9, <1>10, <1>11 DEF DiskInv, Safe

LEMMA RestoreSafe ==
  ASSUME EncInv, DiskInv, Restore
  PROVE  DiskInv'
<1>1. /\ \A p \in Procs : ~Running(p)
      /\ Detected \in {"missing", "empty"}
      /\ UNCHANGED <<file, wal, committed, procVars>>
  BY DEF Restore
<1>2. PICK i \in dir.bak :
        Rename([db |-> i, dbWal |-> IF i \in dir.bakWal THEN i ELSE dir.dbWal,
                tmp |-> {}, bak |-> dir.bak \ {i}, bakWal |-> dir.bakWal \ {i}])
  BY DEF Restore
<1>3. TypeInv /\ dir \in past /\ Safe(dir) /\ dir \in Directory
  BY DEF EncInv, DiskInv, TypeInv
<1>4. dir.db = None /\ Swapping(dir) /\ dir.bak = {i} /\ i \in Inodes /\ i # None
  <2>1. dir.db = None
    BY <1>1, <1>3, DetectedIs DEF Safe, Sound, Unborn, PlainMain, Swapping, CipherMain
  <2> QED
    BY <1>2, <1>3, <2>1, NoneAssumption
    DEF Safe, Sound, Unborn, PlainMain, Swapping, CipherMain, Directory
<1>5. PICK d : d = [db |-> i, dbWal |-> IF i \in dir.bakWal THEN i ELSE dir.dbWal,
                    tmp |-> {}, bak |-> dir.bak \ {i}, bakWal |-> dir.bakWal \ {i}]
  OBVIOUS
<1>6. /\ d.db = i /\ d.tmp = {} /\ d.bak = {} /\ d.bakWal = {}
      /\ d.dbWal = IF i \in dir.bakWal THEN i ELSE dir.dbWal
      /\ dir' = d /\ past' = past \cup {d}
  BY <1>2, <1>3, <1>4, <1>5 DEF Rename, Safe, Sound
<1>7. ASSUME NEW c \in past PROVE Safe(c)'
  BY <1>1, <1>3, SameFiles, StaysSound DEF DiskInv
<1>8. Sound(d)'
  BY <1>1, <1>3, <1>4, <1>6 DEF Safe, Sound, PlainMain
<1>9. Whole(d)'
  BY <1>1, <1>3, <1>4, <1>6 DEF Safe, Sound, Whole, Complete
<1>10. Kept(d)'
  BY <1>1, <1>3, <1>4, <1>6 DEF Safe, Sound, Kept
<1>11. \A p \in Procs : Local(p)'
  BY <1>1, Ended DEF procVars, Running
<1> QED
  BY <1>6, <1>7, <1>8, <1>9, <1>10, <1>11 DEF DiskInv, Safe

LEMMA ArchiveSafe ==
  ASSUME EncInv, DiskInv, Archive
  PROVE  DiskInv'
<1>1. /\ OldServers = {} /\ UNCHANGED <<file, wal, committed, procVars>>
      /\ Rename([dir EXCEPT !.bak = {}, !.bakWal = {}])
  BY DEF Archive
<1>2. PICK p \in Procs : pc[p] = "serve" /\ key[p]
  BY DEF Archive
<1>3. TypeInv /\ Good(p) /\ Local(p) /\ dir \in past /\ Safe(dir) /\ dir \in Directory
  BY DEF EncInv, DiskInv, TypeInv
<1>4. dir.db # None /\ file[dir.db].kind = "cipher" /\ dir.db = open[p]
  BY <1>1, <1>2, <1>3, NoneAssumption DEF Good, Local, Serving
<1>5. PICK d : d = [dir EXCEPT !.bak = {}, !.bakWal = {}]
  OBVIOUS
<1>6. /\ d.db = dir.db /\ d.tmp = dir.tmp /\ d.bak = {} /\ d.bakWal = {} /\ d.dbWal = dir.dbWal
      /\ dir' = d /\ past' = past \cup {d}
  BY <1>1, <1>3, <1>5 DEF Rename, Directory
<1>7. ASSUME NEW c \in past PROVE Safe(c)'
  BY <1>1, <1>3, SameFiles, StaysSound DEF DiskInv
<1>8. CipherMain(dir) /\ dir.db \notin dir.bakWal
  BY <1>3, <1>4 DEF Safe, Sound, Unborn, PlainMain, Swapping, CipherMain
<1>9. Sound(d)'
  BY <1>1, <1>3, <1>6, <1>8 DEF Safe, Sound, CipherMain
<1>10. committed \subseteq file[d.db].rows
  BY <1>1, <1>3, <1>4, <1>6, <1>8 DEF Safe, Whole, Complete, CipherMain
<1>11. Whole(d)' /\ Kept(d)'
  BY <1>1, <1>4, <1>6, <1>10 DEF Whole, Complete, Kept
<1>12. ASSUME NEW q \in Procs PROVE Local(q)'
  <2>1. /\ Local(q) /\ UNCHANGED <<pc, key, open, export, snap, file, committed>>
    BY <1>1 DEF DiskInv, procVars, migrationVars
  <2>2. pc[q] = "serve" => key[q]
    BY <1>1, <1>2, <2>1 DEF Local, Alone, Running
  <2>3. Serving(q)'
    BY <1>1, <1>3, <1>6, <2>1, <2>2 DEF Local, Serving
  <2>4. Placed(q)'
    BY <1>4, <1>6, <2>1 DEF Local, Placed, Plain
  <2> QED
    BY <2>1, <2>3, <2>4 DEF Local, Copied, Alone, Running
<1> QED
  BY <1>6, <1>7, <1>9, <1>11, <1>12 DEF DiskInv, Safe

LEMMA DiskInvInit == Init => DiskInv
<1> SUFFICES ASSUME Init PROVE DiskInv
  OBVIOUS
<1>1. PICK main \in {None, Original}, base \in SUBSET Rows, logged \in SUBSET Rows :
        /\ OldServers # {} => main = Original
        /\ main = None => base = {} /\ logged = {}
        /\ dir = [db |-> main, tmp |-> {}, bak |-> {}, bakWal |-> {},
                  dbWal |-> IF logged # {} \/ OldServers # {} THEN main ELSE None]
        /\ file = [i \in Inodes |-> IF i = main
                     THEN [kind |-> "plain", rows |-> base, synced |-> TRUE] ELSE NoFile]
        /\ wal = [i \in Inodes |-> IF i = main THEN logged ELSE {}]
        /\ committed = base \cup logged
  BY DEF Init
<1>2. past = {dir}
  BY DEF Init
<1>3. Original \in Inodes /\ Original # None
  BY FilesAssumption, NoneAssumption
<1>4. CASE main = None
  <2>1. committed = {} /\ OldServers = {}
    BY <1>1, <1>3, <1>4
  <2>2. Sound(dir) /\ Whole(dir) /\ Kept(dir)
    BY <1>1, <1>4, <2>1 DEF Sound, Unborn, Whole, Complete, Kept
  <2>3. \A p \in Procs : pc[p] = "down"
    BY <2>1 DEF Init
  <2> QED
    BY <1>2, <2>2, <2>3 DEF DiskInv, Safe, Local, Serving, Placed, Copied, Alone, Running
<1>5. CASE main = Original
  <2>1. /\ file[main].kind = "plain" /\ file[main].rows = base /\ wal[main] = logged
    BY <1>1, <1>3, <1>5
  <2>2. Sound(dir)
    BY <1>1, <1>3, <1>5, <2>1 DEF Sound, PlainMain
  <2>3. Whole(dir) /\ Kept(dir)
    BY <1>1, <1>3, <1>5, <2>1 DEF Whole, Complete, Kept
  <2>4. ASSUME NEW p \in Procs PROVE Local(p)
    <3>1. /\ pc[p] = IF p \in OldServers THEN "serve" ELSE "down"
          /\ p \in OldServers => open[p] = Original
      BY DEF Init
    <3> QED
      BY <1>1, <1>2, <1>5, <2>1, <3>1 DEF Local, Serving, Placed, Copied, Alone, Running
  <2> QED
    BY <1>2, <2>2, <2>3, <2>4 DEF DiskInv, Safe
<1> QED
  BY <1>1, <1>4, <1>5

LEMMA DiskInvStep == EncInv /\ DiskInv /\ [Next]_vars => DiskInv'
<1> SUFFICES ASSUME EncInv, DiskInv, [Next]_vars PROVE DiskInv'
  OBVIOUS
<1>1. CASE UNCHANGED vars
  <2>1. UNCHANGED <<dir, past, file, wal, committed, pc, key, open, export, snap>>
    BY <1>1 DEF vars, diskVars, procVars, migrationVars
  <2>2. ASSUME NEW d \in past PROVE Safe(d)'
    BY <2>1, SameFiles, StaysSound DEF DiskInv, EncInv
  <2>3. ASSUME NEW p \in Procs PROVE Local(p)'
    BY <2>1 DEF DiskInv, Local, Serving, Placed, Copied, Alone, Running, Plain, Orphans
  <2> QED
    BY <2>1, <2>2, <2>3 DEF DiskInv
<1>2. ASSUME NEW p \in Procs, Starting(p) PROVE DiskInv'
  BY <1>2, EnsureSafe, PrepareSafe, SwapSafe, ConnectSafe, EndSafe DEF Starting
<1> QED
  BY <1>1, <1>2, StartSafe, CommitSafe, EndSafe, PowerLossSafe, RestoreSafe, ArchiveSafe DEF Next

LEMMA DiskAlways == Spec => [](EncInv /\ DiskInv)
  BY EncInvInit, EncInvStep, DiskInvInit, DiskInvStep, PTL DEF Spec

\* A name of the database is not also the name of a copy of it.
LEMMA SoundNames ==
  ASSUME TypeInv, DiskInv
  PROVE  OneNameEach(dir)
<1>1. Safe(dir) /\ dir \in Directory
  BY DEF TypeInv, DiskInv
<1>2. dir.db \notin dir.tmp \cup dir.bak
  BY <1>1, NoneAssumption
  DEF Directory, Safe, Sound, Unborn, PlainMain, Swapping, CipherMain
<1> QED
  BY <1>1, <1>2 DEF Safe, Sound, OneNameEach

FewStarts == starts \in 0..MaxStarts

(* The names, the files, the processes and the locks keep their types, no   *)
(* file has two names, and the bound on the starts holds.                   *)
THEOREM TypeCorrect == Spec => []EncryptTypeOK
<1>1. Init => FewStarts
  BY StartsAssumption DEF Init, FewStarts
<1>2. FewStarts /\ [Next]_vars => FewStarts'
  <2>1. [Next]_vars => starts' = starts \/ (starts < MaxStarts /\ starts' = starts + 1)
    <3>1. ASSUME NEW p \in Procs, Starting(p) PROVE starts' = starts
      BY <3>1
      DEF Starting, Ensure, Detect, CheckOrphans, OpenForLock, Flock, Recheck, Converge,
          Prepare, Snapshot, Export, ExportFails, Verify, GiveUp, Sync, Swap, SwapOut, SwapWal,
          SwapIn, Settle, SwapFails, Connect, ConnectFails
    <3> QED
      BY <3>1 DEF Next, Start, CommitRow, Kill, PowerLoss, Restore, Archive, vars
  <2> QED
    BY <2>1, StartsAssumption DEF FewStarts
<1>3. EncInv /\ DiskInv /\ FewStarts => EncryptTypeOK
  BY SoundNames DEF EncInv, DiskInv, TypeInv, EncryptTypeOK, File, FewStarts
<1> QED
  BY <1>1, <1>2, <1>3, DiskAlways, PTL DEF Spec

(* Whatever is killed or lost, and however often, a file under the          *)
(* database's name is a database with every committed row, unless a server  *)
(* without the key goes on writing while a start with it migrates           *)
(* (migrate_plaintext_to_encrypted: export, verify, fsync, then the swap).  *)
THEOREM MainStaysWhole ==
  ASSUME OldServers = {}
  PROVE  Spec => []MainIsWhole
<1>1. EncInv /\ DiskInv => MainIsWhole
  <2> SUFFICES ASSUME EncInv, DiskInv, dir.db # None
               PROVE  /\ file[dir.db].kind \in {"plain", "cipher"}
                      /\ committed \subseteq AtMain(dir.db)
    BY DEF MainIsWhole
  <2>1. Safe(dir)
    BY DEF DiskInv
  <2>2. PlainMain(dir) \/ CipherMain(dir)
    BY <2>1 DEF Safe, Sound, Unborn, Swapping
  <2>3. dir.db \notin dir.bakWal
    BY <2>1, <2>2 DEF Safe, Sound, PlainMain, CipherMain
  <2> QED
    BY <2>1, <2>2, <2>3 DEF Safe, Whole, Complete, AtMain, PlainMain, CipherMain
<1> QED
  BY <1>1, DiskAlways, PTL

(* When the migration is stopped between its renames, the backup it leaves  *)
(* has every committed row, so the repair that the refusal of the next      *)
(* start asks for brings back all of them (_find_orphans).                  *)
THEOREM BackupStaysWhole ==
  ASSUME OldServers = {}
  PROVE  Spec => []BackupIsWhole
<1>1. EncInv /\ DiskInv => BackupIsWhole
  <2> SUFFICES ASSUME EncInv, DiskInv, dir.db = None, committed # {}
               PROVE  \E i \in dir.bak : Complete(dir, i)
    BY DEF BackupIsWhole, Complete
  <2>1. Safe(dir)
    BY DEF DiskInv
  <2>2. PICK i \in Inodes : dir.bak = {i}
    BY <2>1 DEF Safe, Sound, Unborn, PlainMain, Swapping, CipherMain
  <2> QED
    BY <2>1, <2>2 DEF Safe, Whole
<1> QED
  BY <1>1, DiskAlways, PTL

(* Also with a server that keeps writing the old file through the swap:     *)
(* each committed row stays in a file or a WAL that has a name.             *)
THEOREM NothingIsDestroyed == Spec => []NothingDestroyed
<1>1. EncInv /\ DiskInv => NothingDestroyed
  BY DEF DiskInv, Safe, Kept, NothingDestroyed
<1> QED
  BY <1>1, DiskAlways, PTL

(* The new database never finds the old one's WAL beside it: the two        *)
(* renames of the swap happen while the name of the database is free.       *)
THEOREM WalOfItsOwn == Spec => []NoForeignWal
<1>1. EncInv /\ DiskInv => NoForeignWal
  BY DEF DiskInv, Safe, Sound, Unborn, PlainMain, Swapping, CipherMain, NoForeignWal
<1> QED
  BY <1>1, DiskAlways, PTL
=============================================================================
