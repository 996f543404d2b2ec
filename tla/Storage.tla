------------------------------ MODULE Storage ------------------------------
(* The SQLite databases under data_root: registry.db, which every process of  *)
(* fox-control opens and migrates, and sources.db and events.db, which only   *)
(* the server opens; `fox-control backup` and `fox-control restore` beside    *)
(* them (cmd/fox-control/ops.go, internal/registry/registry.go).              *)
(*                                                                            *)
(* A database is a file and, beside it, a log whose pages count instead of    *)
(* those of the file for whoever opens it: the write-ahead log of the         *)
(* registry holds new pages that are not in the file yet, the rollback        *)
(* journal of the others holds the old pages of a transaction that may not    *)
(* be over.  Both survive the process.                                        *)
EXTENDS Naturals, Sequences

CONSTANTS
    Procs,        \* processes that open the registry
    Server,       \* the one of them that serves
    Registry,     \* registry.db
    Stores,       \* the other databases, in the order the server opens them
    Environments, \* what may happen, and the versions the registry may start from
    MaxGen,       \* bound on the transactions committed to a database
    None,         \* no page, no process
    Torn          \* a file whose writing was cut off

ASSUME StorageAssumption ==
    /\ Server \in Procs /\ None \notin Procs
    /\ Stores \in Seq({Stores[k] : k \in DOMAIN Stores})
    /\ \A k \in DOMAIN Stores : Stores[k] # Registry
    /\ MaxGen \in Nat
    /\ \A e \in Environments : e.versions \subseteq 0 .. 7

(* The order in which backup and restore go through the databases. *)
Order == <<Registry>> \o Stores
DBs == {Order[k] : k \in DOMAIN Order}

VARIABLES
    env,        \* what may happen here; never changes
    size,       \* [DBs -> "absent", "empty", "partial" or "whole"]
    file,       \* [DBs -> pages of a whole file]
    log,        \* [DBs -> pages of the log, None where it has none]
    tx,         \* [DBs -> the process in a transaction, or None]
    pc,         \* [Procs -> where a process is]
    next,       \* [Procs -> the migration or store that is next]
    bk,         \* the backup command: pc, the databases it lists, the rest of them
    out,        \* [DBs -> pages of the copy in the backup directory, None or Torn]
    rs,         \* the restore command: pc and the index of its database
    committed,  \* history: [DBs -> what was committed or restored last]
    undermined, \* history: databases replaced under a process that had them open
    raced       \* history: two processes were migrating at the same time

files == <<size, file, log>>
procs == <<tx, pc, next>>
history == <<committed, undermined, raced>>
vars == <<env, files, procs, bk, out, rs, history>>

-----------------------------------------------------------------------------
(* Pages.  "catalog" is the set of migrations whose tables and columns are    *)
(* there, "version" the table schema_version, "rows" everything else: how     *)
(* many transactions changed it, and whether the instances have query tokens. *)

PageNames == {"catalog", "version", "rows"}
Tokens == {"unset", "plain", "hashed"}
Rows == [gen : 0 .. MaxGen, tokens : Tokens]
Content == [catalog : SUBSET (1 .. 7), version : 0 .. 7, rows : Rows]
Pages == [catalog : {None} \cup SUBSET (1 .. 7), version : {None} \cup 0 .. 7,
          rows : {None} \cup Rows]

ASSUME NoneAssumption ==
    /\ \A S \in SUBSET (1 .. 7) : S # None
    /\ \A v \in 0 .. 7 : v # None
    /\ \A r \in Rows : r # None
    /\ Torn # None /\ \A c \in Content : c # None /\ c # Torn

Blank == [catalog |-> {}, version |-> 0, rows |-> [gen |-> 0, tokens |-> "hashed"]]
NoLog == [catalog |-> None, version |-> None, rows |-> None]

(* What a process that opens the database reads. *)
View(d) ==
    [q \in PageNames |->
        IF log[d][q] # None THEN log[d][q]
        ELSE IF size[d] = "whole" THEN file[d][q] ELSE Blank[q]]

(* The processes that have a database open. *)
StoreOpen(p, d) ==
    /\ p = Server
    /\ \/ pc[p] = "up"
       \/ pc[p] = "stores" /\ \E k \in 1 .. next[p] - 1 : Stores[k] = d
Users(d) == {p \in Procs : IF d = Registry THEN pc[p] # "down" ELSE StoreOpen(p, d)}

Opening == {"opening", "migrating"}

(* Without "commands" the server is the only process, without "overlap"       *)
(* nobody opens the registry while another migrates it.  Without "live" the   *)
(* operator follows the handbook: fox-control is stopped before a restore and *)
(* started after it.                                                          *)
MayOpen(p) ==
    /\ p = Server \/ "commands" \in env
    /\ "overlap" \in env \/ \A o \in Procs : pc[o] \notin Opening
    /\ "live" \in env \/ rs.pc \notin {"check", "truncate", "fill"}
MayRestore == "live" \in env \/ \A p \in Procs : pc[p] = "down"

(* The restore has tested d for a lock and not yet written all of it. *)
Restoring(d) == rs.pc \in {"truncate", "fill"} /\ d = Order[rs.at]

(* History: d is in use while it is being restored. *)
Disturbs(d, inUse) == undermined' = IF inUse THEN undermined \cup {d} ELSE undermined

-----------------------------------------------------------------------------
TypeOK ==
    /\ size \in [DBs -> {"absent", "empty", "partial", "whole"}]
    /\ file \in [DBs -> Content]
    /\ log \in [DBs -> Pages]
    /\ tx \in [DBs -> Procs \cup {None}]
    /\ pc \in [Procs -> Opening \cup {"down", "stores", "up"}]
    /\ next \in [Procs -> 0 .. 8 + Len(Stores)]
    /\ bk \in [pc : {"idle", "run", "done", "failed"}, list : SUBSET DBs, at : 1 .. Len(Order) + 1]
    /\ out \in [DBs -> Content \cup {None, Torn}]
    /\ rs \in [pc : {"idle", "check", "truncate", "fill", "done", "failed"},
               at : 1 .. Len(Order) + 1]
    /\ committed \in [DBs -> Content]
    /\ undermined \subseteq DBs /\ raced \in BOOLEAN

Release(have, v, tokens) ==
    [catalog : {have}, version : {v}, rows : [gen : {0}, tokens : tokens]]

(* The registry before it is opened: none at all; one of a release without    *)
(* schema_version, which counts as version 0 although it has the instances    *)
(* and, since 1.0.1, their query tokens and the signing keys; or one of a     *)
(* later release.  Instances had no tokens before migration 2, tokens without *)
(* hashes before migration 4.                                                 *)
Past(v) ==
    IF v = 0
    THEN {Blank} \cup Release({1}, 0, {"unset"}) \cup Release({1, 2, 3}, 0, {"unset", "plain"})
    ELSE Release(1 .. v, v, IF v = 1 THEN {"unset"}
                            ELSE IF v < 4 THEN {"unset", "plain"} ELSE {"unset", "hashed"})

Init ==
    /\ \E e \in Environments : \E v \in e.versions : \E c \in Past(v) :
          env = e.may /\ committed = [d \in DBs |-> IF d = Registry THEN c ELSE Blank]
    /\ file = committed
    /\ size = [d \in DBs |-> IF d = Registry /\ file[d].catalog # {} THEN "whole" ELSE "absent"]
    /\ log = [d \in DBs |-> NoLog]
    /\ tx = [d \in DBs |-> None]
    /\ pc = [p \in Procs |-> "down"]
    /\ next = [p \in Procs |-> 0]
    /\ bk = [pc |-> "idle", list |-> {}, at |-> 1]
    /\ out = [d \in DBs |-> None]
    /\ rs = [pc |-> "idle", at |-> 1]
    /\ undermined = {} /\ raced = FALSE

-----------------------------------------------------------------------------
(* SQLite *)

(* A connection of its own is the last one to close: the log is played into   *)
(* the file and removed.                                                      *)
Folded(S) ==
    /\ file' = [d \in DBs |-> IF d \in S /\ size[d] = "whole" THEN View(d) ELSE file[d]]
    /\ log' = [d \in DBs |-> IF d \in S /\ size[d] = "whole" THEN NoLog ELSE log[d]]

(* A transaction of one statement on the registry, in WAL mode. *)
Write(pages) ==
    /\ log' = [log EXCEPT ![Registry] =
                  [q \in PageNames |-> IF q \in DOMAIN pages THEN pages[q] ELSE @[q]]]
    /\ committed' = [committed EXCEPT ![Registry] =
                  [q \in PageNames |-> IF q \in DOMAIN pages THEN pages[q] ELSE @[q]]]

(* Automatic checkpoint of the registry's write-ahead log. *)
Checkpoint ==
    /\ Users(Registry) # {} /\ log[Registry] # NoLog
    /\ size[Registry] = "whole"
    /\ Folded({Registry})
    /\ UNCHANGED <<env, size, procs, bk, out, rs, history>>

-----------------------------------------------------------------------------
(* registry.Open and the start of the server *)

(* The process ends and its connections are closed. *)
Leave(p) ==
    /\ pc' = [pc EXCEPT ![p] = "down"]
    /\ next' = [next EXCEPT ![p] = 0]
    /\ Folded({d \in DBs : Users(d) = {p}})

(* sql.Open and the pragmas.  A damaged file fails them; one that is missing  *)
(* or empty is a new database.                                                *)
OpenFile(p) ==
    /\ pc[p] = "down" /\ MayOpen(p) /\ size[Registry] # "partial"
    /\ pc' = [pc EXCEPT ![p] = "opening"]
    /\ size' = [size EXCEPT ![Registry] = "whole"]
    /\ file' = [file EXCEPT ![Registry] = IF size[Registry] = "whole" THEN @ ELSE Blank]
    /\ committed' = [committed EXCEPT ![Registry] = IF size[Registry] = "whole" THEN @ ELSE Blank]
    /\ raced' = (raced \/ \E o \in Procs : pc[o] \in Opening)
    /\ Disturbs(Registry, Restoring(Registry))
    /\ UNCHANGED <<env, log, tx, next, bk, out, rs>>

(* schemaVersion *)
ReadVersion(p) ==
    /\ pc[p] = "opening"
    /\ pc' = [pc EXCEPT ![p] = "migrating"]
    /\ next' = [next EXCEPT ![p] = View(Registry).version + 1]
    /\ UNCHANGED <<env, files, tx, bk, out, rs, history>>

(* Which migrations can run on a catalog: an index on instances needs its     *)
(* columns, and the columns of migration 7 are added once and for all.        *)
Runs(i, have) ==
    CASE i = 4 -> {1, 2} \subseteq have
      [] i = 7 -> 1 \in have /\ 7 \notin have
      [] OTHER -> TRUE

(* Migration 2 ignores the errors of its ALTER TABLE. *)
Migrated(i, have) == IF i = 2 /\ 1 \notin have THEN have ELSE have \cup {i}

(* Migration 4 hashes the tokens it finds. *)
Hashed(i, t) == IF i = 4 /\ t = "plain" THEN "hashed" ELSE t

AllDone(i) == 7
VersionAfter(i) == i

(* migrations[i] and setSchemaVersion, one transaction; on an error Open fails. *)
Migrate(p) ==
    LET i == next[p]
        v == View(Registry)
    IN
    /\ pc[p] = "migrating" /\ i <= 7
    /\ \/ /\ Runs(i, v.catalog)
          /\ Write([catalog |-> Migrated(i, v.catalog), version |-> VersionAfter(i),
                    rows |-> [v.rows EXCEPT !.tokens = Hashed(i, @)]])
          /\ next' = [next EXCEPT ![p] = i + 1]
          /\ UNCHANGED <<file, pc>>
       \/ /\ ~Runs(i, v.catalog) \/ "busy" \in env
          /\ Leave(p)
          /\ UNCHANGED committed
    /\ UNCHANGED <<env, size, tx, bk, out, rs, undermined, raced>>

TokenOnly(t) == IF t = "unset" THEN "plain" ELSE t
Backfilled(t) == IF t = "unset" THEN "hashed" ELSE t

(* backfillQueryTokens, the last part of Open; the server goes on to its      *)
(* other databases.                                                           *)
Backfill(p) ==
    LET v == View(Registry) IN
    /\ pc[p] = "migrating" /\ next[p] > 7
    /\ \/ /\ Write([rows |-> [v.rows EXCEPT !.tokens = Backfilled(@)]])
          /\ pc' = [pc EXCEPT ![p] = IF p = Server THEN "stores" ELSE "up"]
          /\ next' = [next EXCEPT ![p] = 1]
          /\ UNCHANGED file
       \/ "busy" \in env /\ Leave(p) /\ UNCHANGED committed
    /\ UNCHANGED <<env, size, tx, bk, out, rs, undermined, raced>>

(* OpenRegistry of sources.db, OpenStore of events.db: CREATE TABLE IF NOT    *)
(* EXISTS.  A damaged file ends the server.                                   *)
OpenStore(p) ==
    LET d == Stores[next[p]] IN
    /\ pc[p] = "stores" /\ next[p] <= Len(Stores)
    /\ \/ /\ size[d] # "partial"
          /\ size' = [size EXCEPT ![d] = "whole"]
          /\ file' = [file EXCEPT ![d] = IF size[d] = "whole" THEN View(d) ELSE Blank]
          /\ log' = [log EXCEPT ![d] = NoLog]
          /\ committed' = [committed EXCEPT ![d] = IF size[d] = "whole" THEN @ ELSE Blank]
          /\ next' = [next EXCEPT ![p] = @ + 1]
          /\ Disturbs(d, Restoring(d))
          /\ UNCHANGED pc
       \/ /\ size[d] = "partial"
          /\ Leave(p)
          /\ UNCHANGED <<size, committed, undermined>>
    /\ UNCHANGED <<env, tx, bk, out, rs, raced>>

Serve(p) ==
    /\ pc[p] = "stores" /\ next[p] > Len(Stores)
    /\ pc' = [pc EXCEPT ![p] = "up"]
    /\ next' = [next EXCEPT ![p] = 0]
    /\ UNCHANGED <<env, files, tx, bk, out, rs, history>>

-----------------------------------------------------------------------------
(* Work *)

(* The file of a database that is not in WAL mode changes before the commit,  *)
(* with the old page in the journal.                                          *)
BeginTx(p, d) ==
    /\ pc[p] = "up" /\ p \in Users(d) /\ tx[d] = None
    /\ size[d] = "whole" /\ View(d).rows.gen < MaxGen
    /\ tx' = [tx EXCEPT ![d] = p]
    /\ IF d = Registry THEN UNCHANGED <<file, log>>
       ELSE /\ log' = [log EXCEPT ![d].rows = View(d).rows]
            /\ file' = [file EXCEPT ![d].rows.gen = View(d).rows.gen + 1]
    /\ UNCHANGED <<env, size, pc, next, bk, out, rs, history>>

CommitTx(p, d) ==
    LET rows == [View(d).rows EXCEPT !.gen = @ + 1] IN
    /\ tx[d] = p /\ View(d).rows.gen < MaxGen
    /\ tx' = [tx EXCEPT ![d] = None]
    /\ log' = [log EXCEPT ![d] = IF d = Registry THEN [@ EXCEPT !.rows = rows] ELSE NoLog]
    /\ committed' = [committed EXCEPT ![d].rows = rows]
    /\ UNCHANGED <<env, size, file, pc, next, bk, out, rs, undermined, raced>>

Stop(p) ==
    /\ pc[p] = "up" /\ \A d \in DBs : tx[d] # p
    /\ Leave(p)
    /\ UNCHANGED <<env, size, tx, bk, out, rs, history>>

Crash(p) ==
    /\ "crash" \in env /\ pc[p] # "down"
    /\ pc' = [pc EXCEPT ![p] = "down"]
    /\ next' = [next EXCEPT ![p] = 0]
    /\ tx' = [d \in DBs |-> IF tx[d] = p THEN None ELSE tx[d]]
    /\ UNCHANGED <<env, files, bk, out, rs, history>>

-----------------------------------------------------------------------------
(* fox-control backup *)

BackupStart ==
    /\ "backup" \in env /\ bk.pc # "run"
    /\ bk' = [pc |-> "run", at |-> 1,
              list |-> {Registry} \cup {d \in DBs : size[d] # "absent"}]
    /\ UNCHANGED <<env, files, procs, out, rs, history>>

FileCopy(d) == IF size[d] = "whole" THEN file[d] ELSE Blank
Snapshot(d) == View(d)

(* vacuumInto: fails when the copy exists, when the file is damaged, or when  *)
(* a writer is about to commit to a database that is not in WAL mode.  The    *)
(* connection creates a missing file, and folds the log when it is alone.     *)
VacuumInto(d) ==
    /\ bk.pc = "run" /\ bk.at <= Len(Order) /\ d = Order[bk.at] /\ d \in bk.list
    /\ \/ /\ out[d] = None /\ size[d] # "partial"
          /\ out' = [out EXCEPT ![d] = Snapshot(d)]
          /\ bk' = [bk EXCEPT !.at = @ + 1]
          /\ size' = [size EXCEPT ![d] = IF @ = "absent" THEN "empty" ELSE @]
          /\ Folded(IF Users(d) = {} THEN {d} ELSE {})
       \/ /\ out[d] # None \/ size[d] = "partial" \/ (d # Registry /\ tx[d] # None)
          /\ bk' = [bk EXCEPT !.pc = "failed"]
          /\ UNCHANGED <<files, out>>
    /\ UNCHANGED <<env, procs, rs, history>>

BackupNext ==
    /\ bk.pc = "run"
    /\ \/ /\ bk.at <= Len(Order) /\ Order[bk.at] \notin bk.list
          /\ bk' = [bk EXCEPT !.at = @ + 1]
       \/ /\ bk.at > Len(Order)
          /\ bk' = [bk EXCEPT !.pc = "done"]
    /\ UNCHANGED <<env, files, procs, out, rs, history>>

(* Killed while it was writing a copy. *)
KillBackup ==
    /\ "crash" \in env /\ bk.pc = "run"
    /\ bk' = [bk EXCEPT !.pc = "failed"]
    /\ \/ UNCHANGED out
       \/ /\ bk.at <= Len(Order) /\ Order[bk.at] \in bk.list /\ out[Order[bk.at]] = None
          /\ out' = [out EXCEPT ![Order[bk.at]] = Torn]
    /\ UNCHANGED <<env, files, procs, rs, history>>

-----------------------------------------------------------------------------
(* fox-control restore *)

RestoreStart ==
    /\ rs.pc \in {"idle", "done", "failed"} /\ bk.pc \in {"done", "failed"}
    /\ MayRestore
    /\ rs' = [pc |-> "check", at |-> 1]
    /\ UNCHANGED <<env, files, procs, bk, out, history>>

(* isLocked: any error of BEGIN EXCLUSIVE counts, and an open but idle        *)
(* database gives none.  Its connection folds the log when it is alone.       *)
Locked(d) == size[d] = "partial" \/ tx[d] # None

LookOnly(d) == {}
FoldedByCheck(d) == IF Users(d) = {} THEN {d} ELSE {}

CheckLocked(d) ==
    /\ rs.pc = "check" /\ rs.at <= Len(Order) /\ d = Order[rs.at] /\ out[d] # None
    /\ \/ /\ ~Locked(d)
          /\ rs' = [rs EXCEPT !.pc = "truncate"]
          /\ Folded(FoldedByCheck(d))
          /\ Disturbs(d, Users(d) # {})
       \/ /\ Locked(d)
          /\ rs' = [rs EXCEPT !.pc = "failed"]
          /\ UNCHANGED <<file, log, undermined>>
    /\ UNCHANGED <<env, size, procs, bk, out, committed, raced>>

RestoreNext ==
    /\ rs.pc = "check"
    /\ \/ /\ rs.at <= Len(Order) /\ out[Order[rs.at]] = None
          /\ rs' = [rs EXCEPT !.at = @ + 1]
       \/ /\ rs.at > Len(Order)
          /\ rs' = [rs EXCEPT !.pc = "done"]
    /\ UNCHANGED <<env, files, procs, bk, out, history>>

(* os.WriteFile, first half: the file is opened and truncated. *)
Truncate(d) ==
    /\ rs.pc = "truncate" /\ Restoring(d)
    /\ rs' = [rs EXCEPT !.pc = "fill"]
    /\ size' = [size EXCEPT ![d] = "empty"]
    /\ UNCHANGED <<env, file, log, procs, bk, out, history>>

(* Second half: the bytes of the copy, all of them or not. *)
Fill(d) ==
    /\ rs.pc = "fill" /\ Restoring(d)
    /\ \/ /\ out[d] # Torn
          /\ size' = [size EXCEPT ![d] = "whole"]
          /\ file' = [file EXCEPT ![d] = out[d]]
          /\ committed' = [committed EXCEPT ![d] = out[d]]
          /\ rs' = [rs EXCEPT !.pc = "check", !.at = @ + 1]
       \/ /\ out[d] = Torn
          /\ size' = [size EXCEPT ![d] = "partial"]
          /\ rs' = [rs EXCEPT !.pc = "check", !.at = @ + 1]
          /\ UNCHANGED <<file, committed>>
       \/ /\ "short" \in env
          /\ size' = [size EXCEPT ![d] = "partial"]
          /\ rs' = [rs EXCEPT !.pc = "failed"]
          /\ UNCHANGED <<file, committed>>
    /\ UNCHANGED <<env, log, procs, bk, out, undermined, raced>>

KillRestore ==
    /\ "crash" \in env /\ rs.pc \in {"check", "truncate", "fill"}
    /\ rs' = [rs EXCEPT !.pc = "failed"]
    /\ UNCHANGED <<env, files, procs, bk, out, history>>

-----------------------------------------------------------------------------
Next ==
    \/ \E p \in Procs :
          \/ OpenFile(p) \/ ReadVersion(p) \/ Migrate(p) \/ Backfill(p)
          \/ OpenStore(p) \/ Serve(p) \/ Stop(p) \/ Crash(p)
          \/ \E d \in DBs : BeginTx(p, d) \/ CommitTx(p, d)
    \/ Checkpoint
    \/ BackupStart \/ BackupNext \/ KillBackup
    \/ RestoreStart \/ RestoreNext \/ KillRestore
    \/ \E d \in DBs : VacuumInto(d) \/ CheckLocked(d) \/ Truncate(d) \/ Fill(d)

Spec == Init /\ [][Next]_vars

-----------------------------------------------------------------------------
(* What was committed, or restored, last is what the next process finds: a    *)
(* log left behind by a crash is neither lost nor played over the files of a  *)
(* restore (vacuumInto, isLocked and WriteFile beside registry.Open), unless  *)
(* the restore replaced the file under a process that had it open.            *)
Durable == \A d \in DBs \ undermined : size[d] = "whole" => View(d) = committed[d]

(* "produce consistent snapshots ... without stopping the service": the copy  *)
(* of a database is what was committed at one moment, and a backup that ends  *)
(* well has one of every database it found (vacuumInto, newBackupCmd).        *)
BackupFaithful ==
    [][/\ \A d \in DBs \ undermined : out'[d] # out[d] => out'[d] \in {committed[d], Torn}
       /\ bk.pc = "run" /\ bk'.pc = "done" => \A d \in bk.list : out[d] \notin {None, Torn}]_vars

(* The version never claims a migration whose tables and columns are missing. *)
(* And while processes open the registry in turn, no more is there than it    *)
(* claims and what a release without versions had made, so that the migration *)
(* that is next can run, however the last Open ended: migration 7 fails where *)
(* it has run before (migrate, setSchemaVersion).                             *)
VersionTellsSchema ==
    Registry \notin undermined =>
        LET v == View(Registry) IN
        /\ 1 .. v.version \subseteq v.catalog
        /\ ~raced => /\ v.catalog \subseteq 1 .. v.version \cup 1 .. 3
                     /\ v.version < 7 => Runs(v.version + 1, v.catalog)

(* Open returns a registry with every table and column, in which each         *)
(* instance has a query token with its hash, from whatever release the file   *)
(* came and however often earlier attempts were cut off (migrate,             *)
(* backfillQueryTokens).                                                      *)
OpenedComplete ==
    Registry \notin undermined /\ (\E p \in Procs : pc[p] \in {"stores", "up"}) =>
        /\ View(Registry).catalog = 1 .. 7
        /\ View(Registry).rows.tokens = "hashed"

=============================================================================
