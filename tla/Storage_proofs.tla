--------------------------- MODULE Storage_proofs ---------------------------
(***************************************************************************)
(* Theorems about Storage, for any processes, any databases beside the     *)
(* registry and any number of transactions.                                *)
(***************************************************************************)
EXTENDS Storage, SequenceTheorems, TLAPS

-----------------------------------------------------------------------------
(* The inductive invariant, in parts *)

(* A database that is not whole, or is being restored, has no log and nobody
   has it open. *)
Idle(d) == size[d] # "whole" \/ Restoring(d) => log[d] = NoLog /\ Users(d) = {}

(* The rollback journal holds the old rows of the transaction that is open,
   and without one it is gone while the database is in use. *)
Journal(d) ==
    d # Registry =>
        /\ tx[d] = None /\ Users(d) # {} => log[d] = NoLog
        /\ tx[d] # None =>
              /\ log[d].catalog = None /\ log[d].version = None /\ log[d].rows # None
              /\ file[d].rows = [log[d].rows EXCEPT !.gen = @ + 1]

(* Nothing was committed to a database that has no bytes, unless a restore
   that was cut off has emptied it. *)
Fresh(d) == size[d] \in {"absent", "empty"} /\ out[d] = None => committed[d] = Blank

(* What holds of a database that was not restored while it was in use *)
Sound(d) ==
    /\ size[d] = "whole" => View(d) = committed[d]
    /\ Idle(d)
    /\ Journal(d)
    /\ Fresh(d)

AllSound == \A d \in DBs \ undermined : Sound(d)

(* A transaction belongs to a process that is up and has the database open. *)
Transactions ==
    \A d \in DBs : tx[d] # None =>
        tx[d] \in Procs /\ pc[tx[d]] = "up" /\ (d # Registry => tx[d] = Server)

(* Where the server, the backup and the restore are in their lists *)
Progress ==
    /\ rs.pc \in {"truncate", "fill"} => rs.at \in DOMAIN Order /\ out[Order[rs.at]] # None
    /\ bk.pc = "run" =>
          \A k \in DOMAIN Order : k < bk.at /\ Order[k] \in bk.list => out[Order[k]] \notin {None, Torn}
    /\ \A p \in Procs :
          /\ pc[p] = "migrating" => next[p] >= 1
          /\ pc[p] = "stores" => p = Server /\ next[p] \in 1 .. Len(Stores) + 1

(* What the migrations have made of a database *)
Migrations(c) ==
    /\ 1 .. c.version \subseteq c.catalog
    /\ 4 \in c.catalog => c.rows.tokens # "plain"
    /\ ~raced => c.catalog \subseteq 1 .. c.version \cup 1 .. 3

(* A process goes on from what it has migrated. *)
Opener(p) ==
    /\ pc[p] = "migrating" =>
          /\ 1 .. next[p] - 1 \subseteq View(Registry).catalog
          /\ ~raced => next[p] = View(Registry).version + 1
    /\ pc[p] \in {"stores", "up"} =>
          1 .. 7 \subseteq View(Registry).catalog /\ View(Registry).rows.tokens = "hashed"

(* The registry, the copy of it that may come back, and those who opened it *)
Schema ==
    Registry \notin undermined =>
        /\ Migrations(View(Registry))
        /\ out[Registry] \notin {None, Torn} => Migrations(out[Registry])
        /\ \A p \in Procs : Opener(p)

(* Unless two raced, one process migrates at a time. *)
Alone == ~raced => \A p, o \in Procs : pc[p] \in Opening /\ pc[o] \in Opening => p = o

Inv == TypeOK /\ AllSound /\ Transactions /\ Progress /\ Schema /\ Alone

-----------------------------------------------------------------------------
(* Sequences, pages and the processes that have a database open *)

(* Backup and restore go through the registry and then the other databases. *)
LEMMA Orders ==
    /\ Len(Stores) \in Nat /\ DOMAIN Stores = 1 .. Len(Stores)
    /\ Order \in Seq(DBs) /\ DOMAIN Order = 1 .. Len(Order)
    /\ Len(Order) = Len(Stores) + 1
    /\ Registry \in DBs
    /\ \A k \in 1 .. Len(Stores) : Stores[k] \in DBs \ {Registry}
    /\ \A k \in 1 .. Len(Order) : Order[k] \in DBs
    /\ \A d \in DBs : \E k \in 1 .. Len(Order) : d = Order[k]
    /\ \A d \in DBs \ {Registry} : \E k \in 1 .. Len(Stores) : d = Stores[k]
<1> DEFINE T == {Registry} \cup {Stores[k] : k \in DOMAIN Stores}
<1>1. Stores \in Seq({Stores[k] : k \in DOMAIN Stores})
  BY StorageAssumption
<1>2. Len(Stores) \in Nat /\ DOMAIN Stores = 1 .. Len(Stores) /\ Stores \in Seq(T)
  BY <1>1
<1>3. <<Registry>> \in Seq(T) /\ Len(<<Registry>>) = 1
  OBVIOUS
<1>4. /\ Order \in Seq(T) /\ Len(Order) = Len(Stores) + 1
      /\ Order[1] = Registry
      /\ \A k \in 1 .. Len(Stores) : Order[k + 1] = Stores[k]
  <2> HIDE DEF T
  <2>1. /\ Order \in Seq(T) /\ Len(Order) = 1 + Len(Stores)
        /\ \A i \in 1 .. 1 + Len(Stores) : Order[i] = IF i <= 1 THEN <<Registry>>[i] ELSE Stores[i - 1]
    BY <1>2, <1>3, ConcatProperties DEF Order
  <2>2. Order[1] = Registry
    BY <2>1, <1>2
  <2>3. ASSUME NEW k \in 1 .. Len(Stores) PROVE Order[k + 1] = Stores[k]
    <3>1. k + 1 \in 1 .. 1 + Len(Stores) /\ ~(k + 1 <= 1) /\ (k + 1) - 1 = k
      BY <1>2
    <3>2. QED
      BY <3>1, <2>1
  <2>4. QED
    BY <2>1, <2>2, <2>3, <1>2
<1>5. DOMAIN Order = 1 .. Len(Order)
  BY <1>4
<1>6. \A k \in 1 .. Len(Order) : Order[k] \in DBs
  BY <1>5 DEF DBs
<1>7. \A d \in DBs : \E k \in 1 .. Len(Order) : d = Order[k]
  BY <1>5 DEF DBs
<1>8. Order \in Seq(DBs)
  <2>1. Order \in [1 .. Len(Order) -> DBs]
    BY <1>4, <1>5, <1>6
  <2>2. QED
    BY <2>1, <1>4, <1>2
<1>9. 1 \in 1 .. Len(Order) /\ \A k \in 1 .. Len(Stores) : k + 1 \in 1 .. Len(Order)
  BY <1>4, <1>2
<1>10. Registry \in DBs
  BY <1>4, <1>6, <1>9
<1>11. \A k \in 1 .. Len(Stores) : Stores[k] \in DBs \ {Registry}
  BY <1>4, <1>6, <1>9, <1>2, StorageAssumption
<1>12. ASSUME NEW d \in DBs \ {Registry} PROVE \E k \in 1 .. Len(Stores) : d = Stores[k]
  <2>1. PICK k \in 1 .. Len(Order) : d = Order[k]
    BY <1>7
  <2>2. k # 1
    BY <2>1, <1>4
  <2>3. k - 1 \in 1 .. Len(Stores) /\ (k - 1) + 1 = k
    BY <2>2, <1>4, <1>2
  <2>4. Order[(k - 1) + 1] = Stores[k - 1]
    BY <2>3, <1>4
  <2>5. QED
    BY <2>1, <2>3, <2>4
<1>13. QED
  BY <1>2, <1>4, <1>5, <1>6, <1>7, <1>8, <1>10, <1>11, <1>12

(* An empty database has a page of each kind. *)
LEMMA BlankIsContent == Blank \in Content
BY StorageAssumption DEF Blank, Content, Rows, Tokens

(* What a process reads is a page of each kind. *)
LEMMA ViewType ==
    ASSUME TypeOK, NEW d \in DBs
    PROVE  /\ View(d) \in Content
           /\ View(d).catalog \in SUBSET (1 .. 7) /\ View(d).version \in 0 .. 7
           /\ View(d).rows.gen \in 0 .. MaxGen /\ View(d).rows.tokens \in Tokens
<1>1. log[d] \in Pages /\ file[d] \in Content
  BY DEF TypeOK
<1>2. Blank \in Content
  BY StorageAssumption DEF Blank, Content, Rows, Tokens
<1>3. View(d) \in Content
  BY <1>1, <1>2 DEF View, PageNames, Pages, Content
<1>4. QED
  BY <1>3 DEF Content, Rows

(* A page is never the missing one, nor a page of a file that was cut off. *)
LEMMA ContentIsThere ==
    ASSUME NEW c \in Content
    PROVE  /\ c # None /\ c # Torn /\ c.catalog # None /\ c.version # None /\ c.rows # None
           /\ [q \in PageNames |-> c[q]] = c
BY NoneAssumption DEF Content, PageNames

(* The pages a process reads depend on the log and, under it, on the file of a
   database that is whole. *)
LEMMA SameView ==
    ASSUME NEW d \in DBs, size'[d] = "whole" <=> size[d] = "whole",
           file'[d] = file[d], log'[d] = log[d]
    PROVE  View(d)' = View(d)
BY DEF View

(* Without a log a process reads the file. *)
LEMMA NoLogView ==
    ASSUME TypeOK, NEW d \in DBs, log[d] = NoLog
    PROVE  View(d) = IF size[d] = "whole" THEN file[d] ELSE Blank
<1>1. file[d] \in Content /\ Blank \in Content
  BY StorageAssumption DEF TypeOK, Blank, Content, Rows, Tokens
<1>2. QED
  BY <1>1 DEF View, NoLog, PageNames, Content

(* Playing the log into the file changes nothing for those who read. *)
LEMMA FoldedView ==
    ASSUME TypeOK, NEW S, Folded(S), NEW d \in DBs, size'[d] = "whole" <=> size[d] = "whole"
    PROVE  /\ View(d)' = View(d)
           /\ d \notin S \/ size[d] # "whole" => file'[d] = file[d] /\ log'[d] = log[d]
           /\ d \in S /\ size[d] = "whole" => file'[d] = View(d) /\ log'[d] = NoLog
<1>1. d \notin S \/ size[d] # "whole" => file'[d] = file[d] /\ log'[d] = log[d]
  BY DEF Folded
<1>2. d \in S /\ size[d] = "whole" => file'[d] = View(d) /\ log'[d] = NoLog
  BY DEF Folded
<1>3. CASE d \notin S \/ size[d] # "whole"
  BY <1>1, <1>2, <1>3, SameView
<1>4. CASE d \in S /\ size[d] = "whole"
  <2>1. View(d)' = [q \in PageNames |-> View(d)[q]]
    BY <1>2, <1>4 DEF View, NoLog, PageNames
  <2>2. QED
    BY <2>1, <1>1, <1>2, <1>4, ViewType, ContentIsThere
<1>5. QED
  BY <1>3, <1>4

(* Who has a database open changes only with a process that opens or ends. *)
LEMMA UsersLeave ==
    ASSUME TypeOK, NEW p \in Procs, NEW d \in DBs,
           pc' = [pc EXCEPT ![p] = "down"], next' = [next EXCEPT ![p] = 0]
    PROVE  Users(d)' = Users(d) \ {p}
BY DEF Users, StoreOpen, TypeOK

(* Nobody comes or goes while no process moves. *)
LEMMA UsersSame ==
    ASSUME NEW d \in DBs, pc' = pc, next' = next
    PROVE  Users(d)' = Users(d)
BY DEF Users, StoreOpen

(* A process that reads the version or migrates has the registry open and keeps it. *)
LEMMA UsersOpening ==
    ASSUME TypeOK, NEW p \in Procs, NEW d \in DBs, pc[p] \in Opening, pc'[p] \in Opening,
           \A o \in Procs \ {p} : pc'[o] = pc[o] /\ next'[o] = next[o]
    PROVE  Users(d)' = Users(d)
<1>1. \A o \in Procs \ {p} : o \in Users(d)' <=> o \in Users(d)
  BY DEF Users, StoreOpen
<1>2. p \in Users(d)' <=> p \in Users(d)
  BY DEF Users, StoreOpen, Opening
<1>3. Users(d) \subseteq Procs /\ Users(d)' \subseteq Procs
  BY DEF Users
<1>4. QED
  BY <1>1, <1>2, <1>3

(* OpenFile adds the process to those that have the registry open. *)
LEMMA UsersOpen ==
    ASSUME TypeOK, NEW p \in Procs, OpenFile(p), NEW d \in DBs
    PROVE  Users(d)' = IF d = Registry THEN Users(d) \cup {p} ELSE Users(d)
<1>1. /\ pc[p] = "down" /\ pc'[p] = "opening"
      /\ \A o \in Procs \ {p} : pc'[o] = pc[o]
      /\ next' = next
  BY DEF OpenFile, TypeOK
<1>2. \A o \in Procs \ {p} : o \in Users(d)' <=> o \in Users(d)
  BY <1>1 DEF Users, StoreOpen
<1>3. p \in Users(d)' <=> d = Registry
  BY <1>1 DEF Users, StoreOpen
<1>4. p \notin Users(d)
  BY <1>1 DEF Users, StoreOpen
<1>5. Users(d) \subseteq Procs /\ Users(d)' \subseteq Procs
  BY DEF Users
<1>6. QED
  BY <1>2, <1>3, <1>4, <1>5

(* The end of Open leaves the process with what it had. *)
LEMMA UsersOpened ==
    ASSUME TypeOK, NEW p \in Procs, pc[p] = "migrating", NEW d \in DBs,
           pc' = [pc EXCEPT ![p] = IF p = Server THEN "stores" ELSE "up"],
           next' = [next EXCEPT ![p] = 1]
    PROVE  Users(d)' = Users(d)
<1>1. /\ pc'[p] = IF p = Server THEN "stores" ELSE "up"
      /\ next'[p] = 1
      /\ \A o \in Procs \ {p} : pc'[o] = pc[o] /\ next'[o] = next[o]
  BY DEF TypeOK
<1>2. \A o \in Procs \ {p} : o \in Users(d)' <=> o \in Users(d)
  BY <1>1 DEF Users, StoreOpen
<1>3. p \in Users(d)' <=> p \in Users(d)
  BY <1>1 DEF Users, StoreOpen
<1>4. Users(d) \subseteq Procs /\ Users(d)' \subseteq Procs
  BY DEF Users
<1>5. QED
  BY <1>2, <1>3, <1>4

(* The server has one more database open after OpenStore. *)
LEMMA UsersStore ==
    ASSUME TypeOK, Progress, NEW p \in Procs, pc[p] = "stores",
           pc' = pc, next' = [next EXCEPT ![p] = @ + 1], NEW d \in DBs
    PROVE  Users(d)' = IF d = Stores[next[p]] THEN Users(d) \cup {p} ELSE Users(d)
<1>1. /\ next'[p] = next[p] + 1
      /\ \A o \in Procs \ {p} : next'[o] = next[o]
      /\ p = Server /\ next[p] \in 1 .. Len(Stores) + 1 /\ Len(Stores) \in Nat
  BY Orders DEF TypeOK, Progress
<1>2. \A o \in Procs \ {p} : o \in Users(d)' <=> o \in Users(d)
  BY <1>1 DEF Users, StoreOpen
<1>3. (\E k \in 1 .. next'[p] - 1 : Stores[k] = d)
         <=> (d = Stores[next[p]] \/ \E k \in 1 .. next[p] - 1 : Stores[k] = d)
  BY <1>1
<1>4. p \in Users(d)' <=> d = Stores[next[p]] \/ p \in Users(d)
  <2>1. CASE d = Registry
    BY <2>1 DEF Users
  <2>2. CASE d # Registry
    BY <2>2, <1>1, <1>3 DEF Users, StoreOpen
  <2>3. QED
    BY <2>1, <2>2
<1>5. Users(d) \subseteq Procs /\ Users(d)' \subseteq Procs
  BY DEF Users
<1>6. QED
  BY <1>2, <1>4, <1>5

(* A server that has opened every store goes on with all of them. *)
LEMMA UsersServe ==
    ASSUME TypeOK, Progress, NEW p \in Procs, Serve(p), NEW d \in DBs
    PROVE  Users(d)' = Users(d)
<1>1. /\ pc[p] = "stores" /\ pc'[p] = "up"
      /\ \A o \in Procs \ {p} : pc'[o] = pc[o] /\ next'[o] = next[o]
      /\ p = Server /\ next[p] = Len(Stores) + 1 /\ Len(Stores) \in Nat
  BY Orders DEF Serve, TypeOK, Progress
<1>2. \A o \in Procs \ {p} : o \in Users(d)' <=> o \in Users(d)
  BY <1>1 DEF Users, StoreOpen
<1>3. d # Registry => \E k \in 1 .. next[p] - 1 : Stores[k] = d
  BY <1>1, Orders
<1>4. p \in Users(d)' /\ p \in Users(d)
  BY <1>1, <1>3 DEF Users, StoreOpen
<1>5. Users(d) \subseteq Procs /\ Users(d)' \subseteq Procs
  BY DEF Users
<1>6. QED
  BY <1>2, <1>4, <1>5

(* Whoever is in a transaction has the database open. *)
LEMMA TransactionUses ==
    ASSUME Transactions, NEW d \in DBs, tx[d] # None
    PROVE  tx[d] \in Users(d) /\ pc[tx[d]] = "up"
BY DEF Transactions, Users, StoreOpen

(* The server alone opens the databases that are not the registry. *)
LEMMA OneServer ==
    ASSUME NEW d \in DBs, d # Registry
    PROVE  Users(d) \subseteq {Server}
BY DEF Users, StoreOpen

-----------------------------------------------------------------------------
(* Databases that were not restored while they were in use stay sound. *)

(* A step that leaves a database, and adds nobody to those who have it open *)
LEMMA Untouched ==
    ASSUME TypeOK, NEW d \in DBs, Sound(d),
           size'[d] = size[d], file'[d] = file[d], log'[d] = log[d], tx'[d] = tx[d],
           out'[d] = out[d], committed'[d] = committed[d],
           Users(d)' \subseteq Users(d), Restoring(d)' => Restoring(d)
    PROVE  Sound(d)'
<1>1. View(d)' = View(d)
  BY SameView
<1>2. QED
  BY <1>1 DEF Sound, Idle, Journal, Fresh

(* Playing the log of a database without a transaction *)
LEMMA FoldSound ==
    ASSUME TypeOK, NEW S, Folded(S), NEW d \in DBs, Sound(d),
           d \in S => d = Registry \/ tx[d] = None,
           size'[d] = size[d], tx'[d] = tx[d], out'[d] = out[d], committed'[d] = committed[d],
           Users(d)' \subseteq Users(d), Restoring(d)' => Restoring(d)
    PROVE  Sound(d)'
<1>1. View(d)' = View(d)
  BY FoldedView
<1>2. CASE d \notin S \/ size[d] # "whole"
  BY <1>2, FoldedView, Untouched
<1>3. CASE d \in S /\ size[d] = "whole"
  <2>1. log'[d] = NoLog
    BY <1>3, FoldedView
  <2>2. (size[d] = "whole" => View(d) = committed[d])'
    BY <1>1 DEF Sound
  <2>3. Idle(d)'
    BY <2>1 DEF Sound, Idle
  <2>4. Journal(d)'
    BY <2>1, <1>3 DEF Journal
  <2>5. Fresh(d)'
    BY DEF Sound, Fresh
  <2>6. QED
    BY <2>2, <2>3, <2>4, <2>5 DEF Sound
<1>4. QED
  BY <1>2, <1>3

(* A process that ends plays the log of what it was the last to have open. *)
LEMMA LeaveSound ==
    ASSUME TypeOK, Transactions, NEW p \in Procs, Leave(p), NEW d \in DBs, Sound(d), tx[d] # p,
           size' = size, tx' = tx, out' = out, committed' = committed, rs' = rs
    PROVE  Sound(d)'
<1>1. Users(d)' = Users(d) \ {p}
  BY UsersLeave DEF Leave
<1>2. Users(d) = {p} => tx[d] = None
  BY TransactionUses
<1>3. Restoring(d)' <=> Restoring(d)
  BY DEF Restoring
<1>4. QED
  BY <1>1, <1>2, <1>3, FoldSound DEF Leave

(* The first process to open the registry makes it a new database, if there is none;
   under a restore it undermines it. *)
LEMMA OpenFileSound ==
    ASSUME Inv, NEW p \in Procs, OpenFile(p), NEW d \in DBs \ undermined'
    PROVE  Sound(d)'
<1>1. Users(d)' = IF d = Registry THEN Users(d) \cup {p} ELSE Users(d)
  BY UsersOpen DEF Inv
<1>2. d \notin undermined /\ Sound(d) /\ TypeOK
  BY DEF OpenFile, Disturbs, Inv, AllSound
<1>3. UNCHANGED <<log, tx, out, rs>> /\ (Restoring(d)' <=> Restoring(d))
  BY DEF OpenFile, Restoring
<1>4. CASE d # Registry
  <2>1. size'[d] = size[d] /\ file'[d] = file[d] /\ committed'[d] = committed[d]
    BY <1>4, <1>2 DEF OpenFile, TypeOK
  <2>2. QED
    BY <2>1, <1>1, <1>2, <1>3, <1>4, Untouched
<1>5. CASE d = Registry
  <2>1. ~Restoring(d)
    BY <1>5, Orders DEF OpenFile, Disturbs
  <2>2. /\ size'[d] = "whole"
        /\ file'[d] = IF size[d] = "whole" THEN file[d] ELSE Blank
        /\ committed'[d] = IF size[d] = "whole" THEN committed[d] ELSE Blank
    BY <1>2, <1>5, Orders DEF OpenFile, TypeOK
  <2>3. View(d)' = committed'[d]
    <3>1. CASE size[d] = "whole"
      BY <3>1, <2>2, <1>2, <1>3, SameView DEF Sound
    <3>2. CASE size[d] # "whole"
      <4>1. log'[d] = NoLog /\ file'[d] = Blank
        BY <3>2, <2>2, <1>2, <1>3 DEF Sound, Idle
      <4>2. View(d)' = [q \in PageNames |-> Blank[q]]
        BY <4>1, <2>2 DEF View, NoLog, PageNames
      <4>3. QED
        BY <4>2, <3>2, <2>2 DEF Blank, PageNames
    <3>3. QED
      BY <3>1, <3>2
  <2>4. QED
    BY <2>1, <2>2, <2>3, <1>3, <1>5 DEF Sound, Idle, Journal, Fresh
<1>6. QED
  BY <1>4, <1>5

(* OpenStore finds a journal that a crash left behind and plays it back. *)
LEMMA OpenStoreSound ==
    ASSUME Inv, NEW p \in Procs, OpenStore(p), NEW d \in DBs \ undermined'
    PROVE  Sound(d)'
<1> DEFINE s == Stores[next[p]]
<1>1. /\ d \notin undermined /\ Sound(d) /\ TypeOK /\ Transactions /\ Progress
      /\ UNCHANGED <<tx, out, rs>> /\ (Restoring(d)' <=> Restoring(d))
      /\ pc[p] = "stores" /\ p = Server
      /\ next[p] \in 1 .. Len(Stores) /\ s \in DBs \ {Registry}
  BY Orders DEF OpenStore, Disturbs, Inv, AllSound, Restoring, Progress
<1>2. CASE Leave(p) /\ UNCHANGED <<size, committed>>
  <2>1. tx[d] # p
    BY <1>1, TransactionUses, StorageAssumption
  <2>2. QED
    BY <2>1, <1>1, <1>2, LeaveSound
<1>3. CASE /\ size' = [size EXCEPT ![s] = "whole"]
           /\ file' = [file EXCEPT ![s] = IF size[s] = "whole" THEN View(s) ELSE Blank]
           /\ log' = [log EXCEPT ![s] = NoLog]
           /\ committed' = [committed EXCEPT ![s] = IF size[s] = "whole" THEN @ ELSE Blank]
           /\ next' = [next EXCEPT ![p] = @ + 1]
           /\ Disturbs(s, Restoring(s))
           /\ UNCHANGED pc
  <2>1. Users(d)' = IF d = s THEN Users(d) \cup {p} ELSE Users(d)
    BY <1>1, <1>3, UsersStore
  <2>2. CASE d # s
    <3>1. size'[d] = size[d] /\ file'[d] = file[d] /\ log'[d] = log[d] /\ committed'[d] = committed[d]
      BY <1>1, <1>3, <2>2 DEF TypeOK
    <3>2. QED
      BY <3>1, <2>1, <2>2, <1>1, Untouched
  <2>3. CASE d = s
    <3>1. ~Restoring(d)
      BY <1>1, <1>3, <2>3 DEF Disturbs
    <3>2. /\ size'[d] = "whole" /\ log'[d] = NoLog
          /\ file'[d] = IF size[d] = "whole" THEN View(d) ELSE Blank
          /\ committed'[d] = IF size[d] = "whole" THEN committed[d] ELSE Blank
      BY <1>1, <1>3, <2>3 DEF TypeOK
    <3>3. View(d)' = [q \in PageNames |-> file'[d][q]]
      BY <3>2 DEF View, NoLog, PageNames
    <3>4. View(d)' = committed'[d]
      <4>1. CASE size[d] = "whole"
        <5>1. [q \in PageNames |-> View(d)[q]] = View(d)
          BY <1>1, ViewType, ContentIsThere
        <5>2. QED
          BY <5>1, <4>1, <3>2, <3>3, <1>1 DEF Sound
      <4>2. CASE size[d] # "whole"
        BY <4>2, <3>2, <3>3 DEF Blank, PageNames
      <4>3. QED
        BY <4>1, <4>2
    <3>5. tx[d] = None
      BY <1>1, <2>3, TransactionUses DEF Transactions
    <3>6. QED
      BY <3>1, <3>2, <3>4, <3>5, <1>1 DEF Sound, Idle, Journal, Fresh
  <2>4. QED
    BY <2>2, <2>3
<1>4. QED
  <2>1. \/ Leave(p) /\ UNCHANGED <<size, committed>>
        \/ /\ size' = [size EXCEPT ![s] = "whole"]
           /\ file' = [file EXCEPT ![s] = IF size[s] = "whole" THEN View(s) ELSE Blank]
           /\ log' = [log EXCEPT ![s] = NoLog]
           /\ committed' = [committed EXCEPT ![s] = IF size[s] = "whole" THEN @ ELSE Blank]
           /\ next' = [next EXCEPT ![p] = @ + 1]
           /\ Disturbs(s, Restoring(s))
           /\ UNCHANGED pc
    BY DEF OpenStore
  <2>2. QED
    BY <2>1, <1>2, <1>3

(* A statement on the registry changes its log, and no file. *)
LEMMA WriteEffect ==
    ASSUME TypeOK, NEW pages, DOMAIN pages \subseteq PageNames, Write(pages), UNCHANGED <<size, file>>,
           \A q \in DOMAIN pages : pages[q] # None
    PROVE  /\ \A d \in DBs \ {Registry} : log'[d] = log[d] /\ committed'[d] = committed[d]
           /\ committed'[Registry] =
                 [q \in PageNames |-> IF q \in DOMAIN pages THEN pages[q] ELSE committed[Registry][q]]
           /\ View(Registry)' =
                 [q \in PageNames |-> IF q \in DOMAIN pages THEN pages[q] ELSE View(Registry)[q]]
<1>1. Registry \in DBs /\ log \in [DBs -> Pages] /\ committed \in [DBs -> Content]
  BY Orders DEF TypeOK
<1>2. log'[Registry] =
          [q \in PageNames |-> IF q \in DOMAIN pages THEN pages[q] ELSE log[Registry][q]]
  BY <1>1 DEF Write
<1>3. View(Registry)' =
          [q \in PageNames |-> IF q \in DOMAIN pages THEN pages[q] ELSE View(Registry)[q]]
  BY <1>2 DEF View
<1>4. committed'[Registry] =
          [q \in PageNames |-> IF q \in DOMAIN pages THEN pages[q] ELSE committed[Registry][q]]
  BY <1>1 DEF Write
<1>5. \A d \in DBs \ {Registry} : log'[d] = log[d] /\ committed'[d] = committed[d]
  BY <1>1 DEF Write
<1>6. QED
  BY <1>3, <1>4, <1>5

(* What a statement writes is committed and read at once. *)
LEMMA WriteSound ==
    ASSUME TypeOK, NEW pages, DOMAIN pages \subseteq PageNames, Write(pages),
           \A q \in DOMAIN pages : pages[q] # None, NEW d \in DBs, Sound(d),
           size' = size, file' = file, tx' = tx, out' = out, rs' = rs,
           Users(d)' = Users(d), Users(Registry) # {}
    PROVE  Sound(d)'
<1>1. Restoring(d)' <=> Restoring(d)
  BY DEF Restoring
<1>2. CASE d # Registry
  BY <1>1, <1>2, WriteEffect, Untouched
<1>3. CASE d = Registry
  <2>1. size[d] = "whole" /\ ~Restoring(d)
    BY <1>3 DEF Sound, Idle
  <2>2. View(d)' = committed'[d]
    <3>1. /\ committed'[d] = [q \in PageNames |-> IF q \in DOMAIN pages THEN pages[q] ELSE committed[d][q]]
          /\ View(d)' = [q \in PageNames |-> IF q \in DOMAIN pages THEN pages[q] ELSE View(d)[q]]
      BY <1>3, WriteEffect
    <3>2. View(d) = committed[d]
      BY <2>1 DEF Sound
    <3>3. QED
      BY <3>1, <3>2
  <2>3. QED
    BY <2>1, <2>2, <1>1, <1>3 DEF Sound, Idle, Journal, Fresh
<1>4. QED
  BY <1>2, <1>3

(* What migration i writes, and what Open writes at its end *)
MigrationPages(i) ==
    [catalog |-> Migrated(i, View(Registry).catalog), version |-> VersionAfter(i),
     rows |-> [View(Registry).rows EXCEPT !.tokens = Hashed(i, @)]]
BackfillPages == [rows |-> [View(Registry).rows EXCEPT !.tokens = Backfilled(@)]]

(* The pages a migration writes *)
LEMMA MigrationPagesAre ==
    ASSUME TypeOK, NEW i \in 1 .. 7
    PROVE  /\ MigrationPages(i) \in Content
           /\ DOMAIN MigrationPages(i) = PageNames /\ MigrationPages(i).version = i
           /\ MigrationPages(i).catalog = Migrated(i, View(Registry).catalog)
           /\ MigrationPages(i).rows.gen = View(Registry).rows.gen
           /\ MigrationPages(i).rows.tokens = Hashed(i, View(Registry).rows.tokens)
           /\ \A q \in DOMAIN MigrationPages(i) : MigrationPages(i)[q] # None
<1>1. View(Registry) \in Content
  BY Orders, ViewType
<1>2. View(Registry).rows \in Rows /\ View(Registry).catalog \subseteq 1 .. 7
  BY <1>1 DEF Content
<1>3. [View(Registry).rows EXCEPT !.tokens = Hashed(i, @)] \in Rows
  BY <1>2 DEF Rows, Hashed, Tokens
<1>4. Migrated(i, View(Registry).catalog) \subseteq 1 .. 7 /\ VersionAfter(i) = i
  BY <1>2 DEF Migrated, VersionAfter
<1>5. MigrationPages(i) \in Content
  BY <1>3, <1>4 DEF MigrationPages, Content
<1>6. /\ DOMAIN MigrationPages(i) = PageNames /\ MigrationPages(i).version = i
      /\ MigrationPages(i).catalog = Migrated(i, View(Registry).catalog)
      /\ MigrationPages(i).rows = [View(Registry).rows EXCEPT !.tokens = Hashed(i, @)]
  BY <1>4 DEF MigrationPages, PageNames
<1>7. /\ MigrationPages(i).rows.gen = View(Registry).rows.gen
      /\ MigrationPages(i).rows.tokens = Hashed(i, View(Registry).rows.tokens)
  BY <1>6, <1>2 DEF Rows
<1>8. \A q \in DOMAIN MigrationPages(i) : MigrationPages(i)[q] # None
  BY <1>5, <1>6, ContentIsThere DEF PageNames
<1>9. QED
  BY <1>5, <1>6, <1>7, <1>8

(* The page the end of Open writes *)
LEMMA BackfillPagesAre ==
    ASSUME TypeOK
    PROVE  /\ BackfillPages.rows \in Rows
           /\ DOMAIN BackfillPages = {"rows"}
           /\ BackfillPages.rows.gen = View(Registry).rows.gen
           /\ BackfillPages.rows.tokens = Backfilled(View(Registry).rows.tokens)
           /\ \A q \in DOMAIN BackfillPages : BackfillPages[q] # None
<1>1. View(Registry) \in Content
  BY Orders, ViewType
<1>2. View(Registry).rows \in Rows
  BY <1>1 DEF Content
<1>3. BackfillPages.rows = [View(Registry).rows EXCEPT !.tokens = Backfilled(@)]
  BY DEF BackfillPages
<1>4. DOMAIN BackfillPages = {"rows"}
  BY DEF BackfillPages
<1>5. BackfillPages.rows \in Rows
  BY <1>2, <1>3 DEF Rows, Backfilled, Tokens
<1>6. QED
  BY <1>2, <1>3, <1>4, <1>5, NoneAssumption DEF Rows

(* A migration runs, or Open fails and the process ends. *)
LEMMA MigrateEffect ==
    ASSUME TypeOK, Progress, NEW p \in Procs, Migrate(p)
    PROVE  /\ pc[p] = "migrating" /\ next[p] \in 1 .. 7
           /\ UNCHANGED <<env, size, tx, bk, out, rs, undermined, raced>>
           /\ \/ /\ Runs(next[p], View(Registry).catalog)
                 /\ Write(MigrationPages(next[p]))
                 /\ next' = [next EXCEPT ![p] = next[p] + 1]
                 /\ UNCHANGED <<file, pc>>
              \/ Leave(p) /\ UNCHANGED committed
<1>1. next[p] \in 1 .. 7
  BY DEF Migrate, Progress, TypeOK
<1>2. QED
  BY <1>1 DEF Migrate, MigrationPages

(* So does the end of Open. *)
LEMMA BackfillEffect ==
    ASSUME NEW p \in Procs, Backfill(p)
    PROVE  /\ pc[p] = "migrating" /\ next[p] > 7
           /\ UNCHANGED <<env, size, tx, bk, out, rs, undermined, raced>>
           /\ \/ /\ Write(BackfillPages)
                 /\ pc' = [pc EXCEPT ![p] = IF p = Server THEN "stores" ELSE "up"]
                 /\ next' = [next EXCEPT ![p] = 1]
                 /\ UNCHANGED file
              \/ Leave(p) /\ UNCHANGED committed
BY DEF Backfill, BackfillPages

(* Migrations commit to the registry, or close it. *)
LEMMA MigrateSound ==
    ASSUME Inv, NEW p \in Procs, Migrate(p), NEW d \in DBs \ undermined'
    PROVE  Sound(d)'
<1>1. d \notin undermined /\ Sound(d) /\ TypeOK /\ Transactions /\ Progress
  BY MigrateEffect DEF Inv, AllSound
<1>2. CASE Leave(p) /\ UNCHANGED committed
  <2>1. tx[d] # p
    BY <1>1, MigrateEffect, TransactionUses, StorageAssumption
  <2>2. QED
    BY <2>1, <1>1, <1>2, MigrateEffect, LeaveSound
<1>3. CASE /\ Write(MigrationPages(next[p]))
           /\ next' = [next EXCEPT ![p] = next[p] + 1]
           /\ UNCHANGED <<file, pc>>
  <2>1. Users(d)' = Users(d)
    <3>1. pc[p] \in Opening /\ pc'[p] \in Opening
      BY <1>1, <1>3, MigrateEffect DEF Opening
    <3>2. \A o \in Procs \ {p} : pc'[o] = pc[o] /\ next'[o] = next[o]
      BY <1>1, <1>3 DEF TypeOK
    <3>3. QED
      BY <1>1, <3>1, <3>2, UsersOpening
  <2>2. p \in Users(Registry)
    BY <1>1, MigrateEffect DEF Users
  <2>3. QED
    BY <2>1, <2>2, <1>1, <1>3, MigrateEffect, MigrationPagesAre, WriteSound
<1>4. QED
  BY <1>1, <1>2, <1>3, MigrateEffect

(* So does the end of Open. *)
LEMMA BackfillSound ==
    ASSUME Inv, NEW p \in Procs, Backfill(p), NEW d \in DBs \ undermined'
    PROVE  Sound(d)'
<1>1. d \notin undermined /\ Sound(d) /\ TypeOK /\ Transactions
  BY BackfillEffect DEF Inv, AllSound
<1>2. CASE Leave(p) /\ UNCHANGED committed
  <2>1. tx[d] # p
    BY <1>1, BackfillEffect, TransactionUses, StorageAssumption
  <2>2. QED
    BY <2>1, <1>1, <1>2, BackfillEffect, LeaveSound
<1>3. CASE /\ Write(BackfillPages)
           /\ pc' = [pc EXCEPT ![p] = IF p = Server THEN "stores" ELSE "up"]
           /\ next' = [next EXCEPT ![p] = 1]
           /\ UNCHANGED file
  <2>1. Users(d)' = Users(d)
    BY <1>1, <1>3, BackfillEffect, UsersOpened
  <2>2. p \in Users(Registry)
    BY <1>1, BackfillEffect DEF Users
  <2>3. DOMAIN BackfillPages \subseteq PageNames
    BY <1>1, BackfillPagesAre DEF PageNames
  <2>4. QED
    BY <2>1, <2>2, <2>3, <1>1, <1>3, BackfillEffect, BackfillPagesAre, WriteSound
<1>4. QED
  BY <1>2, <1>3, BackfillEffect

(* A transaction on a database that is not in WAL mode saves the old rows in
   the journal before it changes them in the file. *)
LEMMA BeginTxEffect ==
    ASSUME Inv, NEW p \in Procs, NEW s \in DBs, BeginTx(p, s)
    PROVE  /\ pc[p] = "up" /\ p \in Users(s) /\ tx[s] = None /\ size[s] = "whole"
           /\ tx' = [tx EXCEPT ![s] = p]
           /\ \A d \in DBs \ {s} : tx'[d] = tx[d] /\ file'[d] = file[d] /\ log'[d] = log[d]
           /\ s = Registry => UNCHANGED <<file, log>>
           /\ s # Registry /\ s \notin undermined =>
                 /\ log[s] = NoLog
                 /\ log'[s] = [catalog |-> None, version |-> None, rows |-> file[s].rows]
                 /\ file'[s] = [file[s] EXCEPT !.rows.gen = file[s].rows.gen + 1]
                 /\ View(s)' = View(s)
           /\ UNCHANGED <<env, size, pc, next, bk, out, rs, committed, undermined, raced>>
<1>1. /\ pc[p] = "up" /\ p \in Users(s) /\ tx[s] = None /\ size[s] = "whole"
      /\ tx' = [tx EXCEPT ![s] = p]
      /\ s = Registry => UNCHANGED <<file, log>>
      /\ s # Registry =>
            /\ log' = [log EXCEPT ![s].rows = View(s).rows]
            /\ file' = [file EXCEPT ![s].rows.gen = View(s).rows.gen + 1]
      /\ UNCHANGED <<env, size, pc, next, bk, out, rs, committed, undermined, raced>>
  BY DEF BeginTx, history
<1>2. /\ TypeOK /\ tx \in [DBs -> Procs \cup {None}] /\ file \in [DBs -> Content]
      /\ log \in [DBs -> Pages]
  BY DEF Inv, TypeOK
<1>3. \A d \in DBs \ {s} : tx'[d] = tx[d] /\ file'[d] = file[d] /\ log'[d] = log[d]
  BY <1>1, <1>2
<1>4. ASSUME s # Registry, s \notin undermined
      PROVE  /\ log[s] = NoLog
             /\ log'[s] = [catalog |-> None, version |-> None, rows |-> file[s].rows]
             /\ file'[s] = [file[s] EXCEPT !.rows.gen = file[s].rows.gen + 1]
             /\ View(s)' = View(s)
  <2>1. log[s] = NoLog
    BY <1>1, <1>4 DEF Inv, AllSound, Sound, Journal
  <2>2. View(s) = file[s]
    BY <1>1, <1>2, <2>1, NoLogView
  <2>3. log'[s] = [NoLog EXCEPT !.rows = file[s].rows]
    BY <1>1, <1>2, <1>4, <2>1, <2>2
  <2>4. log'[s] = [catalog |-> None, version |-> None, rows |-> file[s].rows]
    BY <2>3 DEF NoLog
  <2>5. file'[s] = [file[s] EXCEPT !.rows.gen = file[s].rows.gen + 1]
    BY <1>1, <1>2, <1>4, <2>2
  <2>6. file[s] \in Content
    BY <1>2
  <2>7. file[s].rows # None /\ [q \in PageNames |-> file[s][q]] = file[s]
    BY <2>6, ContentIsThere
  <2>8. file'[s].catalog = file[s].catalog /\ file'[s].version = file[s].version
    BY <2>5, <2>6 DEF Content
  <2>9. View(s)' = [q \in PageNames |-> file[s][q]]
    BY <2>4, <2>7, <2>8, <1>1 DEF View, PageNames
  <2>10. QED
    BY <2>1, <2>2, <2>4, <2>5, <2>7, <2>9
<1>5. QED
  BY <1>1, <1>3, <1>4

(* A transaction that is open is not read by anybody else. *)
LEMMA BeginTxSound ==
    ASSUME Inv, NEW p \in Procs, NEW s \in DBs, BeginTx(p, s), NEW d \in DBs \ undermined'
    PROVE  Sound(d)'
<1>1. /\ d \notin undermined /\ Sound(d) /\ TypeOK
      /\ size' = size /\ out' = out /\ committed' = committed /\ pc' = pc /\ next' = next
      /\ rs' = rs
  BY BeginTxEffect DEF Inv, AllSound
<1>2. Users(d)' = Users(d) /\ (Restoring(d)' <=> Restoring(d))
  BY <1>1, UsersSame DEF Restoring
<1>3. CASE d # s
  <2>1. \A x \in DBs \ {s} : tx'[x] = tx[x] /\ file'[x] = file[x] /\ log'[x] = log[x]
    BY BeginTxEffect
  <2>2. tx'[d] = tx[d] /\ file'[d] = file[d] /\ log'[d] = log[d]
    BY <2>1, <1>3
  <2>3. QED
    BY <2>2, <1>1, <1>2, Untouched
<1>4. CASE d = s
  <2>1. /\ size'[d] = "whole" /\ out'[d] = out[d] /\ committed'[d] = committed[d]
        /\ tx'[d] = p /\ p # None /\ ~Restoring(d)
    <3>1. /\ size[s] = "whole" /\ p \in Users(s) /\ tx' = [tx EXCEPT ![s] = p]
          /\ tx \in [DBs -> Procs \cup {None}]
      BY <1>1, BeginTxEffect DEF TypeOK
    <3>2. QED
      BY <3>1, <1>1, <1>4, StorageAssumption DEF Sound, Idle
  <2>2. View(d)' = View(d)
    BY <1>1, <1>4, BeginTxEffect, SameView
  <2>3. Journal(d)'
    <3>1. CASE d = Registry
      BY <3>1 DEF Journal
    <3>2. CASE d # Registry
      <4>1. /\ log'[d] = [catalog |-> None, version |-> None, rows |-> file[d].rows]
            /\ file'[d] = [file[d] EXCEPT !.rows.gen = file[d].rows.gen + 1]
        BY <3>2, <1>1, <1>4, BeginTxEffect
      <4>2. file[d] \in Content
        BY <1>1 DEF TypeOK
      <4>3. file[d].rows \in Rows /\ file[d].rows # None
        BY <4>2, NoneAssumption DEF Content
      <4>4. file'[d].rows = [file[d].rows EXCEPT !.gen = @ + 1]
        BY <4>1, <4>2, <4>3 DEF Content, Rows
      <4>5. QED
        BY <4>1, <4>3, <4>4, <2>1 DEF Journal
    <3>3. QED
      BY <3>1, <3>2
  <2>4. QED
    BY <2>1, <2>2, <2>3, <1>1, <1>2, BeginTxEffect DEF Sound, Idle, Fresh
<1>5. QED
  BY <1>3, <1>4

(* A commit makes the rows of the transaction those that everybody reads: by a
   new page in the write-ahead log, or by removing the journal. *)
LEMMA CommitTxEffect ==
    ASSUME Inv, NEW p \in Procs, NEW s \in DBs, CommitTx(p, s)
    PROVE  /\ tx[s] = p /\ p \in Users(s)
           /\ tx' = [tx EXCEPT ![s] = None]
           /\ \A d \in DBs \ {s} : tx'[d] = tx[d] /\ log'[d] = log[d] /\ committed'[d] = committed[d]
           /\ s # Registry => log'[s] = NoLog
           /\ s \notin undermined =>
                 /\ size[s] = "whole"
                 /\ View(s)' = [View(s) EXCEPT !.rows = [View(s).rows EXCEPT !.gen = @ + 1]]
                 /\ committed'[s] = View(s)'
           /\ UNCHANGED <<env, size, file, pc, next, bk, out, rs, undermined, raced>>
<1> DEFINE new == [View(s).rows EXCEPT !.gen = @ + 1]
<1>1. /\ tx[s] = p /\ View(s).rows.gen < MaxGen
      /\ tx' = [tx EXCEPT ![s] = None]
      /\ log' = [log EXCEPT ![s] = IF s = Registry THEN [log[s] EXCEPT !.rows = new] ELSE NoLog]
      /\ committed' = [committed EXCEPT ![s].rows = new]
      /\ UNCHANGED <<env, size, file, pc, next, bk, out, rs, undermined, raced>>
  BY DEF CommitTx
<1>2. /\ TypeOK /\ tx \in [DBs -> Procs \cup {None}] /\ file \in [DBs -> Content]
      /\ log \in [DBs -> Pages] /\ committed \in [DBs -> Content]
  BY DEF Inv, TypeOK
<1>3. \A d \in DBs \ {s} : tx'[d] = tx[d] /\ log'[d] = log[d] /\ committed'[d] = committed[d]
  BY <1>1, <1>2
<1>4. p \in Users(s) /\ p # None
  BY <1>1, StorageAssumption, TransactionUses DEF Inv
<1>5. s # Registry => log'[s] = NoLog
  BY <1>1, <1>2
<1>6. ASSUME s \notin undermined
      PROVE  /\ size[s] = "whole"
             /\ View(s)' = [View(s) EXCEPT !.rows = new]
             /\ committed'[s] = View(s)'
  <2>1. size[s] = "whole" /\ View(s) = committed[s] /\ Journal(s)
    BY <1>4, <1>6 DEF Inv, AllSound, Sound, Idle
  <2>2. committed'[s] = [View(s) EXCEPT !.rows = new]
    BY <1>1, <1>2, <2>1
  <2>3. View(s) \in Content
    BY <1>2, ViewType
  <2>4. View(s).rows \in Rows /\ View(s).rows.gen \in 0 .. MaxGen
    BY <2>3 DEF Content, Rows
  <2>5. new \in Rows
    <3>1. View(s).rows.gen + 1 \in 0 .. MaxGen
      BY <2>4, <1>1, StorageAssumption
    <3>2. QED
      BY <2>4, <3>1 DEF Rows
  <2>6. new # None
    BY <2>5, NoneAssumption
  <2>7. [View(s) EXCEPT !.rows = new] = [q \in PageNames |-> IF q = "rows" THEN new ELSE View(s)[q]]
    <3> HIDE DEF new
    <3> QED
      BY <2>3 DEF Content, PageNames
  <2>8. View(s)' = [q \in PageNames |-> IF q = "rows" THEN new ELSE View(s)[q]]
    <3>1. CASE s = Registry
      <4>1. log'[s] = [log[s] EXCEPT !.rows = new] /\ log[s] \in Pages
        BY <1>1, <1>2, <3>1
      <4>2. log'[s].rows = new /\ log'[s].catalog = log[s].catalog /\ log'[s].version = log[s].version
        <5> HIDE DEF new
        <5> QED
          BY <4>1 DEF Pages
      <4>3. size'[s] = "whole" /\ file'[s] = file[s]
        BY <1>1, <2>1
      <4>4. QED
        <5> HIDE DEF new
        <5> QED
          BY <4>2, <4>3, <2>1, <2>6 DEF View, PageNames
    <3>2. CASE s # Registry
      <4>1. /\ log[s].catalog = None /\ log[s].version = None /\ log[s].rows # None
            /\ file[s].rows = [log[s].rows EXCEPT !.gen = @ + 1]
        BY <1>1, <1>4, <2>1, <3>2 DEF Journal
      <4>2. View(s) = [q \in PageNames |-> IF q = "rows" THEN log[s].rows ELSE file[s][q]]
        BY <4>1, <2>1 DEF View, PageNames
      <4>3. file[s].rows = new
        BY <4>1, <4>2 DEF PageNames
      <4>4. log'[s] = NoLog /\ file'[s] = file[s] /\ size'[s] = "whole"
        BY <1>1, <1>5, <2>1, <3>2
      <4>5. View(s)' = [q \in PageNames |-> file[s][q]]
        BY <4>4 DEF View, NoLog, PageNames
      <4>6. QED
        <5> HIDE DEF new
        <5> QED
          BY <4>2, <4>3, <4>5 DEF PageNames
    <3>3. QED
      BY <3>1, <3>2
  <2>9. QED
    BY <2>1, <2>2, <2>7, <2>8
<1>7. QED
  BY <1>1, <1>3, <1>4, <1>5, <1>6

(* One that commits is read and committed in the same step. *)
LEMMA CommitTxSound ==
    ASSUME Inv, NEW p \in Procs, NEW s \in DBs, CommitTx(p, s), NEW d \in DBs \ undermined'
    PROVE  Sound(d)'
<1>1. d \notin undermined /\ Sound(d) /\ TypeOK
  BY CommitTxEffect DEF Inv, AllSound
<1>2. Users(d)' = Users(d) /\ (Restoring(d)' <=> Restoring(d))
  BY CommitTxEffect, UsersSame DEF Restoring
<1>3. CASE d # s
  BY <1>1, <1>2, <1>3, CommitTxEffect, Untouched
<1>4. CASE d = s
  <2>1. ~Restoring(d) /\ size'[d] = "whole" /\ tx'[d] = None
    BY <1>1, <1>4, CommitTxEffect DEF Sound, Idle, TypeOK
  <2>2. QED
    BY <2>1, <1>1, <1>2, <1>4, CommitTxEffect DEF Sound, Idle, Journal, Fresh
<1>5. QED
  BY <1>3, <1>4

(* A crash leaves the log as it is: the journal undoes the transaction, the
   write-ahead log keeps what was committed. *)
LEMMA CrashSound ==
    ASSUME Inv, NEW p \in Procs, Crash(p), NEW d \in DBs \ undermined'
    PROVE  Sound(d)'
<1>1. /\ d \notin undermined /\ Sound(d) /\ TypeOK /\ Transactions
      /\ UNCHANGED <<size, file, log, out, rs, committed>>
      /\ tx'[d] = IF tx[d] = p THEN None ELSE tx[d]
  BY DEF Crash, Inv, AllSound, history, files
<1>2. Users(d)' = Users(d) \ {p} /\ (Restoring(d)' <=> Restoring(d))
  BY <1>1, UsersLeave DEF Crash, Restoring
<1>3. View(d)' = View(d)
  BY <1>1, SameView
<1>4. CASE tx[d] # p
  BY <1>1, <1>2, <1>4, Untouched
<1>5. CASE tx[d] = p
  <2>1. d # Registry => Users(d)' = {}
    BY <1>1, <1>2, <1>5, OneServer, StorageAssumption DEF Transactions
  <2>2. QED
    BY <2>1, <1>1, <1>2, <1>3, <1>5 DEF Sound, Idle, Journal, Fresh
<1>6. QED
  BY <1>4, <1>5

(* A copy is what readers see; the connection that takes it leaves behind an
   empty file where there was none, and plays a log it is alone with. *)
LEMMA VacuumSound ==
    ASSUME Inv, NEW s \in DBs, VacuumInto(s), NEW d \in DBs \ undermined'
    PROVE  Sound(d)'
<1>1. /\ d \notin undermined /\ Sound(d) /\ TypeOK /\ Transactions
      /\ UNCHANGED <<env, tx, pc, next, rs, committed, undermined, raced>>
  BY DEF VacuumInto, Inv, AllSound, history, procs
<1>2. Users(d)' = Users(d) /\ (Restoring(d)' <=> Restoring(d))
  BY <1>1, UsersSame DEF Restoring
<1>3. CASE UNCHANGED <<files, out>>
  BY <1>1, <1>2, <1>3, Untouched DEF files
<1>4. CASE /\ out[s] = None /\ size[s] # "partial"
           /\ out' = [out EXCEPT ![s] = Snapshot(s)]
           /\ size' = [size EXCEPT ![s] = IF @ = "absent" THEN "empty" ELSE @]
           /\ Folded(IF Users(s) = {} THEN {s} ELSE {})
  <2> DEFINE F == IF Users(s) = {} THEN {s} ELSE {}
  <2>1. d \in F => tx[d] = None
    BY <1>1, TransactionUses
  <2>2. CASE d # s
    <3>1. size'[d] = size[d] /\ out'[d] = out[d]
      BY <1>1, <1>4, <2>2 DEF TypeOK
    <3>2. Folded(F)
      BY <1>4
    <3>3. QED
      <4> HIDE DEF F
      <4> QED
        BY <3>1, <3>2, <2>1, <1>1, <1>2, FoldSound
  <2>3. CASE d = s
    <3>1. /\ size'[d] = IF size[d] = "absent" THEN "empty" ELSE size[d]
          /\ out'[d] = View(d) /\ View(d) # None
      BY <1>1, <1>4, <2>3, ViewType, ContentIsThere DEF TypeOK, Snapshot
    <3>2. size[d] = "absent" \/ size'[d] = size[d]
      BY <3>1
    <3>3. Folded(F) /\ (size'[d] = "whole" <=> size[d] = "whole")
      BY <1>4, <3>1
    <3>4. /\ View(d)' = View(d)
          /\ d \notin F \/ size[d] # "whole" => file'[d] = file[d] /\ log'[d] = log[d]
          /\ d \in F /\ size[d] = "whole" => log'[d] = NoLog
      <4> HIDE DEF F
      <4> QED
        BY <3>3, <1>1, FoldedView
    <3>5. Idle(d)'
      BY <3>3, <3>4, <1>1, <1>2 DEF Sound, Idle
    <3>6. Journal(d)'
      <4>1. CASE d \in F /\ size[d] = "whole"
        BY <4>1, <2>1, <3>4, <1>1 DEF Journal
      <4>2. CASE d \notin F \/ size[d] # "whole"
        <5>1. file'[d] = file[d] /\ log'[d] = log[d] /\ tx'[d] = tx[d] /\ Journal(d)
          <6> HIDE DEF F
          <6> QED
            BY <4>2, <3>4, <1>1 DEF Sound
        <5>2. QED
          BY <5>1, <1>2 DEF Journal
      <4>3. QED
        BY <4>1, <4>2
    <3>7. QED
      BY <3>1, <3>3, <3>4, <3>5, <3>6, <1>1 DEF Sound, Fresh
  <2>4. QED
    BY <2>2, <2>3
<1>5. QED
  BY <1>3, <1>4 DEF VacuumInto

(* The restore finds a database without a lock: nobody has it open, and its log
   is played and gone, or it is taken for undermined. *)
LEMMA CheckLockedSound ==
    ASSUME Inv, NEW s \in DBs, CheckLocked(s), NEW d \in DBs \ undermined'
    PROVE  Sound(d)'
<1>1. /\ d \notin undermined /\ Sound(d) /\ TypeOK /\ Transactions
      /\ UNCHANGED <<env, size, tx, pc, next, bk, out, committed, raced>>
      /\ rs.pc = "check" /\ s = Order[rs.at]
  BY DEF CheckLocked, Disturbs, Inv, AllSound, procs
<1>2. Users(d)' = Users(d) /\ ~Restoring(d)
  BY <1>1, UsersSame DEF Restoring
<1>3. CASE /\ rs' = [rs EXCEPT !.pc = "failed"]
           /\ UNCHANGED <<file, log, undermined>>
  <2>1. rs'.pc = "failed"
    BY <1>3, <1>1 DEF TypeOK
  <2>2. ~Restoring(d)'
    BY <2>1 DEF Restoring
  <2>3. QED
    BY <2>2, <1>1, <1>2, <1>3, Untouched
<1>4. CASE /\ ~Locked(s)
           /\ rs' = [rs EXCEPT !.pc = "truncate"]
           /\ Folded(FoldedByCheck(s))
           /\ Disturbs(s, Users(s) # {})
  <2>1. rs'.pc = "truncate" /\ rs'.at = rs.at
    BY <1>4, <1>1 DEF TypeOK
  <2>2. Restoring(d)' <=> d = s
    BY <2>1, <1>1 DEF Restoring
  <2>3. d \in FoldedByCheck(s) => tx[d] = None
    BY <1>4 DEF FoldedByCheck, Locked
  <2>4. CASE d # s
    BY <2>2, <2>3, <2>4, <1>1, <1>2, <1>4, FoldSound
  <2>5. CASE d = s
    <3>1. Users(d) = {}
      BY <1>4, <2>5 DEF Disturbs
    <3>2. FoldedByCheck(s) = {d}
      BY <3>1, <2>5 DEF FoldedByCheck
    <3>3. Folded({d})
      BY <3>2, <1>4
    <3>4. /\ View(d)' = View(d)
          /\ size[d] # "whole" => log'[d] = log[d]
          /\ size[d] = "whole" => log'[d] = NoLog
      BY <3>3, <1>1, FoldedView
    <3>5. log'[d] = NoLog
      BY <3>4, <1>1 DEF Sound, Idle
    <3>6. tx'[d] = None
      BY <1>1, <1>4, <2>5 DEF Locked
    <3>7. QED
      BY <3>1, <3>4, <3>5, <3>6, <1>1, <1>2 DEF Sound, Idle, Journal, Fresh
  <2>6. QED
    BY <2>4, <2>5
<1>5. QED
  BY <1>3, <1>4 DEF CheckLocked

(* Emptying the file leaves nothing to read: nobody has it open and there is no
   log. *)
LEMMA TruncateSound ==
    ASSUME Inv, NEW s \in DBs, Truncate(s), NEW d \in DBs \ undermined'
    PROVE  Sound(d)'
<1>1. /\ d \notin undermined /\ Sound(d) /\ TypeOK /\ Transactions
      /\ UNCHANGED <<env, file, log, tx, pc, next, bk, out, committed, undermined, raced>>
      /\ rs.pc = "truncate" /\ s = Order[rs.at] /\ Restoring(s)
      /\ rs' = [rs EXCEPT !.pc = "fill"] /\ size' = [size EXCEPT ![s] = "empty"]
      /\ out[Order[rs.at]] # None
  BY DEF Truncate, Inv, AllSound, Progress, procs, history, Restoring
<1>2. Users(d)' = Users(d)
  BY <1>1, UsersSame
<1>3. rs'.pc = "fill" /\ rs'.at = rs.at
  BY <1>1 DEF TypeOK
<1>4. Restoring(d)' <=> Restoring(d)
  BY <1>1, <1>3 DEF Restoring
<1>5. CASE d # s
  <2>1. size'[d] = size[d]
    BY <1>1, <1>5 DEF TypeOK
  <2>2. QED
    BY <2>1, <1>1, <1>2, <1>4, <1>5, Untouched
<1>6. CASE d = s
  <2>1. size'[d] = "empty" /\ log[d] = NoLog /\ Users(d) = {} /\ tx[d] = None
    BY <1>1, <1>6, TransactionUses DEF TypeOK, Sound, Idle
  <2>2. QED
    BY <2>1, <1>1, <1>2, <1>4, <1>6 DEF Sound, Idle, Journal, Fresh
<1>7. QED
  BY <1>5, <1>6

(* What is written back is what readers of the file will see. *)
LEMMA FillEffect ==
    ASSUME Inv, NEW s \in DBs, Fill(s)
    PROVE  /\ UNCHANGED <<env, log, tx, pc, next, bk, out, undermined, raced>>
           /\ rs.pc = "fill" /\ s = Order[rs.at] /\ rs'.pc \in {"check", "failed"}
           /\ rs'.at \in {rs.at, rs.at + 1} /\ rs' \in [pc : {"check", "failed"}, at : 1 .. Len(Order) + 1]
           /\ \A d \in DBs \ {s} : size'[d] = size[d] /\ file'[d] = file[d] /\ committed'[d] = committed[d]
           /\ \/ size'[s] = "whole" /\ out[s] \in Content /\ file'[s] = out[s] /\ committed'[s] = out[s]
              \/ size'[s] = "partial" /\ file' = file /\ committed' = committed
<1>1. /\ TypeOK /\ rs \in [pc : {"idle", "check", "truncate", "fill", "done", "failed"},
                           at : 1 .. Len(Order) + 1]
      /\ size \in [DBs -> {"absent", "empty", "partial", "whole"}] /\ file \in [DBs -> Content]
      /\ committed \in [DBs -> Content] /\ out[s] \in Content \cup {None, Torn}
  BY DEF Inv, TypeOK
<1>2. /\ UNCHANGED <<env, log, tx, pc, next, bk, out, undermined, raced>>
      /\ rs.pc = "fill" /\ s = Order[rs.at] /\ rs.at \in 1 .. Len(Order) /\ out[s] # None
  BY Orders DEF Fill, Restoring, procs, Inv, Progress
<1>3. CASE /\ out[s] # Torn
           /\ size' = [size EXCEPT ![s] = "whole"]
           /\ file' = [file EXCEPT ![s] = out[s]]
           /\ committed' = [committed EXCEPT ![s] = out[s]]
           /\ rs' = [rs EXCEPT !.pc = "check", !.at = @ + 1]
  <2>1. /\ rs'.pc = "check" /\ rs'.at = rs.at + 1
        /\ rs' \in [pc : {"check", "failed"}, at : 1 .. Len(Order) + 1]
    <3>1. rs' = [pc |-> "check", at |-> rs.at + 1]
      BY <1>1, <1>3
    <3>2. Len(Order) \in Nat /\ rs.at + 1 \in 1 .. Len(Order) + 1
      BY <1>2, Orders
    <3>3. QED
      BY <3>1, <3>2
  <2>2. /\ \A d \in DBs \ {s} : size'[d] = size[d] /\ file'[d] = file[d] /\ committed'[d] = committed[d]
        /\ size'[s] = "whole" /\ out[s] \in Content /\ file'[s] = out[s] /\ committed'[s] = out[s]
    BY <1>1, <1>2, <1>3
  <2>3. QED
    BY <2>1, <2>2, <1>2
<1>4. CASE /\ size' = [size EXCEPT ![s] = "partial"]
           /\ rs' = [rs EXCEPT !.pc = "check", !.at = @ + 1]
           /\ UNCHANGED <<file, committed>>
  <2>1. /\ rs'.pc = "check" /\ rs'.at = rs.at + 1
        /\ rs' \in [pc : {"check", "failed"}, at : 1 .. Len(Order) + 1]
    <3>1. rs' = [pc |-> "check", at |-> rs.at + 1]
      BY <1>1, <1>4
    <3>2. Len(Order) \in Nat /\ rs.at + 1 \in 1 .. Len(Order) + 1
      BY <1>2, Orders
    <3>3. QED
      BY <3>1, <3>2
  <2>2. /\ \A d \in DBs \ {s} : size'[d] = size[d] /\ file'[d] = file[d] /\ committed'[d] = committed[d]
        /\ size'[s] = "partial" /\ file' = file /\ committed' = committed
    BY <1>1, <1>2, <1>4
  <2>3. QED
    BY <2>1, <2>2, <1>2
<1>5. CASE /\ size' = [size EXCEPT ![s] = "partial"]
           /\ rs' = [rs EXCEPT !.pc = "failed"]
           /\ UNCHANGED <<file, committed>>
  <2>1. /\ rs'.pc = "failed" /\ rs'.at = rs.at
        /\ rs' \in [pc : {"check", "failed"}, at : 1 .. Len(Order) + 1]
    BY <1>1, <1>2, <1>5, Orders
  <2>2. /\ \A d \in DBs \ {s} : size'[d] = size[d] /\ file'[d] = file[d] /\ committed'[d] = committed[d]
        /\ size'[s] = "partial" /\ file' = file /\ committed' = committed
    BY <1>1, <1>2, <1>5
  <2>3. QED
    BY <2>1, <2>2, <1>2
<1>6. QED
  BY <1>3, <1>4, <1>5 DEF Fill

(* A file that was written back is what was restored. *)
LEMMA FillSound ==
    ASSUME Inv, NEW s \in DBs, Fill(s), NEW d \in DBs \ undermined'
    PROVE  Sound(d)'
<1>1. /\ d \notin undermined /\ Sound(d) /\ TypeOK /\ Transactions
      /\ UNCHANGED <<log, tx, pc, next, out>>
  BY FillEffect DEF Inv, AllSound
<1>2. Users(d)' = Users(d) /\ ~Restoring(d)' /\ Restoring(s)
  BY <1>1, FillEffect, UsersSame DEF Restoring
<1>3. CASE d # s
  <2>1. size'[d] = size[d] /\ file'[d] = file[d] /\ committed'[d] = committed[d]
    BY <1>3, FillEffect
  <2>2. QED
    BY <2>1, <1>1, <1>2, Untouched
<1>4. CASE d = s
  <2>1. log'[d] = NoLog /\ Users(d) = {} /\ tx'[d] = None
    BY <1>1, <1>2, <1>4, TransactionUses DEF Sound, Idle
  <2>2. CASE size'[s] = "whole" /\ out[s] \in Content /\ file'[s] = out[s] /\ committed'[s] = out[s]
    <3>1. View(d)' = [q \in PageNames |-> file'[d][q]]
      BY <2>1, <2>2, <1>4 DEF View, NoLog, PageNames
    <3>2. View(d)' = committed'[d]
      BY <3>1, <2>2, <1>4, ContentIsThere
    <3>3. QED
      BY <3>2, <2>1, <2>2, <1>2, <1>4 DEF Sound, Idle, Journal, Fresh
  <2>3. CASE size'[s] = "partial"
    BY <2>1, <2>3, <1>2, <1>4 DEF Sound, Idle, Journal, Fresh
  <2>4. QED
    BY <2>2, <2>3, FillEffect
<1>5. QED
  BY <1>3, <1>4

(* Backup and restore between two databases, and the steps that move a process
   on without touching a file *)
LEMMA QuietSound ==
    ASSUME Inv, UNCHANGED <<size, file, log, tx, committed, undermined>>,
           NEW d \in DBs \ undermined', Users(d)' = Users(d), Restoring(d)' => Restoring(d),
           out'[d] = out[d] \/ out'[d] # None
    PROVE  Sound(d)'
<1>1. d \notin undermined /\ Sound(d) /\ View(d)' = View(d)
  BY SameView DEF Inv, AllSound
<1>2. QED
  BY <1>1 DEF Sound, Idle, Journal, Fresh

(* A process that stops has no transaction of its own. *)
LEMMA StopSound ==
    ASSUME Inv, NEW p \in Procs, Stop(p), NEW d \in DBs \ undermined'
    PROVE  Sound(d)'
<1>1. /\ d \notin undermined /\ Sound(d) /\ TypeOK /\ Transactions
      /\ Leave(p) /\ tx[d] # p
      /\ size' = size /\ tx' = tx /\ out' = out /\ committed' = committed /\ rs' = rs
  BY DEF Stop, Inv, AllSound, history
<1>2. QED
  BY <1>1, LeaveSound

(* A checkpoint moves pages of the registry from the log to the file. *)
LEMMA CheckpointSound ==
    ASSUME Inv, Checkpoint, NEW d \in DBs \ undermined'
    PROVE  Sound(d)'
<1>1. /\ d \notin undermined /\ Sound(d) /\ TypeOK
      /\ Folded({Registry})
      /\ size' = size /\ tx' = tx /\ out' = out /\ committed' = committed /\ rs' = rs
      /\ pc' = pc /\ next' = next
  BY DEF Checkpoint, Inv, AllSound, history, procs
<1>2. Users(d)' = Users(d) /\ (Restoring(d)' <=> Restoring(d))
  BY <1>1, UsersSame DEF Restoring
<1>3. QED
  BY <1>1, <1>2, FoldSound

(* No step makes a database unsound that it does not undermine. *)
LEMMA SoundStep ==
    ASSUME Inv, [Next]_vars
    PROVE  AllSound'
<1> SUFFICES ASSUME NEW d \in DBs \ undermined'
             PROVE  Sound(d)'
  BY DEF AllSound
<1>1. ASSUME NEW p \in Procs, OpenFile(p) \/ Migrate(p) \/ Backfill(p) \/ OpenStore(p) \/ Stop(p) \/ Crash(p)
      PROVE  Sound(d)'
  BY <1>1, OpenFileSound, MigrateSound, BackfillSound, OpenStoreSound, StopSound, CrashSound
<1>2. ASSUME NEW p \in Procs, ReadVersion(p)
      PROVE  Sound(d)'
  <2>1. /\ UNCHANGED <<size, file, log, tx, committed, undermined, out, rs>>
        /\ pc' = [pc EXCEPT ![p] = "migrating"] /\ pc[p] = "opening"
        /\ next' = [next EXCEPT ![p] = View(Registry).version + 1]
    BY <1>2 DEF ReadVersion, files, history
  <2>2. TypeOK
    BY DEF Inv
  <2>3. /\ pc[p] \in Opening /\ pc'[p] \in Opening
        /\ \A o \in Procs \ {p} : pc'[o] = pc[o] /\ next'[o] = next[o]
    BY <2>1, <2>2 DEF Opening, TypeOK
  <2>4. Users(d)' = Users(d) /\ (Restoring(d)' <=> Restoring(d))
    BY <2>1, <2>2, <2>3, UsersOpening DEF Restoring
  <2>5. QED
    BY <2>1, <2>4, QuietSound
<1>3. ASSUME NEW p \in Procs, Serve(p)
      PROVE  Sound(d)'
  <2>1. UNCHANGED <<size, file, log, tx, committed, undermined, out, rs>>
    BY <1>3 DEF Serve, files, history
  <2>2. Users(d)' = Users(d) /\ (Restoring(d)' <=> Restoring(d))
    BY <2>1, <1>3, UsersServe DEF Inv, Restoring
  <2>3. QED
    BY <2>1, <2>2, QuietSound
<1>4. ASSUME NEW p \in Procs, NEW s \in DBs, BeginTx(p, s) \/ CommitTx(p, s)
      PROVE  Sound(d)'
  BY <1>4, BeginTxSound, CommitTxSound
<1>5. CASE Checkpoint
  BY <1>5, CheckpointSound
<1>6. CASE BackupStart \/ BackupNext \/ KillBackup
  <2>1. /\ UNCHANGED <<size, file, log, tx, committed, undermined, rs, pc, next>>
        /\ \/ out' = out
           \/ out' = [out EXCEPT ![Order[bk.at]] = Torn]
    BY <1>6 DEF BackupStart, BackupNext, KillBackup, files, procs, history
  <2>2. out'[d] = out[d] \/ out'[d] # None
    <3>1. out \in [DBs -> Content \cup {None, Torn}] /\ Torn # None
      BY NoneAssumption DEF Inv, TypeOK
    <3>2. QED
      BY <2>1, <3>1
  <2>3. Users(d)' = Users(d) /\ (Restoring(d)' <=> Restoring(d))
    BY <2>1, UsersSame DEF Restoring
  <2>4. QED
    BY <2>1, <2>2, <2>3, QuietSound
<1>7. CASE RestoreStart \/ RestoreNext \/ KillRestore
  <2>1. /\ UNCHANGED <<size, file, log, tx, committed, undermined, out, pc, next>>
        /\ rs'.pc \notin {"truncate", "fill"}
    <3>1. rs \in [pc : {"idle", "check", "truncate", "fill", "done", "failed"}, at : 1 .. Len(Order) + 1]
      BY DEF Inv, TypeOK
    <3>2. CASE RestoreStart
      BY <3>2 DEF RestoreStart, files, procs, history
    <3>3. CASE RestoreNext
      BY <3>1, <3>3 DEF RestoreNext, files, procs, history
    <3>4. CASE KillRestore
      BY <3>1, <3>4 DEF KillRestore, files, procs, history
    <3>5. QED
      BY <1>7, <3>2, <3>3, <3>4
  <2>2. Users(d)' = Users(d) /\ ~Restoring(d)'
    BY <2>1, UsersSame DEF Restoring
  <2>3. QED
    BY <2>1, <2>2, QuietSound
<1>8. ASSUME NEW s \in DBs, VacuumInto(s) \/ CheckLocked(s) \/ Truncate(s) \/ Fill(s)
      PROVE  Sound(d)'
  BY <1>8, VacuumSound, CheckLockedSound, TruncateSound, FillSound
<1>9. CASE UNCHANGED vars
  <2>1. UNCHANGED <<size, file, log, tx, committed, undermined, out, rs, pc, next>>
    BY <1>9 DEF vars, files, procs, history
  <2>2. Users(d)' = Users(d) /\ (Restoring(d)' <=> Restoring(d))
    BY <2>1, UsersSame DEF Restoring
  <2>3. QED
    BY <2>1, <2>2, QuietSound
<1>10. QED
  BY <1>1, <1>2, <1>3, <1>4, <1>5, <1>6, <1>7, <1>8, <1>9 DEF Next

-----------------------------------------------------------------------------
(* Types *)

(* Playing logs leaves pages where pages were. *)
LEMMA FoldedType ==
    ASSUME TypeOK, NEW S, Folded(S)
    PROVE  file' \in [DBs -> Content] /\ log' \in [DBs -> Pages]
<1>1. NoLog \in Pages /\ \A d \in DBs : View(d) \in Content
  BY ViewType DEF NoLog, Pages
<1>2. QED
  BY <1>1 DEF Folded, TypeOK

(* ... also at the end of a process. *)
LEMMA LeaveType ==
    ASSUME TypeOK, NEW p \in Procs, Leave(p)
    PROVE  /\ file' \in [DBs -> Content] /\ log' \in [DBs -> Pages]
           /\ pc' \in [Procs -> Opening \cup {"down", "stores", "up"}]
           /\ next' \in [Procs -> 0 .. 8 + Len(Stores)]
<1>1. file' \in [DBs -> Content] /\ log' \in [DBs -> Pages]
  BY FoldedType DEF Leave
<1>2. QED
  BY <1>1, Orders DEF Leave, TypeOK

(* A statement writes pages. *)
LEMMA WriteType ==
    ASSUME TypeOK, NEW pages, Write(pages), DOMAIN pages \subseteq PageNames,
           "catalog" \in DOMAIN pages => pages["catalog"] \in SUBSET (1 .. 7),
           "version" \in DOMAIN pages => pages["version"] \in 0 .. 7,
           "rows" \in DOMAIN pages => pages["rows"] \in Rows
    PROVE  log' \in [DBs -> Pages] /\ committed' \in [DBs -> Content]
<1>1. /\ log \in [DBs -> Pages] /\ committed \in [DBs -> Content] /\ Registry \in DBs
      /\ log[Registry] \in Pages /\ committed[Registry] \in Content
  BY Orders DEF TypeOK
<1>2. [q \in PageNames |-> IF q \in DOMAIN pages THEN pages[q] ELSE log[Registry][q]] \in Pages
  BY <1>1 DEF Pages, PageNames
<1>3. [q \in PageNames |-> IF q \in DOMAIN pages THEN pages[q] ELSE committed[Registry][q]] \in Content
  BY <1>1 DEF Content, PageNames
<1>4. QED
  BY <1>1, <1>2, <1>3 DEF Write

(* The types after a migration *)
LEMMA MigrateType ==
    ASSUME Inv, NEW p \in Procs, Migrate(p)
    PROVE  TypeOK'
<1>1. TypeOK /\ Progress
  BY DEF Inv
<1>2. CASE Leave(p) /\ UNCHANGED committed
  BY <1>1, <1>2, MigrateEffect, LeaveType DEF TypeOK
<1>3. CASE /\ Write(MigrationPages(next[p]))
           /\ next' = [next EXCEPT ![p] = next[p] + 1]
           /\ UNCHANGED <<file, pc>>
  <2>1. next[p] \in 1 .. 7
    BY <1>1, MigrateEffect
  <2>2. MigrationPages(next[p]) \in Content /\ DOMAIN MigrationPages(next[p]) = PageNames
    BY <1>1, <2>1, MigrationPagesAre
  <2>3. log' \in [DBs -> Pages] /\ committed' \in [DBs -> Content]
    <3>1. /\ MigrationPages(next[p])["catalog"] \in SUBSET (1 .. 7)
          /\ MigrationPages(next[p])["version"] \in 0 .. 7
          /\ MigrationPages(next[p])["rows"] \in Rows
      BY <2>2 DEF Content
    <3>2. QED
      BY <3>1, <2>2, <1>1, <1>3, WriteType
  <2>4. next' \in [Procs -> 0 .. 8 + Len(Stores)]
    <3>1. Len(Stores) \in Nat
      BY Orders
    <3>2. next \in [Procs -> 0 .. 8 + Len(Stores)]
      BY <1>1 DEF TypeOK
    <3>3. next[p] + 1 \in 0 .. 8 + Len(Stores)
      BY <2>1, <3>1
    <3>4. QED
      BY <1>3, <3>2, <3>3
  <2>5. QED
    BY <2>3, <2>4, <1>1, <1>3, MigrateEffect DEF TypeOK
<1>4. QED
  BY <1>1, <1>2, <1>3, MigrateEffect

(* ... the end of Open *)
LEMMA BackfillType ==
    ASSUME Inv, NEW p \in Procs, Backfill(p)
    PROVE  TypeOK'
<1>1. TypeOK
  BY DEF Inv
<1>2. CASE Leave(p) /\ UNCHANGED committed
  BY <1>1, <1>2, BackfillEffect, LeaveType DEF TypeOK
<1>3. CASE /\ Write(BackfillPages)
           /\ pc' = [pc EXCEPT ![p] = IF p = Server THEN "stores" ELSE "up"]
           /\ next' = [next EXCEPT ![p] = 1]
           /\ UNCHANGED file
  <2>1. BackfillPages["rows"] \in Rows /\ DOMAIN BackfillPages = {"rows"}
    BY <1>1, BackfillPagesAre
  <2>2. log' \in [DBs -> Pages] /\ committed' \in [DBs -> Content]
    BY <2>1, <1>1, <1>3, WriteType DEF PageNames
  <2>3. /\ next' \in [Procs -> 0 .. 8 + Len(Stores)]
        /\ pc' \in [Procs -> Opening \cup {"down", "stores", "up"}]
    BY <1>1, <1>3, Orders DEF TypeOK
  <2>4. QED
    BY <2>2, <2>3, <1>1, <1>3, BackfillEffect DEF TypeOK
<1>4. QED
  BY <1>2, <1>3, BackfillEffect

(* ... the opening of a store *)
LEMMA OpenStoreType ==
    ASSUME Inv, NEW p \in Procs, OpenStore(p)
    PROVE  TypeOK'
<1> DEFINE s == Stores[next[p]]
<1>1. /\ TypeOK /\ pc[p] = "stores" /\ next[p] \in 1 .. Len(Stores) /\ s \in DBs
      /\ UNCHANGED <<env, tx, bk, out, rs, raced>>
  BY Orders DEF OpenStore, Inv, Progress
<1>2. CASE Leave(p) /\ UNCHANGED <<size, committed, undermined>>
  BY <1>1, <1>2, LeaveType DEF TypeOK
<1>3. CASE /\ size' = [size EXCEPT ![s] = "whole"]
           /\ file' = [file EXCEPT ![s] = IF size[s] = "whole" THEN View(s) ELSE Blank]
           /\ log' = [log EXCEPT ![s] = NoLog]
           /\ committed' = [committed EXCEPT ![s] = IF size[s] = "whole" THEN @ ELSE Blank]
           /\ next' = [next EXCEPT ![p] = @ + 1]
           /\ Disturbs(s, Restoring(s))
           /\ UNCHANGED pc
  <2>1. View(s) \in Content /\ Blank \in Content /\ NoLog \in Pages
    BY <1>1, ViewType, BlankIsContent DEF NoLog, Pages
  <2>2. /\ size' \in [DBs -> {"absent", "empty", "partial", "whole"}]
        /\ file' \in [DBs -> Content] /\ log' \in [DBs -> Pages] /\ committed' \in [DBs -> Content]
    <3> HIDE DEF s
    <3> QED
      BY <2>1, <1>1, <1>3 DEF TypeOK
  <2>3. next' \in [Procs -> 0 .. 8 + Len(Stores)]
    BY <1>1, <1>3, Orders, SMTT(30) DEF TypeOK
  <2>4. undermined' \subseteq DBs
    BY <1>1, <1>3 DEF TypeOK, Disturbs
  <2>5. QED
    BY <2>2, <2>3, <2>4, <1>1, <1>3 DEF TypeOK
<1>4. QED
  BY <1>2, <1>3 DEF OpenStore

(* ... the opening of the registry *)
LEMMA OpenFileType ==
    ASSUME Inv, NEW p \in Procs, OpenFile(p)
    PROVE  TypeOK'
<1>1. TypeOK /\ Blank \in Content /\ Registry \in DBs
  BY BlankIsContent, Orders DEF Inv
<1>2. /\ size' \in [DBs -> {"absent", "empty", "partial", "whole"}]
      /\ file' \in [DBs -> Content] /\ committed' \in [DBs -> Content]
  BY <1>1 DEF OpenFile, TypeOK
<1>3. pc' \in [Procs -> Opening \cup {"down", "stores", "up"}]
  BY <1>1 DEF OpenFile, TypeOK, Opening
<1>4. undermined' \subseteq DBs /\ raced' \in BOOLEAN
  BY <1>1 DEF OpenFile, TypeOK, Disturbs
<1>5. QED
  BY <1>1, <1>2, <1>3, <1>4 DEF OpenFile, TypeOK

(* ... a transaction, whose counter stays under its bound *)
LEMMA TxType ==
    ASSUME Inv, NEW p \in Procs, NEW s \in DBs, BeginTx(p, s) \/ CommitTx(p, s)
    PROVE  TypeOK'
<1>1. /\ TypeOK /\ View(s) \in Content /\ log[s] \in Pages /\ file[s] \in Content
      /\ View(s).rows \in Rows /\ View(s).rows.gen \in 0 .. MaxGen
  BY ViewType DEF Inv, TypeOK, Content
<1>2. /\ View(s).rows.gen < MaxGen /\ View(s).rows.gen + 1 \in 0 .. MaxGen
      /\ UNCHANGED <<env, size, pc, next, bk, out, rs, undermined, raced>>
  BY <1>1, StorageAssumption DEF BeginTx, CommitTx, history
<1>3. CASE BeginTx(p, s)
  <2>1. CASE s = Registry
    BY <2>1, <1>1, <1>2, <1>3 DEF BeginTx, TypeOK, history
  <2>2. CASE s # Registry
    <3>1. log' \in [DBs -> Pages]
      <4>1. [log[s] EXCEPT !.rows = View(s).rows] \in Pages
        BY <1>1 DEF Pages
      <4>2. QED
        BY <4>1, <2>2, <1>1, <1>3 DEF BeginTx, TypeOK
    <3>2. file' \in [DBs -> Content]
      <4>1. file[s].rows \in Rows
        BY <1>1 DEF Content
      <4>2. [file[s].rows EXCEPT !.gen = View(s).rows.gen + 1] \in Rows
        BY <4>1, <1>2 DEF Rows
      <4>3. [file[s] EXCEPT !.rows = [file[s].rows EXCEPT !.gen = View(s).rows.gen + 1]] \in Content
        BY <4>2, <1>1 DEF Content
      <4>4. file' = [file EXCEPT ![s] =
                        [file[s] EXCEPT !.rows = [file[s].rows EXCEPT !.gen = View(s).rows.gen + 1]]]
        BY <2>2, <1>1, <1>3 DEF BeginTx
      <4>5. QED
        BY <4>3, <4>4, <1>1 DEF TypeOK
    <3>3. tx' \in [DBs -> Procs \cup {None}] /\ committed' = committed
      BY <1>1, <1>3 DEF BeginTx, TypeOK, history
    <3>4. QED
      BY <3>1, <3>2, <3>3, <1>1, <1>2 DEF TypeOK
  <2>3. QED
    BY <2>1, <2>2
<1>4. CASE CommitTx(p, s)
  <2> DEFINE new == [View(s).rows EXCEPT !.gen = @ + 1]
  <2>1. new \in Rows
    BY <1>1, <1>2 DEF Rows
  <2>2. /\ log' = [log EXCEPT ![s] = IF s = Registry THEN [log[s] EXCEPT !.rows = new] ELSE NoLog]
        /\ committed' = [committed EXCEPT ![s] = [committed[s] EXCEPT !.rows = new]]
        /\ tx' = [tx EXCEPT ![s] = None] /\ file' = file
    BY <1>4 DEF CommitTx
  <2> HIDE DEF new
  <2>3. [log[s] EXCEPT !.rows = new] \in Pages /\ NoLog \in Pages
    BY <2>1, <1>1 DEF Pages, NoLog
  <2>4. [committed[s] EXCEPT !.rows = new] \in Content
    BY <2>1, <1>1 DEF Content, TypeOK
  <2>5. log' \in [DBs -> Pages] /\ committed' \in [DBs -> Content] /\ tx' \in [DBs -> Procs \cup {None}]
    BY <2>2, <2>3, <2>4, <1>1 DEF TypeOK
  <2>6. QED
    BY <2>2, <2>5, <1>1, <1>2 DEF TypeOK
<1>5. QED
  BY <1>3, <1>4

(* ... a copy, a check for locks, a truncation *)
LEMMA CommandType ==
    ASSUME Inv, NEW s \in DBs, VacuumInto(s) \/ CheckLocked(s) \/ Truncate(s)
    PROVE  TypeOK'
<1>1. /\ TypeOK /\ View(s) \in Content /\ Len(Order) \in Nat
      /\ bk \in [pc : {"idle", "run", "done", "failed"}, list : SUBSET DBs, at : 1 .. Len(Order) + 1]
      /\ rs \in [pc : {"idle", "check", "truncate", "fill", "done", "failed"}, at : 1 .. Len(Order) + 1]
  BY ViewType, Orders DEF Inv, TypeOK
<1>2. CASE VacuumInto(s)
  <2>1. UNCHANGED <<tx, pc, next, rs, committed, undermined, raced>>
    BY <1>2 DEF VacuumInto, procs, history
  <2>2. CASE bk' = [bk EXCEPT !.pc = "failed"] /\ UNCHANGED <<files, out>>
    BY <2>1, <2>2, <1>1 DEF TypeOK, files
  <2>3. CASE /\ out' = [out EXCEPT ![s] = Snapshot(s)]
             /\ bk' = [bk EXCEPT !.at = @ + 1]
             /\ size' = [size EXCEPT ![s] = IF @ = "absent" THEN "empty" ELSE @]
             /\ Folded(IF Users(s) = {} THEN {s} ELSE {})
             /\ bk.at <= Len(Order)
    <3>1. file' \in [DBs -> Content] /\ log' \in [DBs -> Pages]
      BY <2>3, <1>1, FoldedType
    <3>2. bk' \in [pc : {"idle", "run", "done", "failed"}, list : SUBSET DBs, at : 1 .. Len(Order) + 1]
      <4>1. bk.at + 1 \in 1 .. Len(Order) + 1
        BY <2>3, <1>1
      <4>2. QED
        BY <4>1, <2>3, <1>1
    <3>3. /\ out' \in [DBs -> Content \cup {None, Torn}]
          /\ size' \in [DBs -> {"absent", "empty", "partial", "whole"}]
      BY <2>3, <1>1 DEF TypeOK, Snapshot
    <3>4. QED
      BY <3>1, <3>2, <3>3, <2>1, <1>1 DEF TypeOK
  <2>4. QED
    BY <2>2, <2>3, <1>2 DEF VacuumInto
<1>3. CASE CheckLocked(s)
  <2>1. UNCHANGED <<size, tx, pc, next, bk, out, committed, raced>>
    BY <1>3 DEF CheckLocked, procs
  <2>2. rs' \in [pc : {"idle", "check", "truncate", "fill", "done", "failed"}, at : 1 .. Len(Order) + 1]
    BY <1>1, <1>3 DEF CheckLocked
  <2>3. file' \in [DBs -> Content] /\ log' \in [DBs -> Pages]
    BY <1>1, <1>3, FoldedType DEF CheckLocked, TypeOK
  <2>4. undermined' \subseteq DBs
    BY <1>1, <1>3 DEF CheckLocked, Disturbs, TypeOK
  <2>5. QED
    BY <2>1, <2>2, <2>3, <2>4, <1>1 DEF TypeOK
<1>4. CASE Truncate(s)
  BY <1>1, <1>4 DEF Truncate, procs, history, TypeOK
<1>5. QED
  BY <1>2, <1>3, <1>4

(* ... and the second half of a restore *)
LEMMA FillType ==
    ASSUME Inv, NEW s \in DBs, Fill(s)
    PROVE  TypeOK'
<1>1. TypeOK
  BY DEF Inv
<1>2. /\ size' \in [DBs -> {"absent", "empty", "partial", "whole"}]
      /\ file' \in [DBs -> Content] /\ committed' \in [DBs -> Content]
  <2>1. out[s] # Torn => out[s] \in Content
    <3>1. out[s] # None
      BY FillEffect DEF Inv, Progress
    <3>2. out[s] \in Content \cup {None, Torn}
      BY <1>1 DEF TypeOK
    <3>3. QED
      BY <3>1, <3>2
  <2>2. QED
    BY <2>1, <1>1 DEF Fill, TypeOK
<1>3. rs' \in [pc : {"idle", "check", "truncate", "fill", "done", "failed"}, at : 1 .. Len(Order) + 1]
  BY FillEffect
<1>4. QED
  BY <1>1, <1>2, <1>3, FillEffect DEF TypeOK

(* Every step keeps the types. *)
LEMMA TypeStep ==
    ASSUME Inv, [Next]_vars
    PROVE  TypeOK'
<1>1. TypeOK /\ Len(Order) \in Nat /\ Len(Stores) \in Nat /\ Registry \in DBs
  BY Orders DEF Inv
<1>2. ASSUME NEW p \in Procs, OpenFile(p) \/ Migrate(p) \/ Backfill(p) \/ OpenStore(p)
      PROVE  TypeOK'
  BY <1>2, OpenFileType, MigrateType, BackfillType, OpenStoreType
<1>3. ASSUME NEW p \in Procs, ReadVersion(p)
      PROVE  TypeOK'
  <2>1. View(Registry).version + 1 \in 0 .. 8 + Len(Stores)
    BY <1>1, ViewType
  <2>2. next' \in [Procs -> 0 .. 8 + Len(Stores)]
    BY <2>1, <1>1, <1>3 DEF ReadVersion, TypeOK
  <2>3. QED
    BY <2>2, <1>1, <1>3 DEF ReadVersion, TypeOK, files, history, Opening
<1>4. ASSUME NEW p \in Procs, Serve(p)
      PROVE  TypeOK'
  BY <1>1, <1>4 DEF Serve, TypeOK, files, history
<1>5. ASSUME NEW p \in Procs, Stop(p)
      PROVE  TypeOK'
  BY <1>1, <1>5, LeaveType DEF Stop, TypeOK, history
<1>6. ASSUME NEW p \in Procs, Crash(p)
      PROVE  TypeOK'
  BY <1>1, <1>6 DEF Crash, TypeOK, files, history
<1>7. ASSUME NEW p \in Procs, NEW s \in DBs, BeginTx(p, s) \/ CommitTx(p, s)
      PROVE  TypeOK'
  BY <1>7, TxType
<1>8. CASE Checkpoint
  BY <1>1, <1>8, FoldedType DEF Checkpoint, TypeOK, procs, history
<1>9. CASE BackupStart \/ BackupNext \/ KillBackup
  <2>1. bk' \in [pc : {"idle", "run", "done", "failed"}, list : SUBSET DBs, at : 1 .. Len(Order) + 1]
    <3>1. CASE BackupStart
      BY <1>1, <3>1 DEF BackupStart
    <3>2. CASE BackupNext
      BY <1>1, <3>2 DEF BackupNext, TypeOK
    <3>3. CASE KillBackup
      BY <1>1, <3>3 DEF KillBackup, TypeOK
    <3>4. QED
      BY <1>9, <3>1, <3>2, <3>3
  <2>2. out' \in [DBs -> Content \cup {None, Torn}]
    BY <1>1, <1>9 DEF BackupStart, BackupNext, KillBackup, TypeOK
  <2>3. UNCHANGED <<size, file, log, tx, pc, next, rs, committed, undermined, raced>>
    BY <1>9 DEF BackupStart, BackupNext, KillBackup, files, procs, history
  <2>4. QED
    BY <2>1, <2>2, <2>3, <1>1 DEF TypeOK
<1>10. CASE RestoreStart \/ RestoreNext \/ KillRestore
  <2>1. rs' \in [pc : {"idle", "check", "truncate", "fill", "done", "failed"}, at : 1 .. Len(Order) + 1]
    <3>1. CASE RestoreStart
      BY <1>1, <3>1 DEF RestoreStart
    <3>2. CASE RestoreNext
      BY <1>1, <3>2 DEF RestoreNext, TypeOK
    <3>3. CASE KillRestore
      BY <1>1, <3>3 DEF KillRestore, TypeOK
    <3>4. QED
      BY <1>10, <3>1, <3>2, <3>3
  <2>2. UNCHANGED <<size, file, log, tx, pc, next, bk, out, committed, undermined, raced>>
    BY <1>10 DEF RestoreStart, RestoreNext, KillRestore, files, procs, history
  <2>3. QED
    BY <2>1, <2>2, <1>1 DEF TypeOK
<1>11. ASSUME NEW s \in DBs, VacuumInto(s) \/ CheckLocked(s) \/ Truncate(s) \/ Fill(s)
       PROVE  TypeOK'
  BY <1>11, CommandType, FillType
<1>12. CASE UNCHANGED vars
  BY <1>1, <1>12 DEF vars, files, procs, history, TypeOK
<1>13. QED
  BY <1>2, <1>3, <1>4, <1>5, <1>6, <1>7, <1>8, <1>9, <1>10, <1>11, <1>12 DEF Next

-----------------------------------------------------------------------------
(* Transactions, and how far everybody is *)

(* A process that ends is in no transaction, or its transactions end with it. *)
LEMMA TransactionsStep ==
    ASSUME Inv, [Next]_vars
    PROVE  Transactions'
<1>1. TypeOK /\ Transactions /\ None \notin Procs
  BY StorageAssumption DEF Inv
<1>2. ASSUME NEW p \in Procs, pc[p] # "up", tx' = tx, \A o \in Procs \ {p} : pc'[o] = pc[o]
      PROVE  Transactions'
  BY <1>1, <1>2 DEF Transactions
<1>3. ASSUME UNCHANGED <<tx, pc>>
      PROVE  Transactions'
  BY <1>1, <1>3 DEF Transactions
<1>4. ASSUME NEW p \in Procs, OpenFile(p)
      PROVE  Transactions'
  BY <1>1, <1>2, <1>4 DEF OpenFile, TypeOK
<1>5. ASSUME NEW p \in Procs, ReadVersion(p)
      PROVE  Transactions'
  BY <1>1, <1>2, <1>5 DEF ReadVersion, TypeOK
<1>6. ASSUME NEW p \in Procs, Migrate(p)
      PROVE  Transactions'
  BY <1>1, <1>2, <1>6 DEF Migrate, Leave, TypeOK
<1>7. ASSUME NEW p \in Procs, Backfill(p)
      PROVE  Transactions'
  BY <1>1, <1>2, <1>7 DEF Backfill, Leave, TypeOK
<1>8. ASSUME NEW p \in Procs, OpenStore(p)
      PROVE  Transactions'
  BY <1>1, <1>2, <1>8 DEF OpenStore, Leave, TypeOK
<1>9. ASSUME NEW p \in Procs, Serve(p)
      PROVE  Transactions'
  BY <1>1, <1>2, <1>9 DEF Serve, TypeOK
<1>10. ASSUME NEW p \in Procs, Stop(p)
       PROVE  Transactions'
  BY <1>1, <1>10 DEF Stop, Leave, TypeOK, Transactions
<1>11. ASSUME NEW p \in Procs, Crash(p)
       PROVE  Transactions'
  BY <1>1, <1>11 DEF Crash, TypeOK, Transactions
<1>12. ASSUME NEW p \in Procs, NEW s \in DBs, BeginTx(p, s)
       PROVE  Transactions'
  <2>1. /\ pc[p] = "up" /\ (s # Registry => p = Server)
        /\ tx' = [tx EXCEPT ![s] = p] /\ pc' = pc
    <3>1. /\ pc[p] = "up" /\ p \in Users(s) /\ tx' = [tx EXCEPT ![s] = p] /\ pc' = pc
      BY <1>12, BeginTxEffect
    <3>2. QED
      BY <3>1, OneServer
  <2>2. QED
    BY <2>1, <1>1 DEF Transactions, TypeOK
<1>13. ASSUME NEW p \in Procs, NEW s \in DBs, CommitTx(p, s)
       PROVE  Transactions'
  BY <1>1, <1>13 DEF CommitTx, Transactions, TypeOK
<1>14. CASE \/ Checkpoint \/ BackupStart \/ BackupNext \/ KillBackup
            \/ RestoreStart \/ RestoreNext \/ KillRestore
            \/ \E d \in DBs : VacuumInto(d) \/ CheckLocked(d) \/ Truncate(d) \/ Fill(d)
            \/ UNCHANGED vars
  <2>1. UNCHANGED <<tx, pc>>
    BY <1>14 DEF Checkpoint, BackupStart, BackupNext, KillBackup, RestoreStart, RestoreNext,
       KillRestore, VacuumInto, CheckLocked, Truncate, Fill, procs, vars
  <2>2. QED
    BY <2>1, <1>3
<1>15. QED
  BY <1>4, <1>5, <1>6, <1>7, <1>8, <1>9, <1>10, <1>11, <1>12, <1>13, <1>14 DEF Next

(* A copy that is there stays; only one that is missing can come. *)
LEMMA CopiesStay ==
    ASSUME Inv, [Next]_vars, NEW d \in DBs, out[d] # None
    PROVE  out'[d] = out[d]
<1>1. out \in [DBs -> Content \cup {None, Torn}]
  BY DEF Inv, TypeOK
<1>2. ASSUME NEW s \in DBs, VacuumInto(s)
      PROVE  out'[d] = out[d]
  BY <1>1, <1>2 DEF VacuumInto
<1>3. CASE KillBackup
  BY <1>1, <1>3 DEF KillBackup
<1>4. CASE UNCHANGED out
  BY <1>4
<1>5. QED
  BY <1>2, <1>3, <1>4 DEF Next, vars, OpenFile, ReadVersion, Migrate, Backfill, OpenStore, Serve, Stop,
     Crash, BeginTx, CommitTx, Checkpoint, BackupStart, BackupNext, RestoreStart, RestoreNext,
     KillRestore, CheckLocked, Truncate, Fill

(* The restore works on a database of which there is a copy. *)
LEMMA RestoreProgress ==
    ASSUME Inv, [Next]_vars, rs'.pc \in {"truncate", "fill"}
    PROVE  rs'.at \in DOMAIN Order /\ out'[Order[rs'.at]] # None
<1>1. /\ TypeOK /\ rs \in [pc : {"idle", "check", "truncate", "fill", "done", "failed"}, at : 1 .. Len(Order) + 1]
      /\ rs.pc \in {"truncate", "fill"} => rs.at \in DOMAIN Order /\ out[Order[rs.at]] # None
  BY DEF Inv, TypeOK, Progress
<1>2. rs.at \in DOMAIN Order /\ out[Order[rs.at]] # None => out'[Order[rs.at]] # None
  <2>1. ASSUME rs.at \in DOMAIN Order PROVE Order[rs.at] \in DBs
    BY <2>1, Orders
  <2>2. QED
    BY <2>1, CopiesStay
<1>3. ASSUME NEW s \in DBs, CheckLocked(s)
      PROVE  rs'.at \in DOMAIN Order /\ out'[Order[rs'.at]] # None
  <2>1. /\ rs.at <= Len(Order) /\ out[Order[rs.at]] # None /\ rs'.at = rs.at
    BY <1>1, <1>3 DEF CheckLocked
  <2>2. rs.at \in DOMAIN Order
    BY <2>1, <1>1, Orders
  <2>3. QED
    BY <2>1, <2>2, <1>2
<1>4. ASSUME NEW s \in DBs, Truncate(s)
      PROVE  rs'.at \in DOMAIN Order /\ out'[Order[rs'.at]] # None
  <2>1. rs.pc = "truncate" /\ rs'.at = rs.at
    BY <1>1, <1>4 DEF Truncate
  <2>2. QED
    BY <2>1, <1>1, <1>2
<1>5. ASSUME NEW s \in DBs, Fill(s)
      PROVE  FALSE
  BY <1>5, FillEffect
<1>6. CASE RestoreStart \/ RestoreNext \/ KillRestore
  BY <1>1, <1>6 DEF RestoreStart, RestoreNext, KillRestore
<1>7. CASE UNCHANGED rs
  BY <1>1, <1>2, <1>7
<1>8. QED
  BY <1>3, <1>4, <1>5, <1>6, <1>7 DEF Next, vars, OpenFile, ReadVersion, Migrate, Backfill, OpenStore, Serve, Stop,
     Crash, BeginTx, CommitTx, Checkpoint, BackupStart, BackupNext, KillBackup, VacuumInto

(* The backup has a whole copy of everything it has gone past. *)
LEMMA BackupProgress ==
    ASSUME Inv, [Next]_vars, bk'.pc = "run", NEW k \in DOMAIN Order, k < bk'.at, Order[k] \in bk'.list
    PROVE  out'[Order[k]] \notin {None, Torn}
<1>1. /\ TypeOK /\ out \in [DBs -> Content \cup {None, Torn}] /\ Order[k] \in DBs
      /\ bk \in [pc : {"idle", "run", "done", "failed"}, list : SUBSET DBs, at : 1 .. Len(Order) + 1]
      /\ bk.at \in Nat /\ Len(Order) \in Nat /\ k \in 1 .. Len(Order)
      /\ bk.pc = "run" /\ k < bk.at /\ Order[k] \in bk.list => out[Order[k]] \notin {None, Torn}
  BY Orders DEF Inv, TypeOK, Progress
<1>2. bk.pc = "run" /\ k < bk.at /\ Order[k] \in bk.list => out'[Order[k]] \notin {None, Torn}
  BY <1>1, CopiesStay
<1>3. ASSUME NEW s \in DBs, VacuumInto(s)
      PROVE  out'[Order[k]] \notin {None, Torn}
  <2>1. /\ bk.pc = "run" /\ s = Order[bk.at] /\ bk'.list = bk.list
        /\ out' = [out EXCEPT ![s] = Snapshot(s)] /\ bk'.at = bk.at + 1
    <3>1. bk' # [bk EXCEPT !.pc = "failed"]
      BY <1>1
    <3>2. /\ bk.pc = "run" /\ s = Order[bk.at] /\ bk' = [bk EXCEPT !.at = @ + 1]
          /\ out' = [out EXCEPT ![s] = Snapshot(s)]
      BY <1>3, <3>1 DEF VacuumInto
    <3>3. QED
      BY <3>2, <1>1
  <2>2. out'[s] = View(s) /\ View(s) \notin {None, Torn}
    BY <2>1, <1>1, ViewType, ContentIsThere DEF Snapshot
  <2>3. k < bk.at \/ k = bk.at
    BY <2>1, <1>1
  <2>4. QED
    BY <2>1, <2>2, <2>3, <1>2
<1>4. CASE BackupNext
  <2>1. /\ bk.pc = "run" /\ bk'.list = bk.list /\ bk'.at = bk.at + 1 /\ Order[bk.at] \notin bk.list
    BY <1>1, <1>4 DEF BackupNext
  <2>2. k < bk.at
    BY <2>1, <1>1
  <2>3. QED
    BY <2>1, <2>2, <1>2
<1>5. CASE BackupStart
  BY <1>1, <1>5 DEF BackupStart
<1>6. CASE KillBackup
  BY <1>1, <1>6 DEF KillBackup
<1>7. CASE UNCHANGED bk
  BY <1>2, <1>7
<1>8. QED
  BY <1>3, <1>4, <1>5, <1>6, <1>7 DEF Next, vars, OpenFile, ReadVersion, Migrate, Backfill, OpenStore, Serve, Stop,
     Crash, BeginTx, CommitTx, Checkpoint, RestoreStart, RestoreNext, KillRestore, CheckLocked, Truncate, Fill

(* Where a process is *)
Place(p) ==
    /\ pc[p] = "migrating" => next[p] >= 1
    /\ pc[p] = "stores" => p = Server /\ next[p] \in 1 .. Len(Stores) + 1

(* A process that migrates has read the version, and the server alone opens
   stores, one after the other. *)
LEMMA ProcsProgress ==
    ASSUME Inv, [Next]_vars, NEW o \in Procs
    PROVE  Place(o)'
<1>1. /\ TypeOK /\ Len(Stores) \in Nat /\ next[o] \in 0 .. 8 + Len(Stores)
      /\ pc[o] = "migrating" => next[o] >= 1
      /\ pc[o] = "stores" => o = Server /\ next[o] \in 1 .. Len(Stores) + 1
      /\ View(Registry).version \in 0 .. 7
  BY Orders, ViewType DEF Inv, TypeOK, Progress
<1>2. ASSUME pc'[o] = pc[o], next'[o] = next[o]
      PROVE  Place(o)'
  BY <1>1, <1>2 DEF Place
<1>3. ASSUME NEW p \in Procs, Leave(p)
      PROVE  Place(o)'
  BY <1>1, <1>3 DEF Leave, TypeOK, Place
<1>4. ASSUME NEW p \in Procs, OpenFile(p)
      PROVE  Place(o)'
  BY <1>1, <1>4 DEF OpenFile, TypeOK, Place
<1>5. ASSUME NEW p \in Procs, ReadVersion(p)
      PROVE  Place(o)'
  BY <1>1, <1>5 DEF ReadVersion, TypeOK, Place
<1>6. ASSUME NEW p \in Procs, Migrate(p)
      PROVE  Place(o)'
  <2>1. TypeOK /\ Progress
    BY DEF Inv
  <2>2. CASE next' = [next EXCEPT ![p] = next[p] + 1] /\ UNCHANGED pc /\ pc[p] = "migrating"
    BY <2>2, <1>1 DEF TypeOK, Place
  <2>3. QED
    BY <2>1, <2>2, <1>3, <1>6, MigrateEffect
<1>7. ASSUME NEW p \in Procs, Backfill(p)
      PROVE  Place(o)'
  <2>1. CASE /\ pc' = [pc EXCEPT ![p] = IF p = Server THEN "stores" ELSE "up"]
             /\ next' = [next EXCEPT ![p] = 1]
    BY <2>1, <1>1 DEF TypeOK, Place
  <2>2. QED
    BY <2>1, <1>3, <1>7, BackfillEffect
<1>8. ASSUME NEW p \in Procs, OpenStore(p)
      PROVE  Place(o)'
  <2>1. CASE /\ next' = [next EXCEPT ![p] = @ + 1] /\ UNCHANGED pc
             /\ pc[p] = "stores" /\ next[p] <= Len(Stores)
    BY <2>1, <1>1 DEF TypeOK, Place
  <2>2. QED
    BY <2>1, <1>3, <1>8 DEF OpenStore
<1>9. ASSUME NEW p \in Procs, Serve(p) \/ Crash(p)
      PROVE  Place(o)'
  BY <1>1, <1>9 DEF Serve, Crash, TypeOK, Place
<1>10. ASSUME NEW p \in Procs, Stop(p)
       PROVE  Place(o)'
  BY <1>3, <1>10 DEF Stop
<1>11. ASSUME NEW p \in Procs, NEW d \in DBs, BeginTx(p, d) \/ CommitTx(p, d)
       PROVE  Place(o)'
  BY <1>2, <1>11 DEF BeginTx, CommitTx
<1>12. CASE \/ Checkpoint \/ BackupStart \/ BackupNext \/ KillBackup
            \/ RestoreStart \/ RestoreNext \/ KillRestore
  BY <1>2, <1>12 DEF Checkpoint, BackupStart, BackupNext, KillBackup, RestoreStart, RestoreNext,
     KillRestore, procs
<1>13. ASSUME NEW d \in DBs, VacuumInto(d) \/ CheckLocked(d) \/ Truncate(d) \/ Fill(d)
       PROVE  Place(o)'
  BY <1>2, <1>13 DEF VacuumInto, CheckLocked, Truncate, Fill, procs
<1>14. CASE UNCHANGED vars
  BY <1>2, <1>14 DEF vars, procs
<1>15. QED
  BY <1>4, <1>5, <1>6, <1>7, <1>8, <1>9, <1>10, <1>11, <1>12, <1>13, <1>14 DEF Next

(* Everybody stays within its list. *)
LEMMA ProgressStep ==
    ASSUME Inv, [Next]_vars
    PROVE  Progress'
BY RestoreProgress, BackupProgress, ProcsProgress DEF Progress, Place

(* Only OpenFile adds to those that are opening the registry, and it tells
   whether somebody else was. *)
LEMMA AloneStep ==
    ASSUME Inv, [Next]_vars
    PROVE  Alone'
<1>1. TypeOK /\ Alone
  BY DEF Inv
<1>2. ASSUME NEW p \in Procs, OpenFile(p)
      PROVE  Alone'
  BY <1>1, <1>2 DEF OpenFile, TypeOK, Alone, Opening
<1>3. ASSUME raced' = raced, \A p \in Procs : pc'[p] \in Opening => pc[p] \in Opening
      PROVE  Alone'
  BY <1>1, <1>3 DEF Alone
<1>4. ASSUME NEW p \in Procs, Leave(p), raced' = raced
      PROVE  Alone'
  BY <1>1, <1>3, <1>4 DEF Leave, TypeOK, Opening
<1>5. ASSUME NEW p \in Procs, ReadVersion(p) \/ Serve(p) \/ Crash(p)
      PROVE  Alone'
  BY <1>1, <1>3, <1>5 DEF ReadVersion, Serve, Crash, history, TypeOK, Opening
<1>6. ASSUME NEW p \in Procs, Migrate(p)
      PROVE  Alone'
  <2>1. raced' = raced /\ (pc' = pc \/ Leave(p))
    BY <1>6, MigrateEffect DEF Inv
  <2>2. QED
    BY <2>1, <1>3, <1>4
<1>7. ASSUME NEW p \in Procs, Backfill(p)
      PROVE  Alone'
  <2>1. CASE pc' = [pc EXCEPT ![p] = IF p = Server THEN "stores" ELSE "up"] /\ raced' = raced
    BY <2>1, <1>1, <1>3 DEF TypeOK, Opening
  <2>2. QED
    BY <2>1, <1>4, <1>7, BackfillEffect
<1>8. ASSUME NEW p \in Procs, OpenStore(p) \/ Stop(p)
      PROVE  Alone'
  BY <1>3, <1>4, <1>8 DEF OpenStore, Stop, history
<1>9. CASE UNCHANGED <<pc, raced>>
  BY <1>3, <1>9
<1>10. QED
  BY <1>2, <1>5, <1>6, <1>7, <1>8, <1>9 DEF Next, vars, procs, history, BeginTx, CommitTx, Checkpoint,
     BackupStart, BackupNext, KillBackup, RestoreStart, RestoreNext, KillRestore, VacuumInto, CheckLocked,
     Truncate, Fill

-----------------------------------------------------------------------------
(* The schema of the registry *)

(* What a migration makes of a catalog that has all the earlier ones *)
LEMMA MigrationAdds ==
    ASSUME NEW i \in 1 .. 7, NEW have \in SUBSET (1 .. 7), 1 .. i - 1 \subseteq have
    PROVE  Migrated(i, have) = have \cup {i} /\ 1 .. i \subseteq Migrated(i, have)
<1>1. i = 2 => 1 \in have
  OBVIOUS
<1>2. Migrated(i, have) = have \cup {i}
  BY <1>1 DEF Migrated
<1>3. \A k \in 1 .. i : k = i \/ k \in 1 .. i - 1
  OBVIOUS
<1>4. QED
  BY <1>2, <1>3

(* Once racing or undermined, always. *)
LEMMA HistoryGrows ==
    ASSUME TypeOK, [Next]_vars
    PROVE  (raced => raced') /\ undermined \subseteq undermined'
<1>1. raced => raced'
  BY DEF Next, vars, history, OpenFile, ReadVersion, Migrate, Backfill, OpenStore, Serve, Stop, Crash,
     BeginTx, CommitTx, Checkpoint, BackupStart, BackupNext, KillBackup, RestoreStart, RestoreNext,
     KillRestore, VacuumInto, CheckLocked, Truncate, Fill
<1>2. undermined \subseteq undermined'
  BY DEF Disturbs, Next, vars, history, OpenFile, ReadVersion, Migrate, Backfill, OpenStore, Serve, Stop,
     Crash, BeginTx, CommitTx, Checkpoint, BackupStart, BackupNext, KillBackup, RestoreStart, RestoreNext,
     KillRestore, VacuumInto, CheckLocked, Truncate, Fill
<1>3. QED
  BY <1>1, <1>2


(* A process that stays where it is, or has just begun or ended, needs nothing
   that it had not before. *)
LEMMA OpenerKept ==
    ASSUME NEW o \in Procs, Opener(o), View(Registry)' = View(Registry), raced => raced',
           \/ pc'[o] = pc[o] /\ next'[o] = next[o]
           \/ pc'[o] \in {"down", "opening"}
           \/ pc[o] \in {"stores", "up"} /\ pc'[o] \in {"stores", "up"}
    PROVE  Opener(o)'
BY DEF Opener

(* Steps that leave what the registry reads alone *)
LEMMA SchemaKept ==
    ASSUME Inv, raced => raced', undermined \subseteq undermined',
           View(Registry)' = View(Registry),
           out'[Registry] \in {out[Registry], View(Registry), Torn},
           \A o \in Procs : \/ pc'[o] = pc[o] /\ next'[o] = next[o]
                            \/ pc'[o] \in {"down", "opening"}
                            \/ pc[o] \in {"stores", "up"} /\ pc'[o] \in {"stores", "up"}
    PROVE  Schema'
<1> SUFFICES ASSUME Registry \notin undermined'
             PROVE  /\ Migrations(View(Registry))'
                    /\ out'[Registry] \notin {None, Torn} => Migrations(out[Registry])'
                    /\ \A o \in Procs : Opener(o)'
  BY DEF Schema
<1>1. /\ Migrations(View(Registry))
      /\ out[Registry] \notin {None, Torn} => Migrations(out[Registry])
      /\ \A o \in Procs : Opener(o)
  BY DEF Inv, Schema
<1>2. Migrations(View(Registry))'
  BY <1>1 DEF Migrations
<1>3. out'[Registry] \notin {None, Torn} => Migrations(out[Registry])'
  BY <1>1 DEF Migrations
<1>4. \A o \in Procs : Opener(o)'
  BY <1>1, OpenerKept
<1>5. QED
  BY <1>2, <1>3, <1>4

(* A process that ends changes nothing of what the registry says. *)
LEMMA LeaveSchema ==
    ASSUME Inv, NEW p \in Procs, Leave(p), UNCHANGED <<size, out, undermined, raced>>
    PROVE  Schema'
<1>1. TypeOK /\ Registry \in DBs
  BY Orders DEF Inv
<1>2. View(Registry)' = View(Registry)
  BY <1>1, FoldedView DEF Leave
<1>3. \A o \in Procs : (pc'[o] = pc[o] /\ next'[o] = next[o]) \/ pc'[o] = "down"
  BY <1>1 DEF Leave, TypeOK
<1>4. QED
  BY <1>2, <1>3, SchemaKept

(* A migration that runs adds its own tables, says so, and takes nothing from
   those who have the registry open. *)
LEMMA MigrateSchema ==
    ASSUME Inv, NEW p \in Procs, Migrate(p)
    PROVE  Schema'
<1> DEFINE i == next[p]
           v == View(Registry)
<1>1. /\ TypeOK /\ Progress /\ Registry \in DBs
      /\ pc[p] = "migrating" /\ i \in 1 .. 7
      /\ UNCHANGED <<env, size, tx, bk, out, rs, undermined, raced>>
  BY Orders, MigrateEffect DEF Inv
<1>2. CASE Leave(p)
  BY <1>1, <1>2, LeaveSchema
<1>3. CASE /\ Write(MigrationPages(i))
           /\ next' = [next EXCEPT ![p] = i + 1]
           /\ UNCHANGED <<file, pc>>
  <2> SUFFICES ASSUME Registry \notin undermined
               PROVE  /\ Migrations(View(Registry))'
                      /\ out[Registry] \notin {None, Torn} => Migrations(out[Registry])'
                      /\ \A o \in Procs : Opener(o)'
    BY <1>1 DEF Schema
  <2>1. /\ Migrations(v) /\ \A o \in Procs : Opener(o)
        /\ out[Registry] \notin {None, Torn} => Migrations(out[Registry])
    BY DEF Inv, Schema
  <2>2. /\ v.catalog \in SUBSET (1 .. 7) /\ v.version \in 0 .. 7
        /\ v.rows.tokens \in Tokens
    BY <1>1, ViewType
  <2>3. View(Registry)' = MigrationPages(i)
    <3>1. /\ MigrationPages(i) \in Content /\ DOMAIN MigrationPages(i) = PageNames
          /\ \A q \in DOMAIN MigrationPages(i) : MigrationPages(i)[q] # None
      BY <1>1, MigrationPagesAre
    <3>2. View(Registry)' = [q \in PageNames |-> MigrationPages(i)[q]]
      <4>1. /\ DOMAIN MigrationPages(i) \subseteq PageNames /\ Write(MigrationPages(i))
            /\ UNCHANGED <<size, file>>
        BY <3>1, <1>1, <1>3
      <4>2. View(Registry)' = [q \in PageNames |-> IF q \in DOMAIN MigrationPages(i)
                                                   THEN MigrationPages(i)[q] ELSE View(Registry)[q]]
        BY <3>1, <1>1, <4>1, WriteEffect
      <4>3. QED
        BY <3>1, <4>2
    <3>3. QED
      BY <3>1, <3>2, ContentIsThere
  <2>4. /\ 1 .. i - 1 \subseteq v.catalog
        /\ ~raced => i = v.version + 1 /\ v.catalog \subseteq 1 .. v.version \cup 1 .. 3
    BY <2>1, <1>1 DEF Opener, Migrations
  <2>5. /\ View(Registry)'.catalog = v.catalog \cup {i}
        /\ 1 .. i \subseteq v.catalog \cup {i}
        /\ View(Registry)'.version = i
        /\ View(Registry)'.rows.tokens = Hashed(i, v.rows.tokens)
    <3>1. Migrated(i, v.catalog) = v.catalog \cup {i} /\ 1 .. i \subseteq Migrated(i, v.catalog)
      BY <2>2, <2>4, <1>1, MigrationAdds
    <3>2. QED
      BY <3>1, <2>3, <1>1, MigrationPagesAre
  <2>6. ~raced => v.catalog \cup {i} \subseteq 1 .. i \cup 1 .. 3
    BY <2>4, <2>2
  <2>7. Migrations(View(Registry))'
    <3>1. 4 \in v.catalog \cup {i} => Hashed(i, v.rows.tokens) # "plain"
      BY <2>1, <2>2 DEF Migrations, Hashed
    <3>2. QED
      BY <3>1, <2>5, <2>6, <1>1 DEF Migrations
  <2>8. out[Registry] \notin {None, Torn} => Migrations(out[Registry])'
    BY <2>1, <1>1 DEF Migrations
  <2>9. ASSUME NEW o \in Procs
        PROVE  Opener(o)'
    <3>1. pc'[o] = pc[o] /\ Opener(o)
      BY <2>1, <1>3
    <3>2. CASE o = p
      <4>1. next'[o] = i + 1 /\ pc'[o] = "migrating" /\ (i + 1) - 1 = i
        <5>1. next \in [Procs -> 0 .. 8 + Len(Stores)] /\ pc[o] = "migrating" /\ i \in Nat
          BY <3>2, <1>1 DEF TypeOK
        <5>2. QED
          BY <5>1, <3>1, <3>2, <1>3
      <4>2. 1 .. next'[o] - 1 \subseteq View(Registry)'.catalog
        BY <4>1, <2>5
      <4>3. next'[o] = View(Registry)'.version + 1
        BY <4>1, <2>5
      <4>4. QED
        BY <4>1, <4>2, <4>3 DEF Opener
    <3>3. CASE o # p
      <4>1. next'[o] = next[o]
        BY <3>3, <1>1, <1>3 DEF TypeOK
      <4>2. ~raced => pc[o] # "migrating"
        BY <3>3, <1>1 DEF Inv, Alone, Opening
      <4>3. v.rows.tokens = "hashed" => Hashed(i, v.rows.tokens) = "hashed"
        BY DEF Hashed
      <4>4. QED
        BY <4>1, <4>2, <4>3, <3>1, <2>5, <1>1 DEF Opener
    <3>4. QED
      BY <3>2, <3>3
  <2>10. QED
    BY <2>7, <2>8, <2>9
<1>4. QED
  BY <1>1, <1>2, <1>3, MigrateEffect

(* The end of Open: every token has its hash. *)
LEMMA BackfillSchema ==
    ASSUME Inv, NEW p \in Procs, Backfill(p)
    PROVE  Schema'
<1> DEFINE v == View(Registry)
<1>1. /\ TypeOK /\ Registry \in DBs
      /\ pc[p] = "migrating" /\ next[p] > 7 /\ next[p] \in Nat
      /\ UNCHANGED <<env, size, tx, bk, out, rs, undermined, raced>>
  BY Orders, BackfillEffect DEF Inv, TypeOK
<1>2. CASE Leave(p)
  BY <1>1, <1>2, LeaveSchema
<1>3. CASE /\ Write(BackfillPages)
           /\ pc' = [pc EXCEPT ![p] = IF p = Server THEN "stores" ELSE "up"]
           /\ next' = [next EXCEPT ![p] = 1]
           /\ UNCHANGED file
  <2> SUFFICES ASSUME Registry \notin undermined
               PROVE  /\ Migrations(View(Registry))'
                      /\ out[Registry] \notin {None, Torn} => Migrations(out[Registry])'
                      /\ \A o \in Procs : Opener(o)'
    BY <1>1 DEF Schema
  <2>1. /\ Migrations(v) /\ \A o \in Procs : Opener(o)
        /\ out[Registry] \notin {None, Torn} => Migrations(out[Registry])
    BY DEF Inv, Schema
  <2>2. v.rows.tokens \in Tokens
    BY <1>1, ViewType
  <2>3. /\ View(Registry)'.catalog = v.catalog /\ View(Registry)'.version = v.version
        /\ View(Registry)'.rows.tokens = Backfilled(v.rows.tokens)
    <3>1. /\ DOMAIN BackfillPages = {"rows"}
          /\ \A q \in DOMAIN BackfillPages : BackfillPages[q] # None
          /\ BackfillPages.rows.tokens = Backfilled(v.rows.tokens)
      BY <1>1, BackfillPagesAre
    <3>2. DOMAIN BackfillPages \subseteq PageNames
      BY <3>1 DEF PageNames
    <3>3. View(Registry)' =
              [q \in PageNames |-> IF q \in DOMAIN BackfillPages THEN BackfillPages[q] ELSE v[q]]
      BY <3>1, <3>2, <1>1, <1>3, WriteEffect
    <3>4. QED
      BY <3>1, <3>3 DEF PageNames
  <2>4. 1 .. 7 \subseteq v.catalog
    BY <2>1, <1>1 DEF Opener
  <2>5. Backfilled(v.rows.tokens) = "hashed"
    BY <2>1, <2>2, <2>4 DEF Migrations, Backfilled, Tokens
  <2>6. Migrations(View(Registry))'
    BY <2>1, <2>3, <2>5, <1>1 DEF Migrations
  <2>7. out[Registry] \notin {None, Torn} => Migrations(out[Registry])'
    BY <2>1, <1>1 DEF Migrations
  <2>8. ASSUME NEW o \in Procs
        PROVE  Opener(o)'
    <3>1. CASE o = p
      <4>1. pc'[o] \in {"stores", "up"}
        BY <3>1, <1>1, <1>3 DEF TypeOK
      <4>2. QED
        BY <4>1, <2>3, <2>4, <2>5 DEF Opener
    <3>2. CASE o # p
      <4>1. pc'[o] = pc[o] /\ next'[o] = next[o] /\ Opener(o)
        BY <3>2, <2>1, <1>1, <1>3 DEF TypeOK
      <4>2. QED
        BY <4>1, <2>3, <2>5, <1>1 DEF Opener
    <3>3. QED
      BY <3>1, <3>2
  <2>9. QED
    BY <2>6, <2>7, <2>8
<1>4. QED
  BY <1>2, <1>3, BackfillEffect

(* Opening the registry changes none of its pages. *)
LEMMA OpenFileSchema ==
    ASSUME Inv, NEW p \in Procs, OpenFile(p)
    PROVE  Schema'
<1>1. /\ TypeOK /\ Registry \in DBs /\ (raced => raced') /\ undermined \subseteq undermined'
      /\ out' = out /\ log' = log /\ next' = next
      /\ \A o \in Procs : pc'[o] = pc[o] \/ pc'[o] = "opening"
      /\ size'[Registry] = "whole"
      /\ file'[Registry] = IF size[Registry] = "whole" THEN file[Registry] ELSE Blank
  BY Orders DEF Inv, OpenFile, Disturbs, TypeOK
<1>2. View(Registry)' = View(Registry)
  BY <1>1 DEF View
<1>3. QED
  BY <1>1, <1>2, SchemaKept

(* A process starts with the migration after the version it has read. *)
LEMMA ReadVersionSchema ==
    ASSUME Inv, NEW p \in Procs, ReadVersion(p)
    PROVE  Schema'
<1>1. /\ TypeOK /\ Registry \in DBs /\ UNCHANGED <<size, file, log, out, undermined, raced>>
      /\ pc'[p] = "migrating" /\ next'[p] = View(Registry).version + 1
      /\ \A o \in Procs \ {p} : pc'[o] = pc[o] /\ next'[o] = next[o]
  BY Orders DEF Inv, ReadVersion, TypeOK, files, history
<1>2. View(Registry)' = View(Registry)
  BY <1>1, SameView
<1>3. SUFFICES ASSUME Registry \notin undermined
               PROVE  /\ Migrations(View(Registry))'
                      /\ out[Registry] \notin {None, Torn} => Migrations(out[Registry])'
                      /\ \A o \in Procs : Opener(o)'
  BY <1>1 DEF Schema
<1>4. /\ Migrations(View(Registry)) /\ \A o \in Procs : Opener(o)
      /\ out[Registry] \notin {None, Torn} => Migrations(out[Registry])
  BY <1>3 DEF Inv, Schema
<1>5. Migrations(View(Registry))' /\ (out[Registry] \notin {None, Torn} => Migrations(out[Registry])')
  BY <1>1, <1>2, <1>4 DEF Migrations
<1>6. \A o \in Procs \ {p} : Opener(o)'
  BY <1>1, <1>2, <1>4, OpenerKept
<1>7. Opener(p)'
  <2>1. View(Registry).version \in Nat
    BY <1>1, ViewType
  <2>2. next'[p] - 1 = View(Registry).version
    BY <2>1, <1>1
  <2>3. 1 .. View(Registry).version \subseteq View(Registry).catalog
    BY <1>4 DEF Migrations
  <2>4. 1 .. next'[p] - 1 \subseteq View(Registry)'.catalog
    BY <2>2, <2>3, <1>2
  <2>5. QED
    BY <2>4, <1>1, <1>2 DEF Opener
<1>8. QED
  BY <1>5, <1>6, <1>7

(* The other databases say nothing of the registry. *)
LEMMA OpenStoreSchema ==
    ASSUME Inv, NEW p \in Procs, OpenStore(p)
    PROVE  Schema'
<1> DEFINE s == Stores[next[p]]
<1>1. /\ TypeOK /\ Registry \in DBs /\ pc[p] = "stores" /\ s \in DBs \ {Registry}
      /\ UNCHANGED <<out, raced>> /\ undermined \subseteq undermined'
  BY Orders DEF Inv, OpenStore, Progress, Disturbs
<1>2. CASE Leave(p) /\ UNCHANGED <<size, committed, undermined>>
  BY <1>1, <1>2, LeaveSchema
<1>3. CASE /\ size' = [size EXCEPT ![s] = "whole"]
           /\ file' = [file EXCEPT ![s] = IF size[s] = "whole" THEN View(s) ELSE Blank]
           /\ log' = [log EXCEPT ![s] = NoLog]
           /\ next' = [next EXCEPT ![p] = @ + 1]
           /\ UNCHANGED pc
  <2>1. /\ size'[Registry] = size[Registry] /\ file'[Registry] = file[Registry]
        /\ log'[Registry] = log[Registry]
    BY <1>1, <1>3 DEF TypeOK
  <2>2. View(Registry)' = View(Registry)
    BY <2>1, <1>1, SameView
  <2>3. \A o \in Procs : \/ pc'[o] = pc[o] /\ next'[o] = next[o]
                         \/ pc[o] \in {"stores", "up"} /\ pc'[o] \in {"stores", "up"}
    BY <1>1, <1>3 DEF TypeOK
  <2>4. QED
    BY <2>2, <2>3, <1>1, SchemaKept
<1>4. QED
  BY <1>2, <1>3 DEF OpenStore

(* A transaction changes rows and no tables. *)
LEMMA TxSchema ==
    ASSUME Inv, NEW p \in Procs, NEW s \in DBs, BeginTx(p, s) \/ CommitTx(p, s)
    PROVE  Schema'
<1>1. TypeOK /\ Registry \in DBs
  BY Orders DEF Inv
<1>2. UNCHANGED <<size, out, undermined, raced, pc, next>>
  <2>1. CASE BeginTx(p, s)
    BY <2>1, BeginTxEffect
  <2>2. CASE CommitTx(p, s)
    BY <2>2, CommitTxEffect
  <2>3. QED
    BY <2>1, <2>2
<1>3. CASE s # Registry \/ BeginTx(p, s)
  <2>1. file'[Registry] = file[Registry] /\ log'[Registry] = log[Registry]
    <3>1. CASE BeginTx(p, s)
      BY <3>1, <1>1, BeginTxEffect
    <3>2. CASE CommitTx(p, s) /\ s # Registry
      BY <3>2, <1>1, CommitTxEffect
    <3>3. QED
      BY <3>1, <3>2, <1>3
  <2>2. View(Registry)' = View(Registry)
    BY <2>1, <1>1, <1>2, SameView
  <2>3. QED
    BY <2>2, <1>2, SchemaKept
<1>4. CASE s = Registry /\ CommitTx(p, s)
  <2> SUFFICES ASSUME Registry \notin undermined
               PROVE  /\ Migrations(View(Registry))'
                      /\ out[Registry] \notin {None, Torn} => Migrations(out[Registry])'
                      /\ \A o \in Procs : Opener(o)'
    BY <1>2 DEF Schema
  <2>1. /\ Migrations(View(Registry)) /\ \A o \in Procs : Opener(o)
        /\ out[Registry] \notin {None, Torn} => Migrations(out[Registry])
    BY DEF Inv, Schema
  <2>2. View(Registry)' = [View(Registry) EXCEPT !.rows = [View(Registry).rows EXCEPT !.gen = @ + 1]]
    BY <1>4, CommitTxEffect
  <2>3. View(Registry) \in Content /\ View(Registry).rows \in Rows
    BY <1>1, ViewType DEF Content
  <2>4. /\ View(Registry)'.catalog = View(Registry).catalog
        /\ View(Registry)'.version = View(Registry).version
        /\ View(Registry)'.rows.tokens = View(Registry).rows.tokens
    BY <2>2, <2>3 DEF Content, Rows
  <2>5. QED
    BY <2>1, <2>4, <1>2 DEF Migrations, Opener
<1>5. QED
  BY <1>3, <1>4

(* A copy of the registry has the schema of the registry. *)
LEMMA VacuumSchema ==
    ASSUME Inv, NEW s \in DBs, VacuumInto(s)
    PROVE  Schema'
<1>1. /\ TypeOK /\ Registry \in DBs /\ UNCHANGED <<pc, next, undermined, raced>>
  BY Orders DEF Inv, VacuumInto, procs, history
<1>2. CASE UNCHANGED <<files, out>>
  <2>1. View(Registry)' = View(Registry)
    BY <1>1, <1>2, SameView DEF files
  <2>2. QED
    BY <2>1, <1>1, <1>2, SchemaKept
<1>3. CASE /\ out' = [out EXCEPT ![s] = Snapshot(s)]
           /\ size' = [size EXCEPT ![s] = IF @ = "absent" THEN "empty" ELSE @]
           /\ Folded(IF Users(s) = {} THEN {s} ELSE {})
  <2>1. size'[Registry] = "whole" <=> size[Registry] = "whole"
    BY <1>1, <1>3 DEF TypeOK
  <2>2. View(Registry)' = View(Registry)
    BY <2>1, <1>1, <1>3, FoldedView
  <2>3. out'[Registry] \in {out[Registry], View(Registry)}
    BY <1>1, <1>3 DEF TypeOK, Snapshot
  <2>4. QED
    BY <2>2, <2>3, <1>1, SchemaKept
<1>4. QED
  BY <1>2, <1>3 DEF VacuumInto

(* A look for locks may play the log, and changes no page. *)
LEMMA CheckLockedSchema ==
    ASSUME Inv, NEW s \in DBs, CheckLocked(s)
    PROVE  Schema'
<1>1. /\ TypeOK /\ Registry \in DBs /\ UNCHANGED <<size, pc, next, out, raced>>
      /\ undermined \subseteq undermined'
  BY Orders DEF Inv, CheckLocked, procs, Disturbs
<1>2. View(Registry)' = View(Registry)
  <2>1. CASE UNCHANGED <<file, log>>
    BY <2>1, <1>1, SameView
  <2>2. CASE Folded(FoldedByCheck(s))
    BY <2>2, <1>1, FoldedView
  <2>3. QED
    BY <2>1, <2>2 DEF CheckLocked
<1>3. QED
  BY <1>1, <1>2, SchemaKept

(* A restore brings back a registry that the migrations made, and nobody has
   the registry open meanwhile. *)
LEMMA RestoredSchema ==
    ASSUME Inv, UNCHANGED <<log, pc, next, out, undermined, raced>>, Restoring(Registry),
           \/ size'[Registry] # "whole"
           \/ /\ size'[Registry] = "whole" /\ out[Registry] \in Content
              /\ file'[Registry] = out[Registry]
    PROVE  Schema'
<1> SUFFICES ASSUME Registry \notin undermined
             PROVE  /\ Migrations(View(Registry))'
                    /\ out[Registry] \notin {None, Torn} => Migrations(out[Registry])'
                    /\ \A o \in Procs : Opener(o)'
  BY DEF Schema
<1>1. /\ out[Registry] \notin {None, Torn} => Migrations(out[Registry])
      /\ log[Registry] = NoLog /\ Users(Registry) = {}
  BY Orders DEF Inv, Schema, AllSound, Sound, Idle
<1>2. out[Registry] \notin {None, Torn} => Migrations(out[Registry])'
  BY <1>1 DEF Migrations
<1>3. \A o \in Procs : pc'[o] = "down"
  BY <1>1 DEF Users
<1>4. Migrations(View(Registry))'
  <2>1. CASE size'[Registry] # "whole"
    <3>1. View(Registry)' = [q \in PageNames |-> Blank[q]]
      BY <2>1, <1>1 DEF View, NoLog, PageNames
    <3>2. /\ View(Registry)'.catalog = {} /\ View(Registry)'.version = 0
          /\ View(Registry)'.rows.tokens = "hashed"
      BY <3>1 DEF Blank, PageNames
    <3>3. QED
      BY <3>2 DEF Migrations
  <2>2. CASE /\ size'[Registry] = "whole" /\ out[Registry] \in Content
             /\ file'[Registry] = out[Registry]
    <3>1. View(Registry)' = [q \in PageNames |-> out[Registry][q]]
      BY <2>2, <1>1 DEF View, NoLog, PageNames
    <3>2. View(Registry)' = out[Registry] /\ out[Registry] \notin {None, Torn}
      BY <3>1, <2>2, ContentIsThere
    <3>3. QED
      BY <3>2, <1>1 DEF Migrations
  <2>3. QED
    BY <2>1, <2>2
<1>5. QED
  BY <1>2, <1>3, <1>4 DEF Opener

(* The two halves of a restore, of the registry and of another database *)
LEMMA TruncateFillSchema ==
    ASSUME Inv, NEW s \in DBs, Truncate(s) \/ Fill(s)
    PROVE  Schema'
<1>1. /\ TypeOK /\ Registry \in DBs /\ Restoring(s)
      /\ UNCHANGED <<log, pc, next, out, undermined, raced>>
  BY Orders DEF Inv, Truncate, Fill, procs, history
<1>2. CASE s # Registry
  <2>1. size'[Registry] = size[Registry] /\ file'[Registry] = file[Registry]
    <3>1. CASE Truncate(s)
      BY <3>1, <1>1, <1>2 DEF Truncate, TypeOK
    <3>2. CASE Fill(s)
      BY <3>2, <1>1, <1>2, FillEffect
    <3>3. QED
      BY <3>1, <3>2
  <2>2. View(Registry)' = View(Registry)
    BY <2>1, <1>1, SameView
  <2>3. QED
    BY <2>2, <1>1, SchemaKept
<1>3. CASE s = Registry
  <2>1. \/ size'[Registry] # "whole"
        \/ /\ size'[Registry] = "whole" /\ out[Registry] \in Content
           /\ file'[Registry] = out[Registry]
    <3>1. CASE Truncate(s)
      BY <3>1, <1>1, <1>3 DEF Truncate, TypeOK
    <3>2. CASE Fill(s)
      BY <3>2, <1>3, FillEffect
    <3>3. QED
      BY <3>1, <3>2
  <2>2. QED
    BY <2>1, <1>1, <1>3, RestoredSchema
<1>4. QED
  BY <1>2, <1>3

(* No step makes the version wrong. *)
LEMMA SchemaStep ==
    ASSUME Inv, [Next]_vars
    PROVE  Schema'
<1>1. TypeOK /\ Registry \in DBs
  BY Orders DEF Inv
<1>2. ASSUME NEW p \in Procs,
             OpenFile(p) \/ ReadVersion(p) \/ Migrate(p) \/ Backfill(p) \/ OpenStore(p)
      PROVE  Schema'
  BY <1>2, OpenFileSchema, ReadVersionSchema, MigrateSchema, BackfillSchema, OpenStoreSchema
<1>3. ASSUME NEW p \in Procs, Stop(p)
      PROVE  Schema'
  BY <1>3, LeaveSchema DEF Stop, history
<1>4. ASSUME NEW p \in Procs, Serve(p) \/ Crash(p)
      PROVE  Schema'
  <2>1. /\ UNCHANGED <<size, file, log, out, undermined, raced>>
        /\ \A o \in Procs : \/ pc'[o] = pc[o] /\ next'[o] = next[o]
                            \/ pc'[o] \in {"down", "opening"}
                            \/ pc[o] \in {"stores", "up"} /\ pc'[o] \in {"stores", "up"}
    BY <1>1, <1>4 DEF Serve, Crash, files, history, TypeOK
  <2>2. View(Registry)' = View(Registry)
    BY <2>1, <1>1, SameView
  <2>3. QED
    BY <2>1, <2>2, SchemaKept
<1>5. ASSUME NEW p \in Procs, NEW s \in DBs, BeginTx(p, s) \/ CommitTx(p, s)
      PROVE  Schema'
  BY <1>5, TxSchema
<1>6. CASE Checkpoint
  <2>1. UNCHANGED <<size, out, pc, next, undermined, raced>> /\ Folded({Registry})
    BY <1>6 DEF Checkpoint, procs, history
  <2>2. View(Registry)' = View(Registry)
    BY <2>1, <1>1, FoldedView
  <2>3. QED
    BY <2>1, <2>2, SchemaKept
<1>7. CASE \/ BackupStart \/ BackupNext \/ KillBackup \/ RestoreStart \/ RestoreNext \/ KillRestore
           \/ UNCHANGED vars
  <2>1. /\ UNCHANGED <<size, file, log, pc, next, undermined, raced>>
        /\ out' = out \/ out' = [out EXCEPT ![Order[bk.at]] = Torn]
    BY <1>7 DEF BackupStart, BackupNext, KillBackup, RestoreStart, RestoreNext, KillRestore, vars,
       files, procs, history
  <2>2. out'[Registry] \in {out[Registry], Torn}
    BY <2>1, <1>1 DEF TypeOK
  <2>3. View(Registry)' = View(Registry)
    BY <2>1, <1>1, SameView
  <2>4. QED
    BY <2>1, <2>2, <2>3, SchemaKept
<1>8. ASSUME NEW s \in DBs, VacuumInto(s) \/ CheckLocked(s) \/ Truncate(s) \/ Fill(s)
      PROVE  Schema'
  BY <1>8, VacuumSchema, CheckLockedSchema, TruncateFillSchema
<1>9. QED
  BY <1>2, <1>3, <1>4, <1>5, <1>6, <1>7, <1>8 DEF Next

-----------------------------------------------------------------------------
(* The theorems *)

(* The registry of an earlier release, or none, and no other database *)
LEMMA InitInv == Init => Inv
<1> SUFFICES ASSUME Init
             PROVE  Inv
  OBVIOUS
<1>1. PICK e \in Environments : \E v \in e.versions : \E c \in Past(v) :
          env = e.may /\ committed = [d \in DBs |-> IF d = Registry THEN c ELSE Blank]
  BY DEF Init
<1>2. PICK v \in e.versions : \E c \in Past(v) :
          env = e.may /\ committed = [d \in DBs |-> IF d = Registry THEN c ELSE Blank]
  BY <1>1
<1>3. PICK c \in Past(v) : committed = [d \in DBs |-> IF d = Registry THEN c ELSE Blank]
  BY <1>2
<1>4. v \in 0 .. 7
  BY StorageAssumption
<1>5. /\ c \in Content
      /\ v = 0 => c = Blank \/ c.catalog \in {{1}, {1, 2, 3}}
      /\ v # 0 => c.catalog = 1 .. v
      /\ c.version = v /\ (4 \in c.catalog => c.rows.tokens # "plain")
  <2>1. CASE v = 0
    <3>1. CASE c = Blank
      BY <2>1, <3>1, BlankIsContent DEF Blank
    <3>2. CASE c \in Release({1}, 0, {"unset"}) \cup Release({1, 2, 3}, 0, {"unset", "plain"})
      BY <2>1, <3>2, StorageAssumption DEF Release, Content, Rows, Tokens
    <3>3. QED
      BY <2>1, <3>1, <3>2 DEF Past
  <2>2. CASE v # 0
    <3>1. PICK T \in SUBSET Tokens : c \in Release(1 .. v, v, T) /\ (v >= 4 => "plain" \notin T)
      BY <1>4, <2>2 DEF Past, Tokens
    <3>2. /\ c \in [catalog : {1 .. v}, version : {v}, rows : [gen : {0}, tokens : T]]
          /\ c.catalog = 1 .. v /\ c.version = v /\ c.rows.tokens \in T
      BY <3>1 DEF Release
    <3>3. 1 .. v \in SUBSET (1 .. 7) /\ (4 \in 1 .. v => v >= 4)
      BY <1>4
    <3>4. 0 \in 0 .. MaxGen
      BY StorageAssumption
    <3>5. c \in Content
      BY <1>4, <3>1, <3>2, <3>3, <3>4 DEF Content, Rows
    <3>6. QED
      BY <2>2, <3>1, <3>2, <3>3, <3>5
  <2>3. QED
    BY <2>1, <2>2
<1>6. /\ file = committed
      /\ size = [d \in DBs |-> IF d = Registry /\ file[d].catalog # {} THEN "whole" ELSE "absent"]
      /\ log = [d \in DBs |-> NoLog] /\ tx = [d \in DBs |-> None]
      /\ pc = [p \in Procs |-> "down"] /\ next = [p \in Procs |-> 0]
      /\ bk = [pc |-> "idle", list |-> {}, at |-> 1] /\ rs = [pc |-> "idle", at |-> 1]
      /\ out = [d \in DBs |-> None] /\ undermined = {} /\ raced = FALSE
  BY DEF Init
<1>7. TypeOK
  <2>1. committed \in [DBs -> Content]
    BY <1>3, <1>5, BlankIsContent
  <2>2. NoLog \in Pages
    BY DEF NoLog, Pages
  <2>3. 1 \in 1 .. Len(Order) + 1 /\ 0 \in 0 .. 8 + Len(Stores)
    BY Orders
  <2>4. QED
    BY <2>1, <2>2, <2>3, <1>6 DEF TypeOK
<1>8. \A d \in DBs : Users(d) = {} /\ ~Restoring(d)
  BY <1>6 DEF Users, StoreOpen, Restoring
<1>9. \A d \in DBs : View(d) = IF size[d] = "whole" THEN file[d] ELSE Blank
  BY <1>6, <1>7, NoLogView
<1>10. \A d \in DBs : size[d] # "whole" => committed[d] = Blank
  <2>1. c.catalog = {} => c = Blank
    BY <1>4, <1>5
  <2>2. Registry \in DBs
    BY Orders
  <2>3. QED
    BY <2>1, <2>2, <1>3, <1>6
<1>11. AllSound
  BY <1>6, <1>8, <1>9, <1>10 DEF AllSound, Sound, Idle, Journal, Fresh
<1>12. Transactions /\ Progress /\ Alone
  BY <1>6 DEF Transactions, Progress, Alone, Opening
<1>13. Schema
  <2>1. View(Registry) = c
    BY <1>3, <1>6, <1>9, <1>10, Orders
  <2>2. Migrations(c)
    BY <1>4, <1>5 DEF Migrations, Blank
  <2>3. out[Registry] = None
    BY <1>6, Orders
  <2>4. QED
    BY <2>1, <2>2, <2>3, <1>6 DEF Schema, Opener
<1>14. QED
  BY <1>7, <1>11, <1>12, <1>13 DEF Inv

(* The invariant is inductive. *)
LEMMA InvStep == Inv /\ [Next]_vars => Inv'
BY TypeStep, SoundStep, TransactionsStep, ProgressStep, SchemaStep, AloneStep DEF Inv

(* The invariant holds in every reachable state. *)
LEMMA Invariant == Spec => []Inv
BY InitInv, InvStep, PTL DEF Spec

(* Every database, process, command and copy stays what it is declared to be. *)
THEOREM TypeCorrect == Spec => []TypeOK
<1>1. Inv => TypeOK
  BY DEF Inv
<1>2. QED
  BY <1>1, Invariant, PTL

(* What was committed or restored last is what the next process reads, over
   checkpoints, crashes and restores by the handbook. *)
THEOREM CommittedIsRead == Spec => []Durable
<1>1. Inv => Durable
  BY DEF Inv, AllSound, Sound, Durable
<1>2. QED
  BY <1>1, Invariant, PTL

(* The version claims no migration whose tables are missing; and unless two
   processes migrated at once the next migration can run, from whatever release
   the file came, one without versions included (migrate). *)
THEOREM VersionIsTrue == Spec => []VersionTellsSchema
<1>1. Inv => VersionTellsSchema
  <2> SUFFICES ASSUME Inv, Registry \notin undermined
               PROVE  LET v == View(Registry) IN
                      /\ 1 .. v.version \subseteq v.catalog
                      /\ ~raced => /\ v.catalog \subseteq 1 .. v.version \cup 1 .. 3
                                   /\ v.version < 7 => Runs(v.version + 1, v.catalog)
    BY DEF VersionTellsSchema
  <2> DEFINE v == View(Registry)
  <2>1. Migrations(v)
    BY DEF Inv, Schema
  <2>2. v.version \in 0 .. 7
    BY Orders, ViewType DEF Inv
  <2> HIDE DEF v
  <2>3. ASSUME ~raced, v.version < 7
        PROVE  Runs(v.version + 1, v.catalog)
    <3>1. CASE v.version = 3
      BY <2>1, <3>1 DEF Migrations, Runs
    <3>2. CASE v.version = 6
      BY <2>1, <2>3, <3>2 DEF Migrations, Runs
    <3>3. CASE v.version \notin {3, 6}
      BY <2>2, <3>3 DEF Runs
    <3>4. QED
      BY <3>1, <3>2, <3>3
  <2>4. QED
    BY <2>1, <2>3 DEF Migrations, v
<1>2. QED
  BY <1>1, Invariant, PTL

(* A process that is past Open has every table and no token without a hash. *)
THEOREM OpenIsComplete == Spec => []OpenedComplete
<1>1. Inv => OpenedComplete
  <2> SUFFICES ASSUME Inv, Registry \notin undermined, NEW p \in Procs, pc[p] \in {"stores", "up"}
               PROVE  View(Registry).catalog = 1 .. 7 /\ View(Registry).rows.tokens = "hashed"
    BY DEF OpenedComplete
  <2>1. 1 .. 7 \subseteq View(Registry).catalog /\ View(Registry).rows.tokens = "hashed"
    BY DEF Inv, Schema, Opener
  <2>2. View(Registry).catalog \in SUBSET (1 .. 7)
    BY Orders, ViewType DEF Inv
  <2>3. QED
    BY <2>1, <2>2
<1>2. QED
  BY <1>1, Invariant, PTL

(* A copy is what was committed when it was taken, and a backup that ends well
   has one of everything it found. *)
THEOREM BackupIsFaithful == Spec => BackupFaithful
<1> DEFINE A == /\ \A d \in DBs \ undermined : out'[d] # out[d] => out'[d] \in {committed[d], Torn}
                /\ bk.pc = "run" /\ bk'.pc = "done" => \A d \in bk.list : out[d] \notin {None, Torn}
<1>1. ASSUME Inv, [Next]_vars
      PROVE  A \/ UNCHANGED vars
  <2>1. /\ TypeOK /\ AllSound /\ out \in [DBs -> Content \cup {None, Torn}]
        /\ bk \in [pc : {"idle", "run", "done", "failed"}, list : SUBSET DBs, at : 1 .. Len(Order) + 1]
    BY <1>1 DEF Inv, TypeOK
  <2>2. ASSUME NEW d \in DBs \ undermined, out'[d] # out[d]
        PROVE  out'[d] \in {committed[d], Torn}
    <3>1. ASSUME NEW s \in DBs, VacuumInto(s)
          PROVE  out'[d] \in {committed[d], Torn}
      <4>1. d = s /\ out[d] = None /\ size[d] # "partial" /\ out'[d] = View(d)
        BY <2>1, <2>2, <3>1 DEF VacuumInto, Snapshot
      <4>2. size[d] = "whole" => View(d) = committed[d]
        BY <2>1 DEF AllSound, Sound
      <4>3. size[d] # "whole" => View(d) = Blank /\ committed[d] = Blank
        <5>1. ASSUME size[d] # "whole"
              PROVE  log[d] = NoLog /\ committed[d] = Blank
          BY <5>1, <4>1, <2>1 DEF AllSound, Sound, Idle, Fresh, TypeOK
        <5>2. QED
          BY <5>1, <2>1, NoLogView
      <4>4. QED
        BY <4>1, <4>2, <4>3
    <3>2. CASE KillBackup
      BY <2>1, <2>2, <3>2 DEF KillBackup
    <3>3. CASE UNCHANGED out
      BY <2>2, <3>3
    <3>4. QED
      BY <1>1, <3>1, <3>2, <3>3 DEF Next, vars, OpenFile, ReadVersion, Migrate, Backfill, OpenStore, Serve,
         Stop, Crash, BeginTx, CommitTx, Checkpoint, BackupStart, BackupNext, RestoreStart, RestoreNext,
         KillRestore, CheckLocked, Truncate, Fill
  <2>3. ASSUME bk.pc = "run", bk'.pc = "done", NEW d \in bk.list
        PROVE  out[d] \notin {None, Torn}
    <3>1. bk.at > Len(Order)
      <4>1. CASE BackupNext
        BY <2>1, <2>3, <4>1 DEF BackupNext
      <4>2. ASSUME NEW s \in DBs, VacuumInto(s)
            PROVE  FALSE
        BY <2>1, <2>3, <4>2 DEF VacuumInto
      <4>3. CASE BackupStart \/ KillBackup
        BY <2>1, <2>3, <4>3 DEF BackupStart, KillBackup
      <4>4. CASE UNCHANGED bk
        BY <2>3, <4>4
      <4>5. QED
        BY <1>1, <4>1, <4>2, <4>3, <4>4 DEF Next, vars, OpenFile, ReadVersion, Migrate, Backfill, OpenStore,
           Serve, Stop, Crash, BeginTx, CommitTx, Checkpoint, RestoreStart, RestoreNext, KillRestore,
           CheckLocked, Truncate, Fill
    <3>2. d \in DBs
      BY <2>1, <2>3
    <3>3. PICK k \in 1 .. Len(Order) : d = Order[k]
      BY <3>2, Orders
    <3>4. k \in DOMAIN Order /\ k < bk.at
      BY <3>1, <3>3, <2>1, Orders
    <3>5. QED
      BY <3>3, <3>4, <2>3, <1>1 DEF Inv, Progress
  <2>4. QED
    BY <2>2, <2>3
<1>2. Inv /\ [Next]_vars => [A]_vars
  BY <1>1
<1>3. QED
  BY <1>2, Invariant, PTL DEF BackupFaithful, Spec
=============================================================================
