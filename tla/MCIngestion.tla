---------------------------- MODULE MCIngestion ----------------------------
(* A small instance of Ingestion for TLC: two documents; version 1 has one
   chunk, version 2 two, version 3 none. *)
EXTENDS Ingestion

CONSTANTS d1, d2

TwoDocs == <<d1, d2>>
OneTwoNone == <<1, 2, 0>>

(* The documents change twice while requests take turns and files are
   unreadable; a crash, or every failure, meets two documents that share a
   batch; requests that interleave, and three requests that meet every
   failure, are of one document. *)
InTurn == {"fs", "fetch"}
Killed == {"fetch", "crash"}
Faulty == {"embed", "qdrant", "registry"}
Overlapping == {"fs", "fetch", "qdrant", "overlap"}
AllFaults == {"fs", "fetch", "embed", "qdrant", "registry", "crash"}

SmallBounds ==
    [e \in {InTurn, Killed, Faulty, Overlapping, AllFaults} |->
       CASE e = InTurn -> [docs |-> {d1, d2}, jobs |-> 3, edits |-> 2]
         [] e = Killed -> [docs |-> {d1, d2}, jobs |-> 2, edits |-> 1]
         [] e = Faulty -> [docs |-> {d1, d2}, jobs |-> 2, edits |-> 0]
         [] e = Overlapping -> [docs |-> {d1}, jobs |-> 3, edits |-> 0]
         [] e = AllFaults -> [docs |-> {d1}, jobs |-> 3, edits |-> 1]]
SmallEnvironments == DOMAIN SmallBounds

=============================================================================
