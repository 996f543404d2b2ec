----------------------------- MODULE Ingestion -----------------------------
(***************************************************************************)
(* Ingesting one source of the data plane: the admin handlers of          *)
(* data-plane/server, the row and the document_tracking table of          *)
(* data-plane/source, the file and REST connectors, and the points they   *)
(* keep in Qdrant.                                                         *)
(*                                                                         *)
(* A document's content is a version v of Length[v] chunks; 0 stands for  *)
(* no document, no recorded hash, no point.  Requests are not serialised  *)
(* by the server.  What a behaviour may meet is chosen once, in env: calls *)
(* that fail, a crash, requests that interleave at every call they make   *)
(* to the registry or to Qdrant (a batch's Upsert, of 100 points a call,  *)
(* is one step, which an error or a crash may cut).                       *)
(***************************************************************************)
EXTENDS Integers, Sequences, FiniteSets, SequencesExt

CONSTANTS
    NJobs,      \* HTTP requests, each used once
    DocOrder,   \* the documents, in directory order
    Length,     \* chunks of each version
    BatchSize,  \* maxEmbedBatch
    Environments,  \* sets of what may happen in one behaviour
    Bounds      \* of each of them: documents, requests, changes of the documents

Events == {"fs", "fetch", "embed", "qdrant", "registry", "crash", "overlap"}

ASSUME IngestionAssumption ==
    /\ NJobs \in Nat /\ DocOrder \in Seq(Range(DocOrder)) /\ IsInjective(DocOrder)
    /\ Length \in Seq(Nat) /\ BatchSize \in Nat \ {0}
    /\ Environments \subseteq SUBSET Events
    /\ Bounds \in [Environments -> [docs : SUBSET Range(DocOrder), jobs : Nat, edits : Nat]]

(* Numbered in the order in which they begin *)
Jobs == 1 .. NJobs
Docs == Range(DocOrder)
Versions == DOMAIN Length
Content == {0} \cup Versions
(* A point: the connector that made it, the document and the chunk *)
Places == {"file", "rest"} \X Docs \X (1 .. Max(Range(Length)))
Chunk == [place : Places, version : Versions]

VARIABLES
    files,            \* content of each document at its origin
    status, kind,     \* the row of sources: "absent" or its status; file or rest
    chunkCount,       \* its chunk_count
    points,           \* Qdrant: the version whose chunk each place holds
    hash,             \* document_tracking: the version whose hash is recorded
    pc,               \* where each request is
    type,             \* the source type it read
    pending,          \* batches of chunks it has to embed and store
    newHash, seen,    \* docHashes it has to record, and seenDocs
    gone, swept,      \* tracked documents it has to sweep; the one without points
    stored,           \* its ChunksStored
    edits,
    env,              \* what may happen in this behaviour
    torn              \* history: documents of which a call failed, or was never
                      \* made, since they were last taken up or deleted

row == <<status, kind, chunkCount>>
jobVars == <<pc, type, pending, newHash, seen, gone, swept, stored>>
vars == <<files, row, points, hash, jobVars, edits, env, torn>>

LivePcs == {"connect", "scan", "store", "sweep", "count", "dpoints", "drow", "dtrack"}
Live(j) == pc[j] \in LivePcs
NoPoints == [p \in Places |-> 0]
NoHashes == [d \in Docs |-> 0]

TypeOK ==
    /\ files \in [Docs -> Content]
    /\ status \in {"absent", "pending", "ingesting", "active", "error"}
    /\ kind \in {"file", "rest"} /\ chunkCount \in Nat
    /\ points \in [Places -> Content] /\ hash \in [Docs -> Content]
    /\ pc \in [Jobs -> {"idle", "done", "killed"} \cup LivePcs]
    /\ type \in [Jobs -> {"file", "rest"}]
    /\ pending \in [Jobs -> Seq(Seq(Chunk))]
    /\ newHash \in [Jobs -> [Docs -> Content]]
    /\ seen \in [Jobs -> SUBSET Docs] /\ gone \in [Jobs -> SUBSET Docs]
    /\ swept \in [Jobs -> SUBSET Docs] /\ torn \in SUBSET Docs
    /\ stored \in [Jobs -> Nat]
    /\ env \in Environments /\ edits \in 0 .. Bounds[env].edits

(* No source yet, or one that has just been created *)
Init ==
    /\ env \in Environments /\ edits = 0
    /\ files \in [Docs -> Content] /\ \A d \in Docs \ Bounds[env].docs : files[d] = 0
    /\ \/ status = "absent" /\ kind = "file"
       \/ status = "pending" /\ kind \in {"file", "rest"}
    /\ chunkCount = 0
    /\ points = NoPoints /\ hash = NoHashes
    /\ pc = [j \in Jobs |-> "idle"] /\ type = [j \in Jobs |-> "file"]
    /\ pending = [j \in Jobs |-> << >>]
    /\ newHash = [j \in Jobs |-> NoHashes]
    /\ seen = [j \in Jobs |-> {}] /\ gone = [j \in Jobs |-> {}]
    /\ swept = [j \in Jobs |-> {}] /\ torn = {}
    /\ stored = [j \in Jobs |-> 0]

Goto(j, l) == pc' = [pc EXCEPT ![j] = l]
MayStart(j) ==
    /\ j <= Bounds[env].jobs
    /\ pc[j] = "idle" /\ \A x \in Jobs : x < j => pc[x] # "idle"
    /\ "overlap" \in env \/ \A x \in Jobs : ~Live(x)

-----------------------------------------------------------------------------
(* handleAdminCreateSource *)
CreateSource(j, t) ==
    /\ MayStart(j) /\ Goto(j, "done")
    /\ \/ /\ status = "absent"
          /\ status' = "pending" /\ kind' = t /\ chunkCount' = 0
       \/ /\ status # "absent" \/ "registry" \in env
          /\ UNCHANGED row
    /\ UNCHANGED <<files, points, hash, type, pending, newHash, seen, gone, swept, stored, edits, env, torn>>

-----------------------------------------------------------------------------
(* handleAdminIngestSource *)

BeginIngest(j) ==
    /\ MayStart(j)
    /\ \/ status # "absent" /\ Goto(j, "connect") /\ type' = [type EXCEPT ![j] = kind]
       \/ (status = "absent" \/ "registry" \in env) /\ Goto(j, "done") /\ UNCHANGED type
    /\ UNCHANGED <<files, row, points, hash, pending, newHash, seen, gone, swept, stored, edits, env, torn>>

(* UpdateStatus and SetError: a row that is gone is only logged. *)
SetStatus(s) ==
    \/ status' = IF status = "absent" THEN "absent" ELSE s
    \/ "registry" \in env /\ UNCHANGED status

Connect(j) ==
    /\ pc[j] = "connect"
    /\ \/ Goto(j, "scan") /\ SetStatus("ingesting")
       \/ "fs" \in env /\ Goto(j, "done") /\ UNCHANGED status
    /\ UNCHANGED <<files, kind, chunkCount, points, hash, type, pending, newHash, seen, gone,
                   swept, stored, edits, env, torn>>

(* chunker.Split, and the point the connector of type t makes of each chunk *)
Chunks(t, d) == [k \in 1 .. (IF files[d] = 0 THEN 0 ELSE Length[files[d]]) |->
                    [place |-> <<t, d, k>>, version |-> files[d]]]

(* pending[i:end], the last batch shorter than the others *)
FullBatches(s) == [k \in 1 .. (Len(s) \div BatchSize) |->
                      SubSeq(s, (k - 1) * BatchSize + 1, k * BatchSize)]
Batches(s) == [k \in 1 .. ((Len(s) + BatchSize - 1) \div BatchSize) |->
                  SubSeq(s, (k - 1) * BatchSize + 1,
                         IF k * BatchSize < Len(s) THEN k * BatchSize ELSE Len(s))]

(* The documents whose call fails, when faults of class f may happen *)
Failing(f, S) == IF f \in env THEN SUBSET S ELSE {{}}

Listed == {d \in Docs : files[d] # 0}
Unchanged(d) == hash[d] = files[d]

(* seenDocs: a file counts as seen before it is read. *)
ReadDocs(readable) == readable
SeenDocs(readable) == Listed

(* The file connector reads the directory; unreadable files are seen all the *)
(* same, and unchanged or empty ones need nothing.  A hash that cannot be     *)
(* looked up counts as changed.                                               *)
ScanFiles(j, readable, known) ==
    LET fresh(d) == /\ d \in readable /\ Length[files[d]] > 0
                    /\ ~(d \in known /\ Unchanged(d))
    IN  /\ newHash' = [newHash EXCEPT ![j] = [d \in Docs |-> IF fresh(d) THEN files[d] ELSE 0]]
        /\ pending' = [pending EXCEPT ![j] =
              Batches(FlattenSeq([n \in DOMAIN DocOrder |->
                 IF fresh(DocOrder[n]) THEN Chunks("file", DocOrder[n]) ELSE << >>]))]
        /\ seen' = [seen EXCEPT ![j] = SeenDocs(readable)]

(* The REST connector fetches pages until one fails; every document is stored *)
(* by a call of its own, and nothing is tracked.                              *)
FetchPages(j, fetched) ==
    /\ pending' = [pending EXCEPT ![j] = FlattenSeq([n \in DOMAIN DocOrder |->
           IF DocOrder[n] \in fetched /\ Chunks("rest", DocOrder[n]) # << >>
           THEN <<Chunks("rest", DocOrder[n])>> ELSE << >>])]
    /\ UNCHANGED <<newHash, seen>>

(* Ingest until it has something to store: it fails when the directory cannot *)
(* be read or the origin's URL is none.                                       *)
Scan(j) ==
    /\ pc[j] = "scan"
    /\ \/ /\ Goto(j, "store")
          /\ \/ /\ type[j] = "file"
                /\ \E u \in Failing("fs", Listed), k \in Failing("registry", Listed) :
                      ScanFiles(j, Listed \ u, Listed \ k)
             \/ /\ type[j] = "rest"
                /\ \E u \in Failing("fetch", Listed) : FetchPages(j, Listed \ u)
          /\ UNCHANGED status
       \/ /\ (IF type[j] = "file" THEN "fs" ELSE "fetch") \in env
          /\ Goto(j, "done") /\ SetStatus("error")
          /\ UNCHANGED <<pending, newHash, seen>>
    /\ torn' = torn \ {d \in Docs : newHash'[j][d] # 0}
    /\ UNCHANGED <<files, kind, chunkCount, points, hash, type, gone, swept, stored, edits, env>>

(* The first n chunks of a batch are in Qdrant. *)
Upserted(batch, n) ==
    [p \in Places |-> IF \E k \in 1 .. n : batch[k].place = p
                      THEN (CHOOSE c \in Range(batch) : c.place = p).version
                      ELSE points[p]]

(* Embed gives up after its retries: no vector of the batch is to be had. *)
EmbedFails == "embed" \in env

(* The documents that have a chunk in a batch *)
DocsIn(batch) == {d \in Docs : \E c \in Range(batch) : c.place[2] = d}

(* Embed and Upsert of one batch.  A batch that fails is noted and passed     *)
(* over; Upsert sends 100 points a call, so a part of it may be stored.       *)
StoreBatch(j) ==
    LET b == Head(pending[j]) IN
    /\ pc[j] = "store" /\ pending[j] # << >>
    /\ pending' = [pending EXCEPT ![j] = Tail(@)]
    /\ \/ /\ points' = Upserted(b, Len(b))
          /\ stored' = [stored EXCEPT ![j] = @ + Len(b)]
          /\ UNCHANGED torn
       \/ /\ EmbedFails
          /\ torn' = torn \cup DocsIn(b)
          /\ UNCHANGED <<points, stored>>
       \/ /\ "qdrant" \in env
          /\ \E n \in 0 .. Len(b) : points' = Upserted(b, n)
          /\ torn' = torn \cup DocsIn(b)
          /\ UNCHANGED stored
    /\ UNCHANGED <<files, row, hash, pc, type, newHash, seen, gone, swept, edits, env>>

(* SetDocHash of a document that was chunked, whether or not its batches were *)
(* stored; an error is ignored.                                               *)
RecordHash(j, d) ==
    /\ pc[j] = "store" /\ pending[j] = << >> /\ newHash[j][d] # 0
    /\ newHash' = [newHash EXCEPT ![j][d] = 0]
    /\ \/ hash' = [hash EXCEPT ![d] = newHash[j][d]] /\ UNCHANGED torn
       \/ "registry" \in env /\ UNCHANGED hash /\ torn' = torn \cup {d}
    /\ UNCHANGED <<files, row, points, pc, type, pending, seen, gone, swept, stored, edits, env>>

SweepNothing(j) == {}
Missing(j) == {d \in Docs : hash[d] # 0} \ seen[j]

(* ListDocIDs, once every hash is recorded: without the list nothing is swept. *)
ListDocs(j) ==
    /\ pc[j] = "store" /\ pending[j] = << >> /\ newHash[j] = NoHashes
    /\ Goto(j, "sweep")
    /\ \/ gone' = [gone EXCEPT ![j] = IF type[j] = "file" THEN Missing(j) ELSE {}]
       \/ "registry" \in env /\ gone' = [gone EXCEPT ![j] = {}]
    /\ UNCHANGED <<files, row, points, hash, type, pending, newHash, seen, swept, stored, edits,
                   env, torn>>

(* A tracked document that is no longer listed: DeleteByFilter on source_id   *)
(* and file, then DeleteDocTracking, both errors ignored.                     *)
SweepPoints(j, d) ==
    /\ pc[j] = "sweep" /\ d \in gone[j] /\ swept[j] = {}
    /\ gone' = [gone EXCEPT ![j] = @ \ {d}] /\ swept' = [swept EXCEPT ![j] = {d}]
    /\ \/ points' = [p \in Places |-> IF p[1] = "file" /\ p[2] = d THEN 0 ELSE points[p]]
       \/ "qdrant" \in env /\ UNCHANGED points
    /\ torn' = torn \cup {d}
    /\ UNCHANGED <<files, row, hash, pc, type, pending, newHash, seen, stored, edits, env>>

SweepRow(j, d) ==
    /\ pc[j] = "sweep" /\ d \in swept[j]
    /\ swept' = [swept EXCEPT ![j] = {}]
    /\ \/ hash' = [hash EXCEPT ![d] = 0] /\ torn' = torn \ {d}
       \/ "registry" \in env /\ UNCHANGED <<hash, torn>>
    /\ UNCHANGED <<files, row, points, pc, type, pending, newHash, seen, gone, stored, edits, env>>

StillIngesting == "ingesting"
AfterIngest == "active"

(* UpdateStatus, then UpdateCounts *)
FinishIngest(j) ==
    /\ pc[j] = "sweep" /\ gone[j] = {} /\ swept[j] = {}
    /\ Goto(j, "count")
    /\ SetStatus(AfterIngest)
    /\ UNCHANGED <<files, kind, chunkCount, points, hash, type, pending, newHash, seen, gone,
                   swept, stored, edits, env, torn>>

UpdateCounts(j) ==
    /\ pc[j] = "count" /\ Goto(j, "done")
    /\ \/ chunkCount' = IF status = "absent" THEN chunkCount ELSE stored[j]
       \/ "registry" \in env /\ UNCHANGED chunkCount
    /\ UNCHANGED <<files, status, kind, points, hash, type, pending, newHash, seen, gone, swept,
                   stored, edits, env, torn>>

-----------------------------------------------------------------------------
(* handleAdminDeleteSource *)

BeginDelete(j) ==
    /\ MayStart(j)
    /\ \/ status # "absent" /\ Goto(j, "dpoints")
       \/ (status = "absent" \/ "registry" \in env) /\ Goto(j, "done")
    /\ UNCHANGED <<files, row, points, hash, type, pending, newHash, seen, gone, swept, stored, edits, env, torn>>

RowOnly == points
PointsLeft == NoPoints

(* DeleteByFilter on source_id: an error ends the request with the row kept. *)
DeletePoints(j) ==
    /\ pc[j] = "dpoints"
    /\ \/ points' = PointsLeft /\ Goto(j, "drow")
       \/ "qdrant" \in env /\ points' \in {points, PointsLeft} /\ Goto(j, "done")
    /\ torn' = Docs
    /\ UNCHANGED <<files, row, hash, type, pending, newHash, seen, gone, swept, stored, edits, env>>

DeleteRow(j) ==
    /\ pc[j] = "drow"
    /\ \/ status # "absent" /\ status' = "absent" /\ chunkCount' = 0 /\ Goto(j, "dtrack")
       \/ /\ status = "absent" \/ "registry" \in env
          /\ Goto(j, "done") /\ UNCHANGED <<status, chunkCount>>
    /\ UNCHANGED <<files, kind, points, hash, type, pending, newHash, seen, gone, swept, stored, edits, env, torn>>

(* DeleteAllDocTracking, its error ignored *)
DeleteTracking(j) ==
    /\ pc[j] = "dtrack" /\ Goto(j, "done")
    /\ \/ hash' = NoHashes /\ torn' = {}
       \/ "registry" \in env /\ UNCHANGED <<hash, torn>>
    /\ UNCHANGED <<files, row, points, type, pending, newHash, seen, gone, swept, stored, edits, env>>

-----------------------------------------------------------------------------
(* The origin's documents change; the server dies. *)

EditDoc(d, v) ==
    /\ d \in Bounds[env].docs /\ edits < Bounds[env].edits /\ files[d] # v
    /\ edits' = edits + 1
    /\ files' = [files EXCEPT ![d] = v]
    /\ UNCHANGED <<row, points, hash, jobVars, env, torn>>

(* A request was embedding and storing documents it had not recorded. *)
Writing(d) == \E j \in Jobs : pc[j] = "store" /\ newHash[j][d] # 0

(* A batch that was being stored may be there in part. *)
Crash ==
    /\ "crash" \in env
    /\ \E j \in Jobs : /\ Live(j)
                       /\ \/ UNCHANGED points
                          \/ /\ pc[j] = "store" /\ pending[j] # << >>
                             /\ \E n \in 0 .. Len(Head(pending[j])) :
                                   points' = Upserted(Head(pending[j]), n)
    /\ pc' = [j \in Jobs |-> IF Live(j) THEN "killed" ELSE pc[j]]
    /\ torn' = torn \cup {d \in Docs : Writing(d)}
    /\ UNCHANGED <<files, row, hash, type, pending, newHash, seen, gone, swept, stored, edits, env>>

-----------------------------------------------------------------------------
Step(j) ==
    \/ Connect(j) \/ Scan(j) \/ StoreBatch(j) \/ ListDocs(j) \/ FinishIngest(j) \/ UpdateCounts(j)
    \/ \E d \in Docs : RecordHash(j, d) \/ SweepPoints(j, d) \/ SweepRow(j, d)
    \/ DeletePoints(j) \/ DeleteRow(j) \/ DeleteTracking(j)

Next ==
    \/ \E j \in Jobs :
          \/ \E t \in {"file", "rest"} : CreateSource(j, t)
          \/ BeginIngest(j) \/ BeginDelete(j) \/ Step(j)
    \/ \E d \in Docs, v \in Content : EditDoc(d, v)
    \/ Crash

Spec == Init /\ [][Next]_vars

(* Every call of a request returns: Qdrant, the embedding service and SQLite  *)
(* are called under timeouts, and retries are bounded.                        *)
FairSpec == Spec /\ \A j \in Jobs : WF_vars(Step(j))

-----------------------------------------------------------------------------
Idle == \A j \in Jobs : ~Live(j)

Spared(bad) == env \cap bad = {}

(* "skips unchanged documents, re-embeds modified ones": a document whose     *)
(* hash is recorded, and which later ingests will skip, has every chunk of    *)
(* that version in Qdrant.  Ingest records the hash of a document whose batch *)
(* failed all the same; but only of such a document, or of one whose own row  *)
(* could not be written or whose update was cut short, does the row say more  *)
(* than the points, and only until the document is next stored or deleted:    *)
(* the other documents of the ingest are not touched by the failure.          *)
StoredWhenTracked ==
    Spared({"overlap"}) /\ Idle =>
        \A d \in Docs \ torn : hash[d] # 0 =>
            \A k \in 1 .. Length[hash[d]] : points[<<"file", d, k>>] = hash[d]

(* "Source deletion cascade: DELETE /admin/sources/{id} removes all           *)
(* associated Qdrant points": a source that is gone has none, whatever call   *)
(* failed or crashed on the way, if no ingest ran beside the deletion.        *)
NoGhosts == Spared({"overlap"}) /\ Idle /\ status = "absent" => points = NoPoints

(* "removes deleted points": when an ingest of a directory ends, no document  *)
(* outside the listing it made has points (seenDocs, the sweep).              *)
RemovedSwept ==
    [][\A j \in Jobs : FinishIngest(j) /\ type[j] = "file" /\ Spared({"qdrant", "registry", "crash", "overlap"}) =>
          \A p \in Places : p[1] = "file" /\ p[2] \notin seen[j] => points[p] = 0]_vars

(* Unreadable is not gone: a document that is in the directory when an ingest *)
(* lists it keeps the points and the row it had, or newer ones, until that    *)
(* ingest ends, whatever fails or is cut short, if no request runs beside it  *)
(* (seenDocs, the sweep).                                                     *)
ListedKept ==
    [][\A j \in Jobs :
          /\ Scan(j) /\ type[j] = "file" /\ pc'[j] = "store" => Listed \subseteq seen'[j]
          /\ pc[j] \in {"store", "sweep"} /\ Spared({"overlap"}) =>
                \A d \in seen[j] :
                   /\ hash[d] # 0 => hash'[d] # 0
                   /\ \A p \in Places : p[1] = "file" /\ p[2] = d /\ points[p] # 0 => points'[p] # 0]_vars

Ingesting == \E j \in Jobs : pc[j] \in {"scan", "store", "sweep"}

(* The server died during the request that began last. *)
JustKilled == \E j \in Jobs : pc[j] = "killed" /\ \A x \in Jobs : x > j => pc[x] = "idle"

(* A source does not stay "ingesting": however requests overlap and whatever  *)
(* else fails, the last ingest to end leaves another status (UpdateStatus and *)
(* SetError of handleAdminIngestSource), provided the row can be written.     *)
(* After a crash, which leaves the status behind, the next ingest clears it   *)
(* unless it is killed in its turn.                                           *)
IngestingEnds ==
    Spared({"registry"}) /\ (Spared({"crash"}) \/ Spared({"overlap"})) =>
        ((Ingesting /\ status = "ingesting") ~> (status # "ingesting" \/ JustKilled))

=============================================================================
