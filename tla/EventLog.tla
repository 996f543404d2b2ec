------------------------------ MODULE EventLog ------------------------------
(***************************************************************************)
(* The event log: internal/events Emit, its ring buffer, its SQLite store *)
(* and subscriptions, and the SSE stream of panel/api handleEventsStream. *)
(*                                                                         *)
(* Emits are concurrent calls of Emit, each for one event.  Emit takes no *)
(* lock across its steps: the store hands out the id, then the ring, then *)
(* the subscriber channels see the event.                                 *)
(***************************************************************************)
EXTENDS Integers, Sequences, FiniteSets, SequencesExt

CONSTANTS
    NEmits,       \* Emit calls
    Clients,      \* SSE clients
    Capacity,     \* ring size
    ChanCap,      \* capacity of a subscriber channel
    MaxEmitting,  \* Emit calls that may be under way together
    Burst,        \* tokens of the webhook target's bucket; 0: no target
    MaxDrops,     \* bound: connections a client loses
    MaxRestarts,  \* bound: server restarts
    StoreFails    \* may the events table fail?

ASSUME EventLogAssumption ==
    /\ NEmits \in Nat /\ IsFiniteSet(Clients)
    /\ Capacity \in Nat \ {0} /\ ChanCap \in Nat \ {0}
    /\ MaxEmitting \in Nat \ {0} /\ Burst \in Nat /\ MaxDrops \in Nat /\ MaxRestarts \in Nat
    /\ StoreFails \in BOOLEAN

(* Numbered in the order in which they begin *)
Emits == 1 .. NEmits

VARIABLES
    stored,         \* the events table, in id order
    seq,            \* Log.seq
    buf, pos, full, \* the ring
    pc, id,         \* each Emit call: where it is, and the id of its event
    conn,           \* each client's stream: "off", "subscribed", "live"
    lastId, high,   \* the last id it received (0: none) and its highID
    ch,             \* its subscriber channel
    got,            \* events written to it on this connection
    seen,           \* events written to it on any connection
    missed,         \* events its channel had no room for
    drops,          \* connections it has lost
    tokens, posted, \* the webhook bucket, and the events handed to deliver
    since, credits, \* history: events dispatched, and tokens added, since it was full
    restarts,
    raced           \* Emit calls have overlapped, or the table has failed

ring == <<buf, pos, full>>
emitVars == <<stored, seq, ring, pc, id>>
clientVars == <<conn, lastId, high, ch, got, seen, missed, drops>>
hookVars == <<tokens, posted, since, credits>>
history == <<restarts, raced>>
vars == <<emitVars, clientVars, hookVars, history>>

Slots == 0 .. Capacity - 1
Empty == [src |-> 0, id |-> 0]
Event(m) == [src |-> m, id |-> id[m]]
Events == [src : Emits, id : Nat]

TypeOK ==
    /\ stored \in Seq(Emits) /\ IsInjective(stored)
    /\ seq \in Nat
    /\ buf \in [Slots -> Events \cup {Empty}]
    /\ pos \in Slots /\ full \in BOOLEAN
    /\ pc \in [Emits -> {"new", "seq", "ring", "fanout", "hooks", "done", "killed"}]
    /\ id \in [Emits -> Nat]
    /\ conn \in [Clients -> {"off", "subscribed", "live"}]
    /\ lastId \in [Clients -> Nat] /\ high \in [Clients -> Nat]
    /\ ch \in [Clients -> Seq(Events)] /\ \A c \in Clients : Len(ch[c]) <= ChanCap
    /\ got \in [Clients -> Seq(Events)]
    /\ seen \in [Clients -> SUBSET Emits] /\ missed \in [Clients -> SUBSET Emits]
    /\ drops \in [Clients -> 0 .. MaxDrops]
    /\ tokens \in 0 .. Burst /\ posted \subseteq Emits /\ since \subseteq Emits /\ credits \in Nat
    /\ restarts \in 0 .. MaxRestarts /\ raced \in BOOLEAN

Init ==
    /\ stored = << >> /\ seq = 0
    /\ buf = [k \in Slots |-> Empty] /\ pos = 0 /\ full = FALSE
    /\ pc = [m \in Emits |-> "new"] /\ id = [m \in Emits |-> 0]
    /\ conn = [c \in Clients |-> "off"]
    /\ lastId = [c \in Clients |-> 0] /\ high = [c \in Clients |-> 0]
    /\ ch = [c \in Clients |-> << >>] /\ got = [c \in Clients |-> << >>]
    /\ seen = [c \in Clients |-> {}] /\ missed = [c \in Clients |-> {}]
    /\ drops = [c \in Clients |-> 0]
    /\ tokens = Burst /\ posted = {} /\ since = {} /\ credits = 0
    /\ restarts = 0 /\ raced = FALSE

Goto(m, l) == pc' = [pc EXCEPT ![m] = l]

-----------------------------------------------------------------------------
(* The ring: Size entries, the oldest first *)

Size == IF full THEN Capacity ELSE pos
Entry(k) == buf[(pos - Size + k - 1 + Capacity) % Capacity]
Contents == [k \in 1 .. Size |-> Entry(k)]

SkipsOne(e, last) == e.id > last + 1
NewerThan(e, last) == e.id > last
SinceID(last) ==
    LET out[k \in 0 .. Size] ==
            IF k = 0 THEN << >>
            ELSE IF NewerThan(Contents[k], last) THEN Append(out[k - 1], Contents[k])
            ELSE out[k - 1]
    IN  out[Size]

(* The newest n entries, the newest first. *)
Recent(n) == LET m == IF n <= 0 \/ n > Size THEN Size ELSE n
             IN  [k \in 1 .. m |-> buf[(pos - k + Capacity) % Capacity]]

NextPos(p) == (p + 1) % Capacity
WrapLate(p) == p + 1 = Capacity + 1
Wraps(p) == NextPos(p) = 0

-----------------------------------------------------------------------------
(* Emit *)

Emitting == {m \in Emits : pc[m] \in {"seq", "ring", "fanout", "hooks"}}

Begins(m) ==
    /\ pc[m] = "new" /\ Cardinality(Emitting) < MaxEmitting
    /\ \A k \in Emits : k < m => pc[k] # "new"

(* Store.Insert: the id is the one of the new row. *)
Insert(m) ==
    /\ Begins(m)
    /\ raced' = (raced \/ Emitting # {})
    /\ stored' = Append(stored, m)
    /\ id' = [id EXCEPT ![m] = Len(stored) + 1]
    /\ Goto(m, "seq")
    /\ UNCHANGED <<seq, ring, clientVars, hookVars, restarts>>

SetSeq(m) ==
    /\ pc[m] = "seq"
    /\ seq' = id[m]
    /\ Goto(m, "ring")
    /\ UNCHANGED <<stored, ring, id, clientVars, hookVars, history>>

(* The row could not be written: the counter gives the id. *)
InsertFails(m) ==
    /\ StoreFails /\ Begins(m)
    /\ raced' = TRUE
    /\ seq' = seq + 1
    /\ id' = [id EXCEPT ![m] = seq + 1]
    /\ Goto(m, "ring")
    /\ UNCHANGED <<stored, ring, clientVars, hookVars, restarts>>

PushRing(m) ==
    /\ pc[m] = "ring"
    /\ buf' = [buf EXCEPT ![pos] = Event(m)]
    /\ pos' = NextPos(pos)
    /\ full' = (full \/ Wraps(pos))
    /\ Goto(m, "fanout")
    /\ UNCHANGED <<stored, seq, id, clientVars, hookVars, history>>

HasRoom(c) == Len(ch[c]) < ChanCap
Subscribed(c) == conn[c] # "off"

(* A send that does not block: a full channel drops the event. *)
FanOut(m) ==
    /\ pc[m] = "fanout"
    /\ ch' = [c \in Clients |-> IF Subscribed(c) /\ HasRoom(c)
                                THEN Append(ch[c], Event(m)) ELSE ch[c]]
    /\ missed' = [c \in Clients |-> IF Subscribed(c) /\ ~HasRoom(c)
                                    THEN missed[c] \cup {m} ELSE missed[c]]
    /\ Goto(m, "hooks")
    /\ UNCHANGED <<stored, seq, ring, id, conn, lastId, high, got, seen, drops,
                   hookVars, history>>

AboveOne(t) == t > 1
rateLimitAllow(t) == t >= 1

(* Dispatch: deliver runs on its own, posts once and never tries again. *)
Dispatch(m) ==
    /\ pc[m] = "hooks"
    /\ IF rateLimitAllow(tokens)
       THEN tokens' = tokens - 1 /\ posted' = posted \cup {m}
       ELSE UNCHANGED <<tokens, posted>>
    /\ since' = since \cup {m}
    /\ Goto(m, "done")
    /\ UNCHANGED <<stored, seq, ring, id, clientVars, credits, history>>

Uncapped(t) == t
Capped(t) == Min({t, Burst})

(* A tenth of a second passes between two calls of rateLimitAllow: what it    *)
(* adds to the bucket is added, and capped, by the later one.                 *)
Refill ==
    /\ tokens' = Capped(tokens + 1)
    /\ IF tokens' < Burst THEN credits' = credits + 1 /\ UNCHANGED since
                          ELSE credits' = 0 /\ since' = {}
    /\ UNCHANGED <<emitVars, clientVars, posted, history>>

-----------------------------------------------------------------------------
(* handleEventsStream *)

(* Subscribe comes before the replay. *)
Connect(c) ==
    /\ conn[c] = "off"
    /\ conn' = [conn EXCEPT ![c] = "subscribed"]
    /\ high' = [high EXCEPT ![c] = 0]
    /\ got' = [got EXCEPT ![c] = << >>]
    /\ UNCHANGED <<emitVars, lastId, ch, seen, missed, drops, hookVars, history>>

(* The events es are written to c. *)
Write(c, es) ==
    /\ got' = [got EXCEPT ![c] = @ \o es]
    /\ seen' = [seen EXCEPT ![c] = @ \cup {e.src : e \in Range(es)}]
    /\ lastId' = [lastId EXCEPT ![c] = IF es = << >> THEN @ ELSE Last(es).id]

(* Without a Last-Event-ID nothing is replayed. *)
ReplayOf(c) == IF lastId[c] = 0 THEN << >> ELSE SinceID(lastId[c])

Replay(c) ==
    /\ conn[c] = "subscribed"
    /\ Write(c, ReplayOf(c))
    /\ high' = [high EXCEPT ![c] = Max({0} \cup {e.id : e \in Range(ReplayOf(c))})]
    /\ conn' = [conn EXCEPT ![c] = "live"]
    /\ UNCHANGED <<emitVars, ch, missed, drops, hookVars, history>>

Unsubscribe(c) ==
    /\ drops[c] < MaxDrops
    /\ drops' = [drops EXCEPT ![c] = @ + 1]
    /\ conn' = [conn EXCEPT ![c] = "off"]
    /\ ch' = [ch EXCEPT ![c] = << >>]

(* A write of the replay fails. *)
ReplayBreaks(c) ==
    /\ conn[c] = "subscribed"
    /\ \E n \in 0 .. Len(ReplayOf(c)) - 1 : Write(c, SubSeq(ReplayOf(c), 1, n))
    /\ Unsubscribe(c)
    /\ UNCHANGED <<emitVars, high, missed, hookVars, history>>

BelowReplay(e, c) == e.id < high[c]
AlreadySent(e, c) == e.id <= high[c]

Receive(c) ==
    /\ conn[c] = "live" /\ ch[c] # << >>
    /\ ch' = [ch EXCEPT ![c] = Tail(@)]
    /\ Write(c, IF AlreadySent(Head(ch[c]), c) THEN << >> ELSE <<Head(ch[c])>>)
    /\ UNCHANGED <<emitVars, conn, high, missed, drops, hookVars, history>>

(* The request's context ends, or a write fails. *)
Disconnect(c) ==
    /\ Subscribed(c)
    /\ Unsubscribe(c)
    /\ UNCHANGED <<emitVars, lastId, high, got, seen, missed, hookVars, history>>

-----------------------------------------------------------------------------
(* NewPersistentLog: the newest Capacity rows, pushed oldest first *)

Reloaded == LET n == Min({Capacity, Len(stored)})
            IN  SubSeq(stored, Len(stored) - n + 1, Len(stored))

IdOf(m) == CHOOSE k \in DOMAIN stored : stored[k] = m

Fill(s) ==
    /\ buf' = [k \in Slots |-> IF k < Len(s) THEN [src |-> s[k + 1], id |-> IdOf(s[k + 1])]
                               ELSE Empty]
    /\ pos' = Len(s) % Capacity
    /\ full' = (Len(s) = Capacity)
    /\ seq' = IF s = << >> THEN 0 ELSE IdOf(Last(s))

(* The process ends, with whatever Emit calls and streams it had, and starts  *)
(* again.  When the table cannot be read the log starts empty.                *)
Restart ==
    /\ restarts < MaxRestarts
    /\ restarts' = restarts + 1
    /\ \/ Fill(Reloaded) /\ UNCHANGED raced
       \/ StoreFails /\ Fill(<< >>) /\ raced' = TRUE
    /\ pc' = [m \in Emits |-> IF m \in Emitting THEN "killed" ELSE pc[m]]
    /\ conn' = [c \in Clients |-> "off"]
    /\ ch' = [c \in Clients |-> << >>]
    /\ tokens' = Burst /\ since' = {} /\ credits' = 0
    /\ UNCHANGED <<stored, id, lastId, high, got, seen, missed, drops, posted>>

-----------------------------------------------------------------------------
EmitStep(m) == \/ Insert(m) \/ InsertFails(m) \/ SetSeq(m) \/ PushRing(m)
               \/ FanOut(m) \/ Dispatch(m)

Stream(c) == Connect(c) \/ Replay(c) \/ Receive(c)

Drop(c) == ReplayBreaks(c) \/ Disconnect(c)

Next == \/ \E m \in Emits : EmitStep(m)
        \/ Refill
        \/ \E c \in Clients : Stream(c) \/ Drop(c)
        \/ Restart

Spec == Init /\ [][Next]_vars

-----------------------------------------------------------------------------
Feed == INSTANCE EventFeed
            WITH Events <- Emits,
                 feed <- [k \in 1 .. Size |-> Entry(k).src],
                 persisted <- stored,
                 epoch <- restarts

(* The ring holds the last Capacity events, across wrap-around and restarts   *)
(* (Log.buf, pos, full); only a restart loses one of them.  Recent, which     *)
(* reads it backwards for GET /events, and SinceID, which reads it forwards   *)
(* for a replay, agree on it wherever it wraps.                               *)
RingIsFeed ==
    /\ Feed!Spec
    /\ [](\A n \in 1 .. Size : Reverse(Recent(n)) = SubSeq(Contents, Size - n + 1, Size))

(* On one connection no event is written twice, although it may be both in    *)
(* the replay and in the channel (handleEventsStream, highID).                *)
NoDuplicate == \A c \in Clients : IsInjective([k \in DOMAIN got[c] |-> got[c][k].src])

(* A live stream has no gap: an event of the ring that is newer than one the  *)
(* client has seen was written to it, waits in its channel, or found the      *)
(* channel full.  ("Subscribe before replay to close the race window")        *)
(* It needs Emit calls that follow each other: concurrent ones reach the ring *)
(* out of id order, and the replay can raise highID past an id it skips.  And *)
(* it needs the table: a log that could not read it starts empty, a client    *)
(* goes on from a newer event, and a later start brings back the ones between.*)
NoGap ==
    \A c \in Clients : ~raced /\ conn[c] = "live" =>
        \A e \in Range(Contents) :
            (/\ pc[e.src] \in {"done", "killed"}
             /\ \E m \in seen[c] : id[m] < e.id)
            => e.src \in seen[c] \cup missed[c] \cup {q.src : q \in Range(ch[c])}

(* The webhook's rate limit, of a burst and a rate: counted from any moment   *)
(* at which the bucket was full, the first Burst events are all handed to     *)
(* deliver, and never more than Burst and one for every token added since     *)
(* (rateLimitAllow).  What deliver hands on is not promised: it posts once.   *)
BurstAllowed ==
    /\ Cardinality(since) <= Burst => since \subseteq posted
    /\ Cardinality(since \cap posted) <= Burst + credits

=============================================================================
