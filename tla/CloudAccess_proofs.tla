------------------------- MODULE CloudAccess_proofs -------------------------
(***************************************************************************)
(* Theorems about CloudAccess, for any slugs, session tokens, browsers and *)
(* session lifetime, and any number of operations.                         *)
(***************************************************************************)
EXTENDS CloudAccess, TLAPS

-----------------------------------------------------------------------------
(* The inductive invariant, in parts *)

(* What a job knows of itself, and that only a job inserts the row of its
   instance: one it did not insert is there because an error was dropped. *)
JobShape ==
    \A i \in Slugs :
        /\ job[i].stage \in {"idle", "checks", "user"} => job[i].account = 0
        /\ job[i].kind = "provision" /\ job[i].stage # "idle" => job[i].owner = i
        /\ job[i].stage \in {"user", "run", "failed"} =>
              rows[i] = None \/ slips[i] \cap {"get", "row"} # {}

(* A request under way has a user and an account, and an instance once it
   looked it up. *)
ReqShape ==
    \A r \in Reqs :
        /\ req[r].stage # "idle" => req[r].user \in Slugs /\ req[r].account # 0
        /\ req[r].stage = "inst" => req[r].inst \in Slugs

(* Every binding there is was recorded when it was made. *)
BoundEver ==
    \A u \in Slugs : users[u] # None /\ users[u].inst # None =>
        <<users[u].account, rows[users[u].inst].container>> \in everBound

(* The text of the expiry is never past the lifetime. *)
ExpiryBound ==
    \A t \in Tokens : sessions[t] # None => sessions[t].expires <= sessions[t].created + 2 * TTL

(* While operations on a slug take turns, a job and a request are never about
   the same user. *)
RequestsApart ==
    ~clash => \A i \in Slugs : job[i].stage # "idle" => \A r \in Reqs :
        req[r].stage # "idle" => req[r].user # i /\ req[r].user # job[i].owner

(* ... the row a job has inserted is still there, and nobody is bound to it, *)
RowIsOurs ==
    ~clash => \A i \in Slugs : job[i].stage \in {"start", "bind"} =>
        /\ rows[i] # None /\ \A u \in Slugs : users[u] # None => users[u].inst # i
        /\ job[i].stage = "bind" => rows[i].running

(* ... and so is the user it has created, not bound to it yet. *)
UserIsOurs ==
    ~clash => \A i \in Slugs :
        job[i].kind = "provision" /\ job[i].stage \in {"run", "start", "bind", "failed"} =>
            users[i] # None /\ users[i].account = job[i].account /\ users[i].inst # i

(* While operations on a slug take turns, the user of a session is the account
   that logged in, *)
SessionAccount ==
    ~clash => \A t \in Tokens : sessions[t] # None =>
        users[sessions[t].user] # None /\ users[sessions[t].user].account = sessions[t].account

(* ... and stays so from the password to the container the request is sent to. *)
RequestAccount ==
    ~clash => \A r \in Reqs :
        /\ req[r].stage \in {"login", "user", "inst"} =>
              users[req[r].user] # None /\ users[req[r].user].account = req[r].account
        /\ req[r].stage = "inst" => users[req[r].user].inst = req[r].inst

Inv == TypeOK /\ References /\ JobShape /\ ReqShape /\ BoundEver /\ ExpiryBound
Turns == RequestsApart /\ RowIsOurs /\ UserIsOurs /\ SessionAccount /\ RequestAccount /\ ServedOwn

-----------------------------------------------------------------------------
(* What the operations do *)

(* Formatting a time drops at most half a second of it. *)
LEMMA FormatBound ==
    ASSUME NEW x \in Nat
    PROVE  Format(x) \in Nat /\ Format(x) <= x /\ x <= Format(x) + 1
BY DEF Format

(* The rows of the tables, and the values that stand for nothing *)
LEMMA Fields ==
    /\ \A w \in UserRow : w # None /\ w.account \in 1 .. MaxGen /\ w.inst \in Slugs \cup {None}
    /\ \A w \in InstRow : w # None /\ w.container \in 1 .. MaxGen
    /\ \A j \in JobState : j.owner \in Slugs \cup {None} /\ j.account \in 0 .. MaxGen
    /\ \A q \in ReqState : q.user \in Slugs \cup {None} /\ q.inst \in Slugs \cup {None}
<1>1. \A w \in UserRow : w # None /\ w.account \in 1 .. MaxGen /\ w.inst \in Slugs \cup {None}
  BY NoneAssumption DEF UserRow
<1>2. \A w \in InstRow : w # None /\ w.container \in 1 .. MaxGen
  BY NoneAssumption DEF InstRow
<1>3. \A j \in JobState : j.owner \in Slugs \cup {None} /\ j.account \in 0 .. MaxGen
  BY DEF JobState
<1>4. \A q \in ReqState : q.user \in Slugs \cup {None} /\ q.inst \in Slugs \cup {None}
  BY DEF ReqState
<1>5. QED
  BY <1>1, <1>2, <1>3, <1>4

(* No job and no request *)
LEMMA IdleFields ==
    /\ Idle \in JobState /\ Idle.stage = "idle" /\ Idle.kind = None /\ Idle.account = 0
    /\ NoReq \in ReqState /\ NoReq.stage = "idle"
BY CloudAssumption DEF Idle, NoReq, JobState, ReqState

(* The job of one instance changes, and no other. *)
LEMMA SetJobEffect ==
    ASSUME TypeOK, NEW i \in Slugs, NEW f, SetJob(i, f)
    PROVE  /\ job'[i] = f /\ \A j \in Slugs : j # i => job'[j] = job[j]
           /\ f \in JobState => job' \in [Slugs -> JobState]
BY DEF TypeOK, SetJob

(* A job that moves on keeps its kind, owner and account. *)
LEMMA NextStageEffect ==
    ASSUME TypeOK, NEW i \in Slugs,
           NEW st \in {"idle", "checks", "user", "run", "start", "bind", "failed"},
           NextStage(i, st)
    PROVE  /\ job' \in [Slugs -> JobState]
           /\ job'[i].stage = st /\ job'[i].kind = job[i].kind
           /\ job'[i].owner = job[i].owner /\ job'[i].account = job[i].account
           /\ \A j \in Slugs : j # i => job'[j] = job[j]
<1> DEFINE f == [job[i] EXCEPT !.stage = st]
<1>1. /\ f \in JobState /\ f.stage = st /\ f.kind = job[i].kind
      /\ f.owner = job[i].owner /\ f.account = job[i].account
  BY DEF TypeOK, JobState
<1> HIDE DEF f
<1>2. SetJob(i, f)
  BY DEF NextStage, f
<1>3. QED
  BY <1>1, <1>2, SetJobEffect

(* One request changes, and no other. *)
LEMMA SetReqEffect ==
    ASSUME TypeOK, NEW r \in Reqs, NEW f, SetReq(r, f)
    PROVE  /\ req'[r] = f /\ \A q \in Reqs : q # r => req'[q] = req[q]
           /\ f \in ReqState => req' \in [Reqs -> ReqState]
BY DEF TypeOK, SetReq

(* A user is created: a row of its own, bound to nothing. *)
LEMMA CreateEffect ==
    ASSUME TypeOK, NEW u \in Slugs, Create(u)
    PROVE  /\ users' \in [Slugs -> UserRow \cup {None}]
           /\ accounts' = accounts + 1 /\ accounts + 1 \in 1 .. MaxGen
           /\ users[u] = None /\ users'[u] \in UserRow
           /\ users'[u].account = accounts + 1 /\ users'[u].inst = None
           /\ \A v \in Slugs : v # u => users'[v] = users[v]
<1> DEFINE f == [account |-> accounts + 1, inst |-> None]
<1>1. accounts + 1 \in 1 .. MaxGen
  BY CloudAssumption DEF TypeOK, Create
<1>2. f \in UserRow /\ f.account = accounts + 1 /\ f.inst = None
  BY <1>1 DEF UserRow
<1> HIDE DEF f
<1>3. users' = [users EXCEPT ![u] = f] /\ users[u] = None /\ accounts' = accounts + 1
  BY DEF Create, f
<1>4. QED
  BY <1>1, <1>2, <1>3 DEF TypeOK

SetInst(u, i) == users' = [users EXCEPT ![u].inst = i]

(* The column instance_id of a user is set, to an instance or to NULL. *)
LEMMA InstEffect ==
    ASSUME TypeOK, NEW u \in Slugs, users[u] # None, NEW i \in Slugs \cup {None},
           SetInst(u, i)
    PROVE  /\ users' \in [Slugs -> UserRow \cup {None}]
           /\ users'[u] \in UserRow
           /\ users'[u].account = users[u].account /\ users'[u].inst = i
           /\ \A v \in Slugs : v # u => users'[v] = users[v]
<1> DEFINE f == [users[u] EXCEPT !.inst = i]
<1>1. users[u] \in UserRow
  BY DEF TypeOK
<1>2. f \in UserRow /\ f.account = users[u].account /\ f.inst = i
  BY <1>1 DEF UserRow
<1>3. users' = [users EXCEPT ![u] = f]
  BY DEF SetInst
<1> HIDE DEF f
<1>4. QED
  BY <1>2, <1>3 DEF TypeOK

(* A user is bound: the account stays, and the pair is recorded. *)
LEMMA BindEffect ==
    ASSUME TypeOK, NEW u \in Slugs, NEW i \in Slugs, Bindable(u, i), SetInstanceID(u, i)
    PROVE  /\ users' \in [Slugs -> UserRow \cup {None}]
           /\ users[u] # None /\ rows[i] # None
           /\ users'[u] \in UserRow
           /\ users'[u].account = users[u].account /\ users'[u].inst = i
           /\ \A v \in Slugs : v # u => /\ users'[v] = users[v]
                                        /\ users[v] # None => users[v].inst # i
           /\ everBound' = everBound \cup {<<users[u].account, rows[i].container>>}
           /\ everBound' \subseteq (1 .. MaxGen) \X (1 .. MaxGen)
<1>1. users[u] \in UserRow /\ rows[i] \in InstRow
  BY DEF TypeOK, Bindable
<1>2. everBound' = everBound \cup {<<users[u].account, rows[i].container>>}
  BY DEF SetInstanceID
<1>3. <<users[u].account, rows[i].container>> \in (1 .. MaxGen) \X (1 .. MaxGen)
  BY <1>1, Fields
<1>4. everBound' \subseteq (1 .. MaxGen) \X (1 .. MaxGen)
  BY <1>2, <1>3 DEF TypeOK
<1>5. SetInst(u, i) /\ users[u] # None
  BY DEF Bindable, SetInstanceID, SetInst
<1>6. QED
  BY <1>2, <1>4, <1>5, InstEffect DEF Bindable

(* Deleting a row keeps the accounts and takes away the bindings to it. *)
LEMMA DeleteRowEffect ==
    ASSUME TypeOK, NEW i \in Slugs, DeleteRow(i)
    PROVE  /\ users' \in [Slugs -> UserRow \cup {None}]
           /\ rows' \in [Slugs -> InstRow \cup {None}]
           /\ rows'[i] = None /\ \A j \in Slugs : j # i => rows'[j] = rows[j]
           /\ \A u \in Slugs :
                 /\ users[u] = None => users'[u] = None
                 /\ users[u] # None =>
                       /\ users'[u] # None /\ users'[u].account = users[u].account
                       /\ users'[u].inst = IF users[u].inst = i THEN None ELSE users[u].inst
                       /\ users[u].inst # i => users'[u] = users[u]
<1>1. /\ rows' \in [Slugs -> InstRow \cup {None}]
      /\ rows'[i] = None /\ \A j \in Slugs : j # i => rows'[j] = rows[j]
  BY DEF TypeOK, DeleteRow
<1>2. ASSUME NEW u \in Slugs, users[u] # None
      PROVE  /\ users'[u] \in UserRow /\ users'[u].account = users[u].account
             /\ users'[u].inst = IF users[u].inst = i THEN None ELSE users[u].inst
             /\ users[u].inst # i => users'[u] = users[u]
  <2>1. users[u] \in UserRow
    BY <1>2 DEF TypeOK
  <2>2. users'[u] = IF users[u].inst = i THEN [users[u] EXCEPT !.inst = None] ELSE users[u]
    BY <1>2 DEF DeleteRow, Unbind
  <2>3. CASE users[u].inst = i
    <3>1. users'[u] = [users[u] EXCEPT !.inst = None]
      BY <2>2, <2>3
    <3>2. QED
      BY <2>1, <2>3, <3>1 DEF UserRow
  <2>4. CASE users[u].inst # i
    BY <2>1, <2>2, <2>4
  <2>5. QED
    BY <2>3, <2>4
<1>3. ASSUME NEW u \in Slugs, users[u] = None
      PROVE  users'[u] = None
  BY <1>3 DEF DeleteRow, Unbind
<1>4. users' = [u \in Slugs |-> users'[u]]
  BY DEF DeleteRow, Unbind
<1>5. \A u \in Slugs : users'[u] \in UserRow \cup {None}
  BY <1>2, <1>3
<1>6. users' \in [Slugs -> UserRow \cup {None}]
  BY <1>4, <1>5
<1>7. QED
  BY <1>1, <1>2, <1>3, <1>6, Fields

(* Deleting a user ends their sessions and no others. *)
LEMMA DeleteEffect ==
    ASSUME TypeOK, NEW u \in Slugs, Delete(u)
    PROVE  /\ users' \in [Slugs -> UserRow \cup {None}]
           /\ sessions' \in [Tokens -> Session \cup {None}]
           /\ users'[u] = None /\ \A v \in Slugs : v # u => users'[v] = users[v]
           /\ \A t \in Tokens :
                 sessions'[t] # None => sessions'[t] = sessions[t] /\ sessions[t].user # u
<1>1. /\ users' \in [Slugs -> UserRow \cup {None}]
      /\ users'[u] = None /\ \A v \in Slugs : v # u => users'[v] = users[v]
  BY DEF TypeOK, Delete
<1>2. /\ sessions' \in [Tokens -> Session \cup {None}]
      /\ \A t \in Tokens :
            sessions'[t] # None => sessions'[t] = sessions[t] /\ sessions[t].user # u
  BY DEF TypeOK, Delete, Cascade
<1>3. QED
  BY <1>1, <1>2

(* An error that is dropped is remembered. *)
LEMMA SlipEffect ==
    ASSUME TypeOK, NEW i \in Slugs, NEW call \in Droppable, Slip(i, call)
    PROVE  /\ slips' \in [Slugs -> SUBSET Droppable]
           /\ slips'[i] = slips[i] \cup {call}
           /\ \A j \in Slugs : j # i => slips'[j] = slips[j]
<1>1. slips' = [slips EXCEPT ![i] = slips[i] \cup {call}]
  BY DEF Slip
<1>2. slips[i] \cup {call} \in SUBSET Droppable
  BY DEF TypeOK
<1>3. QED
  BY <1>1, <1>2 DEF TypeOK

(* A job that fails deletes the user of its slug, fails to, or has none. *)
LEMMA JobFailedEffect ==
    ASSUME TypeOK, NEW i \in Slugs, JobFailed(i)
    PROVE  /\ \/ job[i].kind = "provision" /\ Delete(i) /\ UNCHANGED slips
              \/ job[i].kind # "provision" /\ UNCHANGED <<users, sessions, slips>>
              \/ /\ job[i].kind = "provision" /\ slips'[i] = slips[i] \cup {"user"}
                 /\ UNCHANGED <<users, sessions>>
           /\ slips' \in [Slugs -> SUBSET Droppable]
           /\ \A j \in Slugs : j # i => slips'[j] = slips[j]
           /\ slips[i] \subseteq slips'[i]
           /\ job[i].stage = "failed" /\ SetJob(i, Idle)
           /\ UNCHANGED <<rows, everBound, issued, req, now, accounts, containers, edits, limit, clash>>
<1> /\ job[i].stage = "failed" /\ SetJob(i, Idle)
    /\ UNCHANGED <<rows, everBound, issued, req, now, accounts, containers, edits, limit, clash>>
  BY DEF JobFailed, tables, counts
<1>1. CASE RollsBackUser(i) /\ Delete(i) /\ UNCHANGED slips
  BY <1>1 DEF RollsBackUser, TypeOK
<1>2. CASE ~RollsBackUser(i) /\ UNCHANGED <<users, sessions, slips>>
  BY <1>2 DEF RollsBackUser, TypeOK
<1>3. CASE RollsBackUser(i) /\ Slip(i, "user") /\ UNCHANGED <<users, sessions>>
  BY <1>3, SlipEffect DEF RollsBackUser, Droppable
<1>4. QED
  BY <1>1, <1>2, <1>3 DEF JobFailed

(* A container that does not start takes its row with it, or the row stays. *)
LEMMA StartFailsEffect ==
    ASSUME TypeOK, NEW i \in Slugs, StartFails(i)
    PROVE  /\ \/ DeleteRow(i) /\ UNCHANGED slips
              \/ slips'[i] = slips[i] \cup {"row"} /\ UNCHANGED <<rows, users>>
           /\ slips' \in [Slugs -> SUBSET Droppable]
           /\ \A j \in Slugs : j # i => slips'[j] = slips[j]
           /\ job[i].stage = "start" /\ NextStage(i, "failed")
           /\ UNCHANGED <<sessions, everBound, issued, req, now, accounts, containers, edits, limit, clash>>
<1> /\ job[i].stage = "start" /\ NextStage(i, "failed")
    /\ UNCHANGED <<sessions, everBound, issued, req, now, accounts, containers, edits, limit, clash>>
  BY DEF StartFails, tables, counts
<1>1. CASE DeleteRow(i) /\ UNCHANGED slips
  BY <1>1 DEF TypeOK
<1>2. CASE Slip(i, "row") /\ UNCHANGED <<rows, users>>
  BY <1>2, SlipEffect DEF Droppable
<1>3. QED
  BY <1>1, <1>2 DEF StartFails

(* An instance that is there is admitted only by an error of registry.Get. *)
LEMMA AdmitEffect ==
    ASSUME TypeOK, NEW i \in Slugs, Admit(i)
    PROVE  /\ slips' \in [Slugs -> SUBSET Droppable]
           /\ \A j \in Slugs : j # i => slips'[j] = slips[j]
           /\ rows[i] = None \/ slips'[i] \cap {"get", "row"} # {}
           /\ job[i].stage = "checks"
           /\ NextStage(i, IF job[i].kind = "provision" THEN "user" ELSE "run")
           /\ UNCHANGED <<users, rows, sessions, everBound, issued, req, now, accounts, containers, edits, limit, clash>>
<1> /\ job[i].stage = "checks"
    /\ NextStage(i, IF job[i].kind = "provision" THEN "user" ELSE "run")
    /\ UNCHANGED <<users, rows, sessions, everBound, issued, req, now, accounts, containers, edits, limit, clash>>
  BY DEF Admit, tables, counts
<1>1. CASE rows[i] = None /\ UNCHANGED slips
  BY <1>1 DEF TypeOK
<1>2. CASE rows[i] # None /\ Slip(i, "get")
  BY <1>2, SlipEffect DEF Droppable
<1>3. QED
  BY <1>1, <1>2 DEF Admit

(* A job that binds nobody had nobody to bind, or SetInstanceID failed. *)
LEMMA BindSkippedEffect ==
    ASSUME TypeOK, NEW i \in Slugs, BindSkipped(i)
    PROVE  /\ ~BindsOwner(i) \/ "bind" \in slips'[i]
           /\ slips' \in [Slugs -> SUBSET Droppable]
           /\ \A j \in Slugs : j # i => slips'[j] = slips[j]
           /\ job[i].stage = "bind" /\ SetJob(i, Idle)
           /\ UNCHANGED <<users, rows, sessions, everBound, issued, req, now, accounts, containers, edits, limit, clash>>
<1> /\ job[i].stage = "bind" /\ SetJob(i, Idle)
    /\ UNCHANGED <<users, rows, sessions, everBound, issued, req, now, accounts, containers, edits, limit, clash>>
  BY DEF BindSkipped, tables, counts
<1>1. CASE ~BindsOwner(i) /\ UNCHANGED slips
  BY <1>1 DEF TypeOK
<1>2. CASE Slip(i, "bind")
  BY <1>2, SlipEffect DEF Droppable
<1>3. QED
  BY <1>1, <1>2 DEF BindSkipped

(* A row is inserted for a new container. *)
LEMMA ReserveEffect ==
    ASSUME TypeOK, NEW i \in Slugs, Reserve(i)
    PROVE  /\ rows' \in [Slugs -> InstRow \cup {None}]
           /\ containers' \in 0 .. MaxGen
           /\ rows[i] = None /\ rows'[i] # None
           /\ \A j \in Slugs : j # i => rows'[j] = rows[j]
           /\ job[i].stage = "run" /\ NextStage(i, "start")
           /\ UNCHANGED <<users, sessions, everBound, issued, slips, req, now, accounts, edits, limit, clash>>
<1> DEFINE f == [container |-> containers + 1, running |-> FALSE]
<1>1. containers + 1 \in 1 .. MaxGen
  BY CloudAssumption DEF TypeOK, Reserve
<1>2. f \in InstRow
  BY <1>1 DEF InstRow
<1> HIDE DEF f
<1>3. rows' = [rows EXCEPT ![i] = f] /\ rows[i] = None /\ containers' = containers + 1
  BY DEF Reserve, f
<1>4. /\ job[i].stage = "run" /\ NextStage(i, "start")
      /\ UNCHANGED <<users, sessions, everBound, issued, slips, req, now, accounts, edits, limit, clash>>
  BY DEF Reserve, tables, counts
<1>5. QED
  BY <1>4, <1>1, <1>2, <1>3, Fields, CloudAssumption DEF TypeOK

(* Starting the container keeps the row and its container. *)
LEMMA StartedEffect ==
    ASSUME TypeOK, NEW i \in Slugs, Started(i)
    PROVE  /\ rows' \in [Slugs -> InstRow \cup {None}]
           /\ rows[i] # None /\ rows'[i] # None /\ rows'[i].container = rows[i].container /\ rows'[i].running
           /\ \A j \in Slugs : j # i => rows'[j] = rows[j]
           /\ job[i].stage = "start" /\ NextStage(i, "bind")
           /\ UNCHANGED <<users, sessions, everBound, issued, slips, req, now, accounts, containers, edits, limit, clash>>
<1> DEFINE f == [rows[i] EXCEPT !.running = TRUE]
<1>1. rows[i] \in InstRow
  BY DEF TypeOK, Started
<1>2. f \in InstRow /\ f.container = rows[i].container /\ f.running
  <2>1. ASSUME NEW w \in InstRow
        PROVE  LET q == [w EXCEPT !.running = TRUE]
               IN  q \in InstRow /\ q.container = w.container /\ q.running
    BY DEF InstRow
  <2>2. QED
    BY <1>1, <2>1
<1>3. rows' = [rows EXCEPT ![i] = f] /\ rows[i] # None
  BY DEF Started
<1> HIDE DEF f
<1>4. /\ job[i].stage = "start" /\ NextStage(i, "bind")
      /\ UNCHANGED <<users, sessions, everBound, issued, slips, req, now, accounts, containers, edits, limit, clash>>
  BY DEF Started, tables, counts
<1>5. QED
  BY <1>4, <1>2, <1>3, Fields DEF TypeOK

(* A login ends with a session of the user and the account it began with,
   that lasts no longer than session_ttl. *)
LEMMA CreateSessionEffect ==
    ASSUME TypeOK, ReqShape, NEW r \in Reqs, NEW t \in Tokens, CreateSession(r, t)
    PROVE  /\ sessions' \in [Tokens -> Session \cup {None}]
           /\ sessions'[t].user = req[r].user /\ sessions'[t].account = req[r].account
           /\ sessions'[t].created = now /\ sessions'[t].expires <= now + 2 * TTL
           /\ \A x \in Tokens : x # t => sessions'[x] = sessions[x]
           /\ req[r].stage = "login" /\ SetReq(r, NoReq)
           /\ users[req[r].user] # None /\ issued' = issued \cup {t}
           /\ UNCHANGED <<users, rows, everBound, slips, job, now, accounts, containers, edits, limit, clash>>
<1> DEFINE f == [user |-> req[r].user, account |-> req[r].account,
                 created |-> now, expires |-> Format(now + 2 * TTL)]
<1>1. req[r].user \in Slugs /\ req[r].account \in 1 .. MaxGen
  <2>1. req[r].user \in Slugs /\ req[r].account # 0 /\ req[r].account \in 0 .. MaxGen
    BY DEF TypeOK, ReqShape, ReqState, CreateSession
  <2>2. QED
    BY <2>1, CloudAssumption
<1>2. now \in Nat /\ limit.now \in Nat /\ now <= limit.now /\ TTL \in Nat
  <2>1. limit \in [now : Nat, edits : Nat, slips : Nat] /\ now \in 0 .. limit.now
    BY CloudAssumption DEF TypeOK
  <2>2. QED
    BY <2>1, CloudAssumption
<1>3. /\ Format(now + 2 * TTL) \in 0 .. limit.now + 2 * TTL
      /\ Format(now + 2 * TTL) <= now + 2 * TTL
  BY <1>2, FormatBound
<1>4. /\ f \in Session /\ f.user = req[r].user /\ f.account = req[r].account
      /\ f.created = now /\ f.expires <= now + 2 * TTL
  BY <1>1, <1>2, <1>3 DEF Session
<1> HIDE DEF f
<1>5. sessions' = [sessions EXCEPT ![t] = f]
  BY DEF CreateSession, f
<1>6. /\ req[r].stage = "login" /\ SetReq(r, NoReq)
      /\ users[req[r].user] # None /\ issued' = issued \cup {t}
      /\ UNCHANGED <<users, rows, everBound, slips, job, now, accounts, containers, edits, limit, clash>>
  BY DEF CreateSession, tables, counts
<1>7. QED
  BY <1>6, <1>4, <1>5 DEF TypeOK

(* A session is ended by the user, by Validate or by the purge. *)
LEMMA SessionEnds ==
    ASSUME TypeOK, \/ \E t \in Tokens : HandleCloudLogout(t) \/ ValidateExpired(t)
                   \/ PurgeExpired
    PROVE  /\ sessions' \in [Tokens -> Session \cup {None}]
           /\ \A t \in Tokens : sessions'[t] # None => sessions'[t] = sessions[t]
BY DEF TypeOK, HandleCloudLogout, ValidateExpired, PurgeExpired

(* The lookup of the user: the page without an instance, or their instance. *)
LEMMA LookupUserEffect ==
    ASSUME TypeOK, ReqShape, NEW r \in Reqs, LookupUser(r)
    PROVE  /\ req' \in [Reqs -> ReqState]
           /\ \A q \in Reqs : q # r => req'[q] = req[q]
           /\ \/ req'[r].stage = "idle"
              \/ /\ req'[r].stage = "inst" /\ req'[r].user = req[r].user
                 /\ req'[r].account = req[r].account
                 /\ req[r].user \in Slugs /\ users[req[r].user] # None
                 /\ req'[r].inst = users[req[r].user].inst /\ req'[r].inst \in Slugs
           /\ req[r].stage = "user"
           /\ UNCHANGED <<users, rows, sessions, everBound, issued, slips, job, now, accounts, containers, edits, limit, clash>>
<1> /\ req[r].stage = "user"
    /\ UNCHANGED <<users, rows, sessions, everBound, issued, slips, job, now, accounts, containers, edits, limit, clash>>
  BY DEF LookupUser, tables, counts
<1> DEFINE u == users[req[r].user]
           f == [req[r] EXCEPT !.stage = "inst", !.inst = u.inst]
<1>1. req[r].user \in Slugs /\ req[r] \in ReqState
  BY DEF TypeOK, ReqShape, LookupUser
<1>2. u # None => u.inst \in Slugs \cup {None}
  BY <1>1, Fields DEF TypeOK
<1>3. CASE u = None \/ u.inst = None
  <2>1. SetReq(r, NoReq)
    BY <1>3 DEF LookupUser
  <2>2. QED
    BY <2>1, SetReqEffect, IdleFields
<1>4. CASE u # None /\ u.inst # None
  <2>1. u.inst \in Slugs
    BY <1>2, <1>4
  <2> HIDE DEF u
  <2>2. /\ f \in ReqState /\ f.stage = "inst" /\ f.user = req[r].user
        /\ f.account = req[r].account /\ f.inst = u.inst
    BY <1>1, <2>1 DEF ReqState
  <2>3. SetReq(r, f)
    BY <1>4 DEF LookupUser, u
  <2> HIDE DEF f
  <2>4. QED
    BY <1>1, <1>4, <2>1, <2>2, <2>3, SetReqEffect DEF u
<1>5. QED
  BY <1>3, <1>4

(* The lookup of the instance: the page of one that is down, or its address. *)
LEMMA LookupInstanceEffect ==
    ASSUME TypeOK, ReqShape, NEW r \in Reqs, LookupInstance(r)
    PROVE  /\ req' \in [Reqs -> ReqState]
           /\ \A q \in Reqs : q # r => req'[q] = req[q]
           /\ \/ req'[r].stage = "idle"
              \/ /\ req'[r].stage = "send" /\ req'[r].user = req[r].user
                 /\ req'[r].account = req[r].account /\ req'[r].inst = req[r].inst
                 /\ req[r].inst \in Slugs /\ rows[req[r].inst] # None
                 /\ req'[r].container = rows[req[r].inst].container
           /\ req[r].stage = "inst"
           /\ UNCHANGED <<users, rows, sessions, everBound, issued, slips, job, now, accounts, containers, edits, limit, clash>>
<1> /\ req[r].stage = "inst"
    /\ UNCHANGED <<users, rows, sessions, everBound, issued, slips, job, now, accounts, containers, edits, limit, clash>>
  BY DEF LookupInstance, tables, counts
<1> DEFINE row == rows[req[r].inst]
           f == [req[r] EXCEPT !.stage = "send", !.container = row.container]
<1>1. req[r].inst \in Slugs /\ req[r] \in ReqState
  BY DEF TypeOK, ReqShape, LookupInstance
<1>2. row # None => row.container \in 0 .. MaxGen
  BY <1>1, Fields, CloudAssumption DEF TypeOK
<1>3. CASE row = None \/ ~row.running
  <2>1. SetReq(r, NoReq)
    BY <1>3 DEF LookupInstance
  <2>2. QED
    BY <2>1, SetReqEffect, IdleFields
<1>4. CASE row # None /\ row.running
  <2>1. row.container \in 0 .. MaxGen
    BY <1>2, <1>4
  <2>3. SetReq(r, f)
    BY <1>4 DEF LookupInstance
  <2> HIDE DEF row
  <2>2. /\ f \in ReqState /\ f.stage = "send" /\ f.user = req[r].user
        /\ f.account = req[r].account /\ f.inst = req[r].inst /\ f.container = row.container
    BY <1>1, <2>1 DEF ReqState
  <2> HIDE DEF f
  <2>4. QED
    BY <1>1, <1>4, <2>1, <2>2, <2>3, SetReqEffect DEF row
<1>5. QED
  BY <1>3, <1>4
(* The job of POST /api/instances/provision remembers the account it created. *)
LEMMA CreateJobUserEffect ==
    ASSUME TypeOK, NEW i \in Slugs, CreateJobUser(i)
    PROVE  /\ job' \in [Slugs -> JobState]
           /\ job'[i].stage = "run" /\ job'[i].kind = job[i].kind
           /\ job'[i].owner = job[i].owner /\ job'[i].account = accounts + 1
           /\ \A j \in Slugs : j # i => job'[j] = job[j]
           /\ job[i].stage = "user" /\ Create(i)
           /\ UNCHANGED <<rows, sessions, everBound, issued, slips, req, now, containers, edits, limit, clash>>
<1> DEFINE f == [job[i] EXCEPT !.stage = "run", !.account = accounts + 1]
<1>1. accounts + 1 \in 0 .. MaxGen
  BY CreateEffect, CloudAssumption DEF CreateJobUser
<1>2. ASSUME NEW g \in JobState, NEW a \in 0 .. MaxGen
      PROVE  LET q == [g EXCEPT !.stage = "run", !.account = a]
             IN  /\ q \in JobState /\ q.stage = "run" /\ q.kind = g.kind
                 /\ q.owner = g.owner /\ q.account = a
  BY DEF JobState
<1>3. /\ f \in JobState /\ f.stage = "run" /\ f.kind = job[i].kind
      /\ f.owner = job[i].owner /\ f.account = accounts + 1
  BY <1>1, <1>2 DEF TypeOK
<1> HIDE DEF f
<1>4. SetJob(i, f)
  BY DEF CreateJobUser, f
<1>5. /\ job[i].stage = "user" /\ Create(i)
      /\ UNCHANGED <<rows, sessions, everBound, issued, slips, req, now, containers, edits, limit, clash>>
  BY DEF CreateJobUser, tables, counts
<1>6. QED
  BY <1>5, <1>3, <1>4, SetJobEffect

(* The user a job binds at its end is the owner it was given. *)
LEMMA BindOwner ==
    ASSUME TypeOK, NEW i \in Slugs, Bind(i)
    PROVE  /\ job[i].owner \in Slugs /\ Bindable(job[i].owner, i)
           /\ SetInstanceID(job[i].owner, i)
BY Fields DEF TypeOK, Bind, BindsOwner

(* An operation that is the only one on its slugs *)
LEMMA ReadsAlone ==
    ASSUME clash \in BOOLEAN, NEW u, u # None, Reads({u})
    PROVE  /\ clash' \in BOOLEAN
           /\ ~clash' => /\ ~clash
                         /\ \A i \in Slugs : job[i].stage # "idle" => i # u /\ job[i].owner # u
<1>1. clash' = (clash \/ JobOn({u}))
  BY DEF Reads
<1>2. ASSUME NEW i \in Slugs, job[i].stage # "idle", i = u \/ job[i].owner = u
      PROVE  JobOn({u})
  <2>1. u \in {i, job[i].owner} \cap ({u} \ {None})
    BY <1>2
  <2>2. QED
    BY <1>2, <2>1 DEF JobOn
<1>3. clash' \in BOOLEAN /\ (~clash' => ~clash /\ ~JobOn({u}))
  BY <1>1 DEF JobOn
<1>4. QED
  BY <1>2, <1>3

(* A job that is the only one on its slugs *)
LEMMA CreatesAlone ==
    ASSUME clash \in BOOLEAN, NEW S, Creates(S)
    PROVE  /\ clash' \in BOOLEAN
           /\ ~clash' => /\ ~clash
                         /\ \A u \in S \ {None} : \A r \in Reqs :
                               req[r].stage # "idle" => req[r].user # u /\ req[r].inst # u
BY DEF Creates, RequestOn

(* An edit that is the only operation on its slugs *)
LEMMA ChangesAlone ==
    ASSUME clash \in BOOLEAN, NEW S, Changes(S)
    PROVE  /\ clash' \in BOOLEAN
           /\ ~clash' =>
                 /\ ~clash
                 /\ \A u \in S \ {None} : \A i \in Slugs :
                       job[i].stage # "idle" => i # u /\ job[i].owner # u
                 /\ \A u \in S \ {None} : \A r \in Reqs :
                       req[r].stage # "idle" => req[r].user # u /\ req[r].inst # u
BY DEF Changes, JobOn, RequestOn

(* The administrator edits within the bound. *)
LEMMA EditAlone ==
    ASSUME TypeOK, NEW S, Edit(S)
    PROVE  /\ clash' \in BOOLEAN /\ edits' \in 0 .. limit.edits /\ limit' = limit
           /\ ~clash' =>
                 /\ ~clash
                 /\ \A u \in S \ {None} : \A i \in Slugs :
                       job[i].stage # "idle" => i # u /\ job[i].owner # u
                 /\ \A u \in S \ {None} : \A r \in Reqs :
                       req[r].stage # "idle" => req[r].user # u /\ req[r].inst # u
<1>1. limit.edits \in Nat /\ edits \in 0 .. limit.edits /\ clash \in BOOLEAN
  BY CloudAssumption DEF TypeOK
<1>2. edits < limit.edits /\ edits' = edits + 1 /\ limit' = limit /\ Changes(S)
  BY DEF Edit
<1>3. edits' \in 0 .. limit.edits
  BY <1>1, <1>2
<1>4. QED
  BY <1>1, <1>2, <1>3, ChangesAlone

(* A login begins with the account of the user at that time. *)
LEMMA AuthenticateEffect ==
    ASSUME TypeOK, NEW r \in Reqs, NEW u \in Slugs, Authenticate(r, u)
    PROVE  /\ req' \in [Reqs -> ReqState]
           /\ req'[r].stage = "login" /\ req'[r].user = u
           /\ users[u] # None /\ req'[r].account = users[u].account /\ req'[r].account # 0
           /\ \A q \in Reqs : q # r => req'[q] = req[q]
           /\ req[r].stage = "idle" /\ clash' \in BOOLEAN
           /\ ~clash' => /\ ~clash
                         /\ \A i \in Slugs : job[i].stage # "idle" => i # u /\ job[i].owner # u
           /\ UNCHANGED <<users, rows, sessions, everBound, issued, slips, job, now, accounts, containers, edits, limit>>
<1> DEFINE a == users[u].account
           f == [NoReq EXCEPT !.stage = "login", !.user = u, !.account = a]
<1>1. users[u] # None /\ users[u] \in UserRow
  BY DEF Authenticate, TypeOK
<1>2. a \in 1 .. MaxGen
  BY <1>1, Fields
<1>3. a # 0
  BY <1>2, CloudAssumption
<1>4. SetReq(r, f)
  BY DEF Authenticate
<1> HIDE DEF a
<1>5. f \in ReqState /\ f.stage = "login" /\ f.user = u /\ f.account = a
  <2>1. ASSUME NEW g \in ReqState
        PROVE  LET q == [g EXCEPT !.stage = "login", !.user = u, !.account = a]
               IN  q \in ReqState /\ q.stage = "login" /\ q.user = u /\ q.account = a
    <3>1. a \in 0 .. MaxGen
      BY <1>2, CloudAssumption
    <3>2. QED
      BY <3>1 DEF ReqState
  <2>2. QED
    BY <2>1, IdleFields
<1> HIDE DEF f
<1>6. /\ req[r].stage = "idle" /\ Reads({u})
      /\ UNCHANGED <<users, rows, sessions, everBound, issued, slips, job, now, accounts, containers, edits, limit>>
  BY DEF Authenticate, tables, counts
<1>7. /\ clash' \in BOOLEAN
      /\ ~clash' => /\ ~clash
                    /\ \A i \in Slugs : job[i].stage # "idle" => i # u /\ job[i].owner # u
  BY <1>6, ReadsAlone, NoneAssumption DEF TypeOK
<1>8. QED
  BY <1>6, <1>7, <1>1, <1>3, <1>4, <1>5, SetReqEffect DEF a

(* A request carries the account of its session. *)
LEMMA ValidateEffect ==
    ASSUME TypeOK, NEW r \in Reqs, NEW t \in Tokens, NEW s \in Slugs, Validate(r, t, s)
    PROVE  /\ req' \in [Reqs -> ReqState]
           /\ req'[r].stage = "user" /\ req'[r].user = s
           /\ sessions[t] # None /\ sessions[t].user = s
           /\ req'[r].account = sessions[t].account /\ req'[r].account # 0
           /\ \A q \in Reqs : q # r => req'[q] = req[q]
           /\ req[r].stage = "idle" /\ clash' \in BOOLEAN
           /\ ~clash' => /\ ~clash
                         /\ \A i \in Slugs : job[i].stage # "idle" => i # s /\ job[i].owner # s
           /\ UNCHANGED <<users, rows, sessions, everBound, issued, slips, job, now, accounts, containers, edits, limit>>
<1> DEFINE a == sessions[t].account
           f == [NoReq EXCEPT !.stage = "user", !.user = s, !.account = a]
<1>1. sessions[t] # None /\ sessions[t] \in Session /\ sessions[t].user = s
  BY DEF Validate, MatchesSubdomain, TypeOK
<1>2. a \in 1 .. MaxGen
  BY <1>1 DEF Session
<1>3. a # 0
  BY <1>2, CloudAssumption
<1>4. SetReq(r, f)
  BY DEF Validate
<1> HIDE DEF a
<1>5. f \in ReqState /\ f.stage = "user" /\ f.user = s /\ f.account = a
  <2>1. ASSUME NEW g \in ReqState
        PROVE  LET q == [g EXCEPT !.stage = "user", !.user = s, !.account = a]
               IN  q \in ReqState /\ q.stage = "user" /\ q.user = s /\ q.account = a
    <3>1. a \in 0 .. MaxGen
      BY <1>2, CloudAssumption
    <3>2. QED
      BY <3>1 DEF ReqState
  <2>2. QED
    BY <2>1, IdleFields
<1> HIDE DEF f
<1>6. /\ req[r].stage = "idle" /\ Reads({s})
      /\ UNCHANGED <<users, rows, sessions, everBound, issued, slips, job, now, accounts, containers, edits, limit>>
  BY DEF Validate, tables, counts
<1>7. /\ clash' \in BOOLEAN
      /\ ~clash' => /\ ~clash
                    /\ \A i \in Slugs : job[i].stage # "idle" => i # s /\ job[i].owner # s
  BY <1>6, ReadsAlone, NoneAssumption DEF TypeOK
<1>8. QED
  BY <1>6, <1>7, <1>1, <1>3, <1>4, <1>5, SetReqEffect DEF a

(* A job that begins *)
LEMMA NewJobEffect ==
    ASSUME TypeOK, NEW i \in Slugs, NEW k \in {"create", "provision"},
           NEW o \in Slugs \cup {None},
           SetJob(i, [Idle EXCEPT !.stage = "checks", !.kind = k, !.owner = o])
    PROVE  /\ job' \in [Slugs -> JobState]
           /\ job'[i].stage = "checks" /\ job'[i].kind = k
           /\ job'[i].owner = o /\ job'[i].account = 0
           /\ \A j \in Slugs : j # i => job'[j] = job[j]
<1> DEFINE f == [Idle EXCEPT !.stage = "checks", !.kind = k, !.owner = o]
<1>1. /\ f \in JobState /\ f.stage = "checks" /\ f.kind = k
      /\ f.owner = o /\ f.account = 0
  <2>1. ASSUME NEW g \in JobState
        PROVE  LET q == [g EXCEPT !.stage = "checks", !.kind = k, !.owner = o]
               IN  /\ q \in JobState /\ q.stage = "checks" /\ q.kind = k /\ q.owner = o
                   /\ q.account = g.account
    BY DEF JobState
  <2>2. QED
    BY <2>1, IdleFields
<1> HIDE DEF f
<1>2. SetJob(i, f)
  BY DEF f
<1>3. QED
  BY <1>1, <1>2, SetJobEffect

(* POST /api/instances/provision *)
LEMMA HandleProvisionEffect ==
    ASSUME TypeOK, NEW i \in Slugs, HandleProvision(i)
    PROVE  /\ job' \in [Slugs -> JobState]
           /\ job'[i].stage = "checks" /\ job'[i].kind = "provision"
           /\ job'[i].owner = i /\ job'[i].account = 0
           /\ \A j \in Slugs : j # i => job'[j] = job[j]
           /\ job[i].stage = "idle" /\ clash' \in BOOLEAN
           /\ ~clash' => /\ ~clash
                         /\ \A r \in Reqs : req[r].stage # "idle" =>
                               /\ req[r].user # i /\ req[r].inst # i
           /\ slips' = [slips EXCEPT ![i] = {}]
           /\ UNCHANGED <<users, rows, sessions, everBound, issued, req, now, accounts, containers, edits, limit>>
<1>1. SetJob(i, [Idle EXCEPT !.stage = "checks", !.kind = "provision", !.owner = i])
  BY DEF HandleProvision
<1>2. /\ job[i].stage = "idle" /\ Creates({i})
      /\ slips' = [slips EXCEPT ![i] = {}]
      /\ UNCHANGED <<users, rows, sessions, everBound, issued, req, now, accounts, containers, edits, limit>>
  BY DEF HandleProvision, tables, counts
<1>3. /\ clash' \in BOOLEAN
      /\ ~clash' => /\ ~clash
                    /\ \A r \in Reqs : req[r].stage # "idle" =>
                          /\ req[r].user # i /\ req[r].inst # i
  BY <1>2, CreatesAlone, NoneAssumption DEF TypeOK
<1>4. QED
  BY <1>2, <1>3, <1>1, NewJobEffect, Zenon

(* POST /api/instances *)
LEMMA HandleCreateEffect ==
    ASSUME TypeOK, NEW i \in Slugs, NEW o \in Slugs \cup {None}, HandleCreate(i, o)
    PROVE  /\ job' \in [Slugs -> JobState]
           /\ job'[i].stage = "checks" /\ job'[i].kind = "create"
           /\ job'[i].owner = o /\ job'[i].account = 0
           /\ \A j \in Slugs : j # i => job'[j] = job[j]
           /\ job[i].stage = "idle" /\ clash' \in BOOLEAN
           /\ ~clash' => /\ ~clash
                         /\ \A r \in Reqs : req[r].stage # "idle" =>
                               /\ req[r].user # i /\ req[r].inst # i
                               /\ o # None => req[r].user # o /\ req[r].inst # o
           /\ slips' = [slips EXCEPT ![i] = {}]
           /\ UNCHANGED <<users, rows, sessions, everBound, issued, req, now, accounts, containers, edits, limit>>
<1>1. SetJob(i, [Idle EXCEPT !.stage = "checks", !.kind = "create", !.owner = o])
  BY DEF HandleCreate
<1>2. /\ job[i].stage = "idle" /\ Creates({i, o})
      /\ slips' = [slips EXCEPT ![i] = {}]
      /\ UNCHANGED <<users, rows, sessions, everBound, issued, req, now, accounts, containers, edits, limit>>
  BY DEF HandleCreate, tables, counts
<1>3. /\ clash' \in BOOLEAN
      /\ ~clash' => /\ ~clash
                    /\ \A r \in Reqs : req[r].stage # "idle" =>
                          /\ req[r].user # i /\ req[r].inst # i
                          /\ o # None => req[r].user # o /\ req[r].inst # o
  <2>1. clash \in BOOLEAN
    BY DEF TypeOK
  <2>2. /\ clash' \in BOOLEAN
        /\ ~clash' => /\ ~clash
                      /\ \A u \in {i, o} \ {None} : \A r \in Reqs :
                            req[r].stage # "idle" => req[r].user # u /\ req[r].inst # u
    BY <1>2, <2>1, CreatesAlone
  <2>3. i \in {i, o} \ {None} /\ (o # None => o \in {i, o} \ {None})
    BY NoneAssumption
  <2>4. QED
    BY <2>2, <2>3
<1>4. QED
  BY <1>2, <1>3, <1>1, NewJobEffect, Zenon

(* A job ends with the binding of its owner. *)
LEMMA BindJobEffect ==
    ASSUME TypeOK, NEW i \in Slugs, Bind(i)
    PROVE  /\ job' \in [Slugs -> JobState] /\ job'[i] = Idle
           /\ \A j \in Slugs : j # i => job'[j] = job[j]
           /\ job[i].owner \in Slugs
           /\ Bindable(job[i].owner, i) /\ SetInstanceID(job[i].owner, i)
           /\ job[i].stage = "bind"
           /\ UNCHANGED <<rows, sessions, issued, slips, req, now, accounts, containers, edits, limit, clash>>
<1>1. SetJob(i, Idle) /\ job[i].stage = "bind" /\ UNCHANGED <<rows, sessions, issued, slips, req, now, accounts, containers, edits, limit, clash>>
  BY DEF Bind, tables, counts
<1>2. QED
  BY <1>1, SetJobEffect, IdleFields, BindOwner

(* POST /api/users *)
LEMMA HandleCreateUserEffect ==
    ASSUME TypeOK, NEW u \in Slugs, HandleCreateUser(u)
    PROVE  /\ Create(u)
           /\ UNCHANGED <<rows, sessions, everBound, issued, slips, job, req, now, containers>>
           /\ clash' \in BOOLEAN /\ edits' \in 0 .. limit.edits /\ limit' = limit
           /\ ~clash' =>
                 /\ ~clash
                 /\ \A x \in Slugs : job[x].stage # "idle" => x # u /\ job[x].owner # u
                 /\ \A r \in Reqs : req[r].stage # "idle" => req[r].user # u /\ req[r].inst # u
<1>1. /\ Edit({u})
      /\ Create(u)
      /\ UNCHANGED <<rows, sessions, everBound, issued, slips, job, req, now, containers>>
  BY DEF HandleCreateUser, tables, counts
<1>2. /\ clash' \in BOOLEAN /\ edits' \in 0 .. limit.edits /\ limit' = limit
      /\ ~clash' =>
            /\ ~clash
            /\ \A x \in Slugs : job[x].stage # "idle" => x # u /\ job[x].owner # u
            /\ \A r \in Reqs : req[r].stage # "idle" => req[r].user # u /\ req[r].inst # u
  BY <1>1, EditAlone, NoneAssumption
<1>3. QED
  BY <1>1, <1>2

(* DELETE /api/users *)
LEMMA HandleDeleteUserEffect ==
    ASSUME TypeOK, NEW u \in Slugs, HandleDeleteUser(u)
    PROVE  /\ users[u] # None /\ Delete(u)
           /\ UNCHANGED <<rows, everBound, issued, slips, job, req, now, accounts, containers>>
           /\ clash' \in BOOLEAN /\ edits' \in 0 .. limit.edits /\ limit' = limit
           /\ ~clash' =>
                 /\ ~clash
                 /\ \A x \in Slugs : job[x].stage # "idle" => x # u /\ job[x].owner # u
                 /\ \A r \in Reqs : req[r].stage # "idle" => req[r].user # u /\ req[r].inst # u
<1>1. /\ Edit({u})
      /\ users[u] # None /\ Delete(u)
      /\ UNCHANGED <<rows, everBound, issued, slips, job, req, now, accounts, containers>>
  BY DEF HandleDeleteUser, tables, counts
<1>2. /\ clash' \in BOOLEAN /\ edits' \in 0 .. limit.edits /\ limit' = limit
      /\ ~clash' =>
            /\ ~clash
            /\ \A x \in Slugs : job[x].stage # "idle" => x # u /\ job[x].owner # u
            /\ \A r \in Reqs : req[r].stage # "idle" => req[r].user # u /\ req[r].inst # u
  BY <1>1, EditAlone, NoneAssumption
<1>3. QED
  BY <1>1, <1>2

(* PUT /api/users with an instance *)
LEMMA HandleUpdateUserEffect ==
    ASSUME TypeOK, NEW u \in Slugs, NEW i \in Slugs, HandleUpdateUser(u, i)
    PROVE  /\ Bindable(u, i) /\ SetInstanceID(u, i)
           /\ UNCHANGED <<rows, sessions, issued, slips, job, req, now, accounts, containers>>
           /\ clash' \in BOOLEAN /\ edits' \in 0 .. limit.edits /\ limit' = limit
           /\ ~clash' =>
                 /\ ~clash
                 /\ \A x \in Slugs : job[x].stage # "idle" => x # u /\ job[x].owner # u
                 /\ \A r \in Reqs : req[r].stage # "idle" => req[r].user # u /\ req[r].inst # u
                 /\ \A x \in Slugs : job[x].stage # "idle" => x # i /\ job[x].owner # i
                 /\ \A r \in Reqs : req[r].stage # "idle" => req[r].user # i /\ req[r].inst # i
<1> DEFINE S == {u, i}
<1>1. /\ Edit(S)
      /\ Bindable(u, i) /\ SetInstanceID(u, i)
      /\ UNCHANGED <<rows, sessions, issued, slips, job, req, now, accounts, containers>>
  BY DEF HandleUpdateUser, tables, counts
<1>2. u \in S \ {None} /\ i \in S \ {None}
  BY NoneAssumption
<1> HIDE DEF S
<1>3. /\ clash' \in BOOLEAN /\ edits' \in 0 .. limit.edits /\ limit' = limit
      /\ ~clash' =>
            /\ ~clash
            /\ \A x \in Slugs : job[x].stage # "idle" => x # u /\ job[x].owner # u
            /\ \A r \in Reqs : req[r].stage # "idle" => req[r].user # u /\ req[r].inst # u
            /\ \A x \in Slugs : job[x].stage # "idle" => x # i /\ job[x].owner # i
            /\ \A r \in Reqs : req[r].stage # "idle" => req[r].user # i /\ req[r].inst # i
  BY <1>1, <1>2, EditAlone
<1>4. QED
  BY <1>1, <1>3

(* DELETE /api/instances *)
LEMMA HandleDestroyEffect ==
    ASSUME TypeOK, NEW i \in Slugs, HandleDestroy(i)
    PROVE  /\ rows[i] # None /\ DeleteRow(i)
           /\ UNCHANGED <<sessions, everBound, issued, slips, job, req, now, accounts, containers>>
           /\ clash' \in BOOLEAN /\ edits' \in 0 .. limit.edits /\ limit' = limit
           /\ ~clash' =>
                 /\ ~clash
                 /\ \A x \in Slugs : job[x].stage # "idle" => x # i /\ job[x].owner # i
                 /\ \A r \in Reqs : req[r].stage # "idle" => req[r].user # i /\ req[r].inst # i
                 /\ \A v \in Slugs : users[v] # None /\ users[v].inst = i =>
                       /\ \A x \in Slugs : job[x].stage # "idle" => x # v /\ job[x].owner # v
                       /\ \A r \in Reqs : req[r].stage # "idle" => req[r].user # v /\ req[r].inst # v
<1> DEFINE S == {i} \cup {u \in Slugs : users[u] # None /\ users[u].inst = i}
<1>1. /\ Edit(S)
      /\ rows[i] # None /\ DeleteRow(i)
      /\ UNCHANGED <<sessions, everBound, issued, slips, job, req, now, accounts, containers>>
  BY DEF HandleDestroy, tables, counts
<1>2. /\ i \in S \ {None}
      /\ \A v \in Slugs : users[v] # None /\ users[v].inst = i => v \in S \ {None}
  BY NoneAssumption
<1> HIDE DEF S
<1>3. /\ clash' \in BOOLEAN /\ edits' \in 0 .. limit.edits /\ limit' = limit
      /\ ~clash' =>
            /\ ~clash
            /\ \A x \in Slugs : job[x].stage # "idle" => x # i /\ job[x].owner # i
            /\ \A r \in Reqs : req[r].stage # "idle" => req[r].user # i /\ req[r].inst # i
            /\ \A v \in Slugs : users[v] # None /\ users[v].inst = i =>
                  /\ \A x \in Slugs : job[x].stage # "idle" => x # v /\ job[x].owner # v
                  /\ \A r \in Reqs : req[r].stage # "idle" => req[r].user # v /\ req[r].inst # v
  BY <1>1, <1>2, EditAlone
<1>4. QED
  BY <1>1, <1>3

(* PUT /api/users with an empty instance_id *)
LEMMA HandleUnbindUserEffect ==
    ASSUME TypeOK, NEW u \in Slugs, HandleUnbindUser(u)
    PROVE  /\ users' \in [Slugs -> UserRow \cup {None}]
           /\ users[u] # None /\ users'[u] # None
           /\ users'[u].account = users[u].account /\ users'[u].inst = None
           /\ \A v \in Slugs : v # u => users'[v] = users[v]
           /\ clash' \in BOOLEAN /\ edits' \in 0 .. limit.edits /\ limit' = limit
           /\ ~clash' => /\ ~clash
                         /\ \A i \in Slugs : job[i].stage # "idle" => i # u /\ job[i].owner # u
                         /\ \A r \in Reqs : req[r].stage # "idle" => req[r].user # u /\ req[r].inst # u
           /\ UNCHANGED <<rows, sessions, everBound, issued, slips, job, req, now, accounts, containers>>
<1>1. users[u] # None /\ SetInst(u, None)
  BY DEF HandleUnbindUser, SetInst
<1>2. /\ Edit({u})
      /\ UNCHANGED <<rows, sessions, everBound, issued, slips, job, req, now, accounts, containers>>
  BY DEF HandleUnbindUser, tables, counts
<1>3. /\ clash' \in BOOLEAN /\ edits' \in 0 .. limit.edits /\ limit' = limit
      /\ ~clash' => /\ ~clash
                    /\ \A i \in Slugs : job[i].stage # "idle" => i # u /\ job[i].owner # u
                    /\ \A r \in Reqs : req[r].stage # "idle" => req[r].user # u /\ req[r].inst # u
  BY <1>2, EditAlone, NoneAssumption, Fields
<1>4. QED
  BY <1>2, <1>3, <1>1, InstEffect, Fields

(* The columns of the rows there are *)
LEMMA Rows ==
    ASSUME TypeOK
    PROVE  /\ \A u \in Slugs : users[u] # None =>
                 users[u].account \in 1 .. MaxGen /\ users[u].inst \in Slugs \cup {None}
           /\ \A t \in Tokens : sessions[t] # None =>
                 /\ sessions[t].user \in Slugs /\ sessions[t].account \in 1 .. MaxGen
                 /\ sessions[t].created \in Nat /\ sessions[t].expires \in Nat
           /\ \A i \in Slugs : job[i].owner \in Slugs \cup {None} /\ job[i].account \in 0 .. MaxGen
           /\ \A r \in Reqs : req[r].user \in Slugs \cup {None} /\ req[r].inst \in Slugs \cup {None}
           /\ now \in Nat /\ limit.now \in Nat
<1>1. \A u \in Slugs : users[u] # None =>
          users[u].account \in 1 .. MaxGen /\ users[u].inst \in Slugs \cup {None}
  BY Fields DEF TypeOK
<1>2. /\ \A i \in Slugs : job[i].owner \in Slugs \cup {None} /\ job[i].account \in 0 .. MaxGen
      /\ \A r \in Reqs : req[r].user \in Slugs \cup {None} /\ req[r].inst \in Slugs \cup {None}
  BY Fields DEF TypeOK
<1>3. limit.now \in Nat /\ now \in Nat
  BY CloudAssumption DEF TypeOK
<1>4. ASSUME NEW t \in Tokens, sessions[t] # None
      PROVE  /\ sessions[t].user \in Slugs /\ sessions[t].account \in 1 .. MaxGen
             /\ sessions[t].created \in Nat /\ sessions[t].expires \in Nat
  <2>1. sessions[t] \in Session
    BY <1>4 DEF TypeOK
  <2>2. /\ sessions[t].user \in Slugs /\ sessions[t].account \in 1 .. MaxGen
        /\ sessions[t].created \in 0 .. limit.now
        /\ sessions[t].expires \in 0 .. limit.now + 2 * TTL
    BY <2>1 DEF Session
  <2>3. QED
    BY <1>3, <2>2, CloudAssumption
<1>5. QED
  BY <1>1, <1>2, <1>3, <1>4

(* A binding refers to a row that is there and that no other user has. *)
LEMMA BindKeepsReferences ==
    ASSUME TypeOK, References, NEW u \in Slugs, NEW i \in Slugs,
           Bindable(u, i), SetInstanceID(u, i), UNCHANGED <<rows, sessions>>
    PROVE  References'
<1>0. /\ users[u] # None /\ rows[i] # None
      /\ users'[u] # None /\ users'[u].inst = i
      /\ \A v \in Slugs : v # u => /\ users'[v] = users[v]
                                   /\ users[v] # None => users[v].inst # i
  BY BindEffect, Fields
<1>1. ASSUME NEW v \in Slugs, users'[v] # None, users'[v].inst # None
      PROVE  /\ rows[users'[v].inst] # None
             /\ \A x \in Slugs \ {v} : users'[x] # None => users'[x].inst # users'[v].inst
  <2>1. CASE v = u
    BY <1>0, <2>1
  <2>2. CASE v # u
    BY <1>0, <1>1, <2>2 DEF References
  <2>3. QED
    BY <2>1, <2>2
<1>2. ASSUME NEW t \in Tokens, sessions[t] # None
      PROVE  users'[sessions[t].user] # None
  BY <1>0, <1>2, Rows DEF References
<1>3. QED
  BY <1>1, <1>2 DEF References

-----------------------------------------------------------------------------
(* The parts of the invariant, step by step *)

(* Types are kept by every step. *)
LEMMA TypeStep ==
    ASSUME TypeOK, ReqShape, [Next]_vars
    PROVE  TypeOK'
<1> limit' = limit => Session' = Session
  BY DEF Session
<1>1. ASSUME NEW i \in Slugs, HandleProvision(i)
      PROVE  TypeOK'
  BY <1>1, HandleProvisionEffect, CloudAssumption
  DEF TypeOK, tables, counts
<1>2. ASSUME NEW i \in Slugs, Refuse(i)
      PROVE  TypeOK'
  BY <1>2, SetJobEffect, IdleFields, CloudAssumption
  DEF Refuse, TypeOK, tables, counts
<1>3. ASSUME NEW i \in Slugs, Admit(i)
      PROVE  TypeOK'
  BY <1>3, NextStageEffect, AdmitEffect, CloudAssumption
  DEF TypeOK, tables, counts
<1>4. ASSUME NEW i \in Slugs, CreateJobUser(i)
      PROVE  TypeOK'
  BY <1>4, CreateEffect, CreateJobUserEffect, CloudAssumption
  DEF TypeOK, tables, counts
<1>5. ASSUME NEW i \in Slugs, UserRefused(i)
      PROVE  TypeOK'
  BY <1>5, SetJobEffect, IdleFields, CloudAssumption
  DEF UserRefused, OnUserExists, TypeOK, tables, counts
<1>6. ASSUME NEW i \in Slugs, Reserve(i)
      PROVE  TypeOK'
  BY <1>6, NextStageEffect, ReserveEffect, CloudAssumption
  DEF TypeOK, tables, counts
<1>7. ASSUME NEW i \in Slugs, Started(i)
      PROVE  TypeOK'
  BY <1>7, NextStageEffect, StartedEffect, CloudAssumption
  DEF TypeOK, tables, counts
<1>8. ASSUME NEW i \in Slugs, ReserveFails(i)
      PROVE  TypeOK'
  BY <1>8, NextStageEffect, CloudAssumption
  DEF ReserveFails, TypeOK, tables, counts
<1>9. ASSUME NEW i \in Slugs, StartFails(i)
      PROVE  TypeOK'
  BY <1>9, NextStageEffect, StartFailsEffect, DeleteRowEffect, CloudAssumption
  DEF TypeOK, tables, counts
<1>10. ASSUME NEW i \in Slugs, Bind(i)
      PROVE  TypeOK'
  BY <1>10, IdleFields, BindJobEffect, BindEffect, CloudAssumption
  DEF TypeOK, tables, counts
<1>11. ASSUME NEW i \in Slugs, BindSkipped(i)
      PROVE  TypeOK'
  BY <1>11, SetJobEffect, BindSkippedEffect, IdleFields, CloudAssumption
  DEF TypeOK, tables, counts
<1>12. ASSUME NEW i \in Slugs, JobFailed(i)
      PROVE  TypeOK'
  BY <1>12, SetJobEffect, IdleFields, JobFailedEffect, DeleteEffect, CloudAssumption
  DEF TypeOK, tables, counts
<1>13. ASSUME NEW u \in Slugs, HandleCreateUser(u)
      PROVE  TypeOK'
  BY <1>13, CreateEffect, HandleCreateUserEffect, CloudAssumption
  DEF TypeOK, tables, counts
<1>14. ASSUME NEW u \in Slugs, HandleUnbindUser(u)
      PROVE  TypeOK'
  BY <1>14, HandleUnbindUserEffect, CloudAssumption
  DEF TypeOK, tables, counts
<1>15. ASSUME NEW u \in Slugs, HandleDeleteUser(u)
      PROVE  TypeOK'
  BY <1>15, DeleteEffect, HandleDeleteUserEffect, CloudAssumption
  DEF TypeOK, tables, counts
<1>16. ASSUME NEW i \in Slugs, HandleDestroy(i)
      PROVE  TypeOK'
  BY <1>16, DeleteRowEffect, HandleDestroyEffect, CloudAssumption
  DEF TypeOK, tables, counts
<1>17. ASSUME NEW i \in Slugs, NEW o \in Slugs \cup {None}, HandleCreate(i, o)
      PROVE  TypeOK'
  BY <1>17, HandleCreateEffect, CloudAssumption
  DEF TypeOK, tables, counts
<1>18. ASSUME NEW u \in Slugs, NEW i \in Slugs, HandleUpdateUser(u, i)
      PROVE  TypeOK'
  BY <1>18, BindEffect, HandleUpdateUserEffect, CloudAssumption
  DEF TypeOK, tables, counts
<1>19. ASSUME NEW r \in Reqs, LoginFails(r)
      PROVE  TypeOK'
  BY <1>19, SetReqEffect, IdleFields, CloudAssumption
  DEF LoginFails, TypeOK, tables, counts
<1>20. ASSUME NEW r \in Reqs, LookupUser(r)
      PROVE  TypeOK'
  BY <1>20, LookupUserEffect, CloudAssumption
  DEF TypeOK, tables, counts
<1>21. ASSUME NEW r \in Reqs, LookupInstance(r)
      PROVE  TypeOK'
  BY <1>21, LookupInstanceEffect, CloudAssumption
  DEF TypeOK, tables, counts
<1>22. ASSUME NEW r \in Reqs, Proxied(r)
      PROVE  TypeOK'
  BY <1>22, SetReqEffect, IdleFields, CloudAssumption
  DEF Proxied, TypeOK, tables, counts
<1>23. ASSUME NEW r \in Reqs, NEW u \in Slugs, Authenticate(r, u)
      PROVE  TypeOK'
  BY <1>23, AuthenticateEffect, CloudAssumption
  DEF TypeOK, tables, counts
<1>24. ASSUME NEW r \in Reqs, NEW t \in Tokens, CreateSession(r, t)
      PROVE  TypeOK'
  BY <1>24, SetReqEffect, IdleFields, CreateSessionEffect, CloudAssumption
  DEF TypeOK, tables, counts
<1>25. ASSUME NEW r \in Reqs, NEW t \in Tokens, NEW s \in Slugs, Validate(r, t, s)
      PROVE  TypeOK'
  BY <1>25, ValidateEffect, CloudAssumption
  DEF TypeOK, tables, counts
<1>26. ASSUME NEW t \in Tokens, HandleCloudLogout(t)
      PROVE  TypeOK'
  BY <1>26, SessionEnds, CloudAssumption
  DEF HandleCloudLogout, TypeOK, tables, counts
<1>27. ASSUME NEW t \in Tokens, ValidateExpired(t)
      PROVE  TypeOK'
  BY <1>27, SessionEnds, CloudAssumption
  DEF ValidateExpired, TypeOK, tables, counts
<1>28. CASE PurgeExpired
  BY <1>28, SessionEnds, CloudAssumption
  DEF PurgeExpired, TypeOK, tables, counts
<1>29. CASE Tick
  BY <1>29, CloudAssumption
  DEF Tick, TypeOK, tables, counts
<1>30. CASE UNCHANGED <<vars>>
  BY <1>30 DEF vars, tables, counts, TypeOK
<1>31. QED
  BY <1>1, <1>2, <1>3, <1>4, <1>5, <1>6, <1>7, <1>8, <1>9, <1>10, <1>11, <1>12, <1>13, <1>14,
     <1>15, <1>16, <1>17, <1>18, <1>19, <1>20, <1>21, <1>22, <1>23, <1>24, <1>25, <1>26, <1>27,
     <1>28, <1>29, <1>30
  DEF Next, Job, Admin, Browser, tables, counts, vars

(* A job's stages are passed in order, and only the job inserts its row. *)
LEMMA JobShapeStep ==
    ASSUME TypeOK, JobShape, [Next]_vars
    PROVE  JobShape'
<1>1. ASSUME NEW i \in Slugs, HandleProvision(i)
      PROVE  JobShape'
  BY <1>1, HandleProvisionEffect
  DEF JobShape, TypeOK
<1>2. ASSUME NEW i \in Slugs, Refuse(i)
      PROVE  JobShape'
  BY <1>2, SetJobEffect, IdleFields
  DEF Refuse, JobShape, tables
<1>3. ASSUME NEW i \in Slugs, Admit(i)
      PROVE  JobShape'
  BY <1>3, NextStageEffect, AdmitEffect
  DEF JobShape, tables
<1>4. ASSUME NEW i \in Slugs, CreateJobUser(i)
      PROVE  JobShape'
  BY <1>4, CreateEffect, CreateJobUserEffect
  DEF JobShape, tables
<1>5. ASSUME NEW i \in Slugs, UserRefused(i)
      PROVE  JobShape'
  BY <1>5, SetJobEffect, IdleFields
  DEF UserRefused, OnUserExists, JobShape, tables
<1>6. ASSUME NEW i \in Slugs, Reserve(i)
      PROVE  JobShape'
  BY <1>6, NextStageEffect, ReserveEffect
  DEF JobShape, tables
<1>7. ASSUME NEW i \in Slugs, Started(i)
      PROVE  JobShape'
  BY <1>7, NextStageEffect, StartedEffect
  DEF JobShape, tables
<1>8. ASSUME NEW i \in Slugs, ReserveFails(i)
      PROVE  JobShape'
  BY <1>8, NextStageEffect
  DEF ReserveFails, JobShape, tables
<1>9. ASSUME NEW i \in Slugs, StartFails(i)
      PROVE  JobShape'
  <2>1. rows'[i] = None \/ slips'[i] \cap {"get", "row"} # {}
    BY <1>9, StartFailsEffect, DeleteRowEffect
  <2>2. \A j \in Slugs : j # i => rows'[j] = rows[j] /\ slips'[j] = slips[j]
    BY <1>9, StartFailsEffect, DeleteRowEffect
  <2>3. QED
    BY <1>9, <2>1, <2>2, StartFailsEffect, NextStageEffect DEF JobShape
<1>10. ASSUME NEW i \in Slugs, Bind(i)
      PROVE  JobShape'
  BY <1>10, IdleFields, BindJobEffect, BindEffect
  DEF JobShape, tables
<1>11. ASSUME NEW i \in Slugs, BindSkipped(i)
      PROVE  JobShape'
  BY <1>11, SetJobEffect, BindSkippedEffect, IdleFields
  DEF JobShape, tables
<1>12. ASSUME NEW i \in Slugs, JobFailed(i)
      PROVE  JobShape'
  BY <1>12, SetJobEffect, IdleFields, JobFailedEffect, DeleteEffect
  DEF JobShape, tables
<1>13. ASSUME NEW i \in Slugs, HandleDestroy(i)
      PROVE  JobShape'
  BY <1>13, DeleteRowEffect, HandleDestroyEffect
  DEF JobShape, tables
<1>14. ASSUME NEW i \in Slugs, NEW o \in Slugs \cup {None}, HandleCreate(i, o)
      PROVE  JobShape'
  BY <1>14, HandleCreateEffect
  DEF JobShape, TypeOK
<1>15. CASE UNCHANGED <<job, rows, slips>>
  BY <1>15 DEF JobShape
<1>16. QED
  BY <1>1, <1>2, <1>3, <1>4, <1>5, <1>6, <1>7, <1>8, <1>9, <1>10, <1>11, <1>12, <1>13, <1>14,
     <1>15
  DEF Next, Job, Admin, Browser, HandleCreateUser, HandleUnbindUser, HandleDeleteUser,
      HandleUpdateUser, LoginFails, LookupUser, LookupInstance, Proxied, Authenticate,
      CreateSession, Validate, HandleCloudLogout, ValidateExpired, PurgeExpired, Tick, tables,
      counts, vars

(* A request is filled in before it moves on. *)
LEMMA ReqShapeStep ==
    ASSUME TypeOK, ReqShape, [Next]_vars
    PROVE  ReqShape'
<1>1. ASSUME NEW r \in Reqs, LoginFails(r)
      PROVE  ReqShape'
  BY <1>1, SetReqEffect, IdleFields
  DEF LoginFails, ReqShape
<1>2. ASSUME NEW r \in Reqs, LookupUser(r)
      PROVE  ReqShape'
  BY <1>2, LookupUserEffect
  DEF ReqShape
<1>3. ASSUME NEW r \in Reqs, LookupInstance(r)
      PROVE  ReqShape'
  BY <1>3, LookupInstanceEffect
  DEF ReqShape
<1>4. ASSUME NEW r \in Reqs, Proxied(r)
      PROVE  ReqShape'
  BY <1>4, SetReqEffect, IdleFields
  DEF Proxied, ReqShape
<1>5. ASSUME NEW r \in Reqs, NEW u \in Slugs, Authenticate(r, u)
      PROVE  ReqShape'
  BY <1>5, AuthenticateEffect
  DEF ReqShape
<1>6. ASSUME NEW r \in Reqs, NEW t \in Tokens, CreateSession(r, t)
      PROVE  ReqShape'
  BY <1>6, SetReqEffect, IdleFields, CreateSessionEffect
  DEF ReqShape
<1>7. ASSUME NEW r \in Reqs, NEW t \in Tokens, NEW s \in Slugs, Validate(r, t, s)
      PROVE  ReqShape'
  BY <1>7, ValidateEffect
  DEF ReqShape
<1>8. CASE UNCHANGED <<req>>
  BY <1>8 DEF ReqShape
<1>9. QED
  BY <1>1, <1>2, <1>3, <1>4, <1>5, <1>6, <1>7, <1>8
  DEF Next, Job, Admin, Browser, HandleProvision, Refuse, Admit, CreateJobUser, UserRefused,
      Reserve, Started, ReserveFails, StartFails, Bind, BindSkipped, JobFailed, HandleCreateUser,
      HandleUnbindUser, HandleDeleteUser, HandleDestroy, HandleCreate, HandleUpdateUser,
      HandleCloudLogout, ValidateExpired, PurgeExpired, Tick, tables, counts, vars

(* No step leaves a dangling reference. *)
LEMMA ReferencesStep ==
    ASSUME TypeOK, ReqShape, References, [Next]_vars
    PROVE  References'
<1> USE Rows
<1>1. ASSUME NEW i \in Slugs, CreateJobUser(i)
      PROVE  References'
  BY <1>1, CreateEffect, CreateJobUserEffect, Fields
  DEF References
<1>2. ASSUME NEW i \in Slugs, Reserve(i)
      PROVE  References'
  BY <1>2, NextStageEffect, ReserveEffect, Fields
  DEF References
<1>3. ASSUME NEW i \in Slugs, Started(i)
      PROVE  References'
  BY <1>3, NextStageEffect, StartedEffect, Fields
  DEF References
<1>4. ASSUME NEW i \in Slugs, StartFails(i)
      PROVE  References'
  BY <1>4, NextStageEffect, StartFailsEffect, DeleteRowEffect, Fields
  DEF References
<1>5. ASSUME NEW i \in Slugs, Bind(i)
      PROVE  References'
  BY <1>5, BindJobEffect, BindKeepsReferences 
<1>6. ASSUME NEW i \in Slugs, JobFailed(i)
      PROVE  References'
  BY <1>6, SetJobEffect, IdleFields, JobFailedEffect, DeleteEffect, Fields
  DEF References
<1>7. ASSUME NEW u \in Slugs, HandleCreateUser(u)
      PROVE  References'
  BY <1>7, CreateEffect, HandleCreateUserEffect, Fields
  DEF References
<1>8. ASSUME NEW u \in Slugs, HandleUnbindUser(u)
      PROVE  References'
  BY <1>8, HandleUnbindUserEffect, Fields
  DEF References
<1>9. ASSUME NEW u \in Slugs, HandleDeleteUser(u)
      PROVE  References'
  BY <1>9, DeleteEffect, HandleDeleteUserEffect, Fields
  DEF References
<1>10. ASSUME NEW i \in Slugs, HandleDestroy(i)
      PROVE  References'
  BY <1>10, DeleteRowEffect, HandleDestroyEffect, Fields
  DEF References
<1>11. ASSUME NEW u \in Slugs, NEW i \in Slugs, HandleUpdateUser(u, i)
      PROVE  References'
  BY <1>11, HandleUpdateUserEffect, BindKeepsReferences
<1>12. ASSUME NEW r \in Reqs, NEW t \in Tokens, CreateSession(r, t)
      PROVE  References'
  BY <1>12, SetReqEffect, IdleFields, CreateSessionEffect, Fields
  DEF References
<1>13. ASSUME NEW t \in Tokens, HandleCloudLogout(t)
      PROVE  References'
  BY <1>13, SessionEnds, Fields
  DEF HandleCloudLogout, References
<1>14. ASSUME NEW t \in Tokens, ValidateExpired(t)
      PROVE  References'
  BY <1>14, SessionEnds, Fields
  DEF ValidateExpired, References
<1>15. CASE PurgeExpired
  BY <1>15, SessionEnds, Fields
  DEF PurgeExpired, References
<1>16. CASE UNCHANGED <<users, rows, sessions>>
  BY <1>16 DEF References
<1>17. QED
  BY <1>1, <1>2, <1>3, <1>4, <1>5, <1>6, <1>7, <1>8, <1>9, <1>10, <1>11, <1>12, <1>13, <1>14,
     <1>15, <1>16
  DEF Next, Job, Admin, Browser, HandleProvision, Refuse, Admit, UserRefused, ReserveFails,
      BindSkipped, HandleCreate, LoginFails, LookupUser, LookupInstance, Proxied, Authenticate,
      Validate, Tick, tables, counts, vars

(* No binding is made, and those there are keep their account and container. *)
BindingsStay ==
    /\ \A u \in Slugs : users'[u] # None /\ users'[u].inst # None =>
          /\ users[u] # None /\ users[u].inst = users'[u].inst
          /\ users[u].account = users'[u].account
          /\ rows[users[u].inst].container = rows'[users[u].inst].container
    /\ everBound' = everBound

(* A step that makes no binding needs no record. *)
LEMMA BindingsKept ==
    ASSUME BoundEver, BindingsStay
    PROVE  BoundEver'
BY DEF BoundEver, BindingsStay

(* A new binding is recorded. *)
LEMMA BindKeepsBoundEver ==
    ASSUME TypeOK, References, BoundEver, NEW u \in Slugs, NEW i \in Slugs,
           Bindable(u, i), SetInstanceID(u, i), UNCHANGED rows
    PROVE  BoundEver'
<1>1. /\ users'[u].account = users[u].account /\ users'[u].inst = i
      /\ \A v \in Slugs : v # u => users'[v] = users[v]
      /\ everBound' = everBound \cup {<<users[u].account, rows[i].container>>}
  BY BindEffect
<1>2. ASSUME NEW v \in Slugs, users'[v] # None, users'[v].inst # None
      PROVE  <<users'[v].account, rows[users'[v].inst].container>> \in everBound'
  <2>1. CASE v = u
    BY <1>1, <2>1
  <2>2. CASE v # u
    BY <1>1, <1>2, <2>2 DEF BoundEver
  <2>3. QED
    BY <2>1, <2>2
<1>3. QED
  BY <1>2 DEF BoundEver

(* Every binding stays recorded. *)
LEMMA BoundEverStep ==
    ASSUME TypeOK, References, BoundEver, [Next]_vars
    PROVE  BoundEver'
<1>1. ASSUME NEW i \in Slugs, CreateJobUser(i)
      PROVE  BoundEver'
  <2>1. BindingsStay
    BY <1>1, CreateEffect, CreateJobUserEffect, Fields, Rows
    DEF BindingsStay, References, tables
  <2>2. QED
    BY <2>1, BindingsKept
<1>2. ASSUME NEW i \in Slugs, Reserve(i)
      PROVE  BoundEver'
  <2>1. BindingsStay
    BY <1>2, NextStageEffect, ReserveEffect, Fields, Rows
    DEF BindingsStay, References, tables
  <2>2. QED
    BY <2>1, BindingsKept
<1>3. ASSUME NEW i \in Slugs, Started(i)
      PROVE  BoundEver'
  <2>1. BindingsStay
    BY <1>3, NextStageEffect, StartedEffect, Fields, Rows
    DEF BindingsStay, References, tables
  <2>2. QED
    BY <2>1, BindingsKept
<1>4. ASSUME NEW i \in Slugs, StartFails(i)
      PROVE  BoundEver'
  <2>1. BindingsStay
    BY <1>4, NextStageEffect, StartFailsEffect, DeleteRowEffect, Fields, Rows
    DEF BindingsStay, References, tables
  <2>2. QED
    BY <2>1, BindingsKept
<1>5. ASSUME NEW i \in Slugs, Bind(i)
      PROVE  BoundEver'
  BY <1>5, BindJobEffect, BindKeepsBoundEver
<1>6. ASSUME NEW i \in Slugs, JobFailed(i)
      PROVE  BoundEver'
  <2>1. BindingsStay
    BY <1>6, SetJobEffect, IdleFields, JobFailedEffect, DeleteEffect, Fields, Rows
    DEF BindingsStay, References, tables
  <2>2. QED
    BY <2>1, BindingsKept
<1>7. ASSUME NEW u \in Slugs, HandleCreateUser(u)
      PROVE  BoundEver'
  <2>1. BindingsStay
    BY <1>7, CreateEffect, HandleCreateUserEffect, Fields, Rows
    DEF BindingsStay, References, tables
  <2>2. QED
    BY <2>1, BindingsKept
<1>8. ASSUME NEW u \in Slugs, HandleUnbindUser(u)
      PROVE  BoundEver'
  <2>1. BindingsStay
    BY <1>8, HandleUnbindUserEffect, Fields, Rows
    DEF BindingsStay, References, tables
  <2>2. QED
    BY <2>1, BindingsKept
<1>9. ASSUME NEW u \in Slugs, HandleDeleteUser(u)
      PROVE  BoundEver'
  <2>1. BindingsStay
    BY <1>9, DeleteEffect, HandleDeleteUserEffect, Fields, Rows
    DEF BindingsStay, References, tables
  <2>2. QED
    BY <2>1, BindingsKept
<1>10. ASSUME NEW i \in Slugs, HandleDestroy(i)
      PROVE  BoundEver'
  <2>1. BindingsStay
    BY <1>10, DeleteRowEffect, HandleDestroyEffect, Fields, Rows
    DEF BindingsStay, References, tables
  <2>2. QED
    BY <2>1, BindingsKept
<1>11. ASSUME NEW u \in Slugs, NEW i \in Slugs, HandleUpdateUser(u, i)
      PROVE  BoundEver'
  BY <1>11, HandleUpdateUserEffect, BindKeepsBoundEver
<1>12. CASE UNCHANGED <<users, rows, everBound>>
  BY <1>12 DEF BoundEver
<1>13. QED
  BY <1>1, <1>2, <1>3, <1>4, <1>5, <1>6, <1>7, <1>8, <1>9, <1>10, <1>11, <1>12
  DEF Next, Job, Admin, Browser, HandleProvision, Refuse, Admit, UserRefused, ReserveFails,
      BindSkipped, HandleCreate, LoginFails, LookupUser, LookupInstance, Proxied, Authenticate,
      CreateSession, Validate, HandleCloudLogout, ValidateExpired, PurgeExpired, Tick, tables,
      counts, vars

(* No step lengthens a session. *)
LEMMA ExpiryBoundStep ==
    ASSUME TypeOK, ReqShape, ExpiryBound, [Next]_vars
    PROVE  ExpiryBound'
<1>1. ASSUME NEW i \in Slugs, JobFailed(i)
      PROVE  ExpiryBound'
  BY <1>1, SetJobEffect, IdleFields, JobFailedEffect, DeleteEffect, Rows
  DEF ExpiryBound, tables
<1>2. ASSUME NEW u \in Slugs, HandleDeleteUser(u)
      PROVE  ExpiryBound'
  BY <1>2, DeleteEffect, HandleDeleteUserEffect, Rows
  DEF ExpiryBound, tables
<1>3. ASSUME NEW r \in Reqs, NEW t \in Tokens, CreateSession(r, t)
      PROVE  ExpiryBound'
  BY <1>3, SetReqEffect, IdleFields, CreateSessionEffect, Rows
  DEF ExpiryBound, tables
<1>4. ASSUME NEW t \in Tokens, HandleCloudLogout(t)
      PROVE  ExpiryBound'
  BY <1>4, SessionEnds, Rows
  DEF HandleCloudLogout, ExpiryBound, tables
<1>5. ASSUME NEW t \in Tokens, ValidateExpired(t)
      PROVE  ExpiryBound'
  BY <1>5, SessionEnds, Rows
  DEF ValidateExpired, ExpiryBound, tables
<1>6. CASE PurgeExpired
  BY <1>6, SessionEnds, Rows
  DEF PurgeExpired, ExpiryBound, tables
<1>7. CASE UNCHANGED <<sessions>>
  BY <1>7 DEF ExpiryBound
<1>8. QED
  BY <1>1, <1>2, <1>3, <1>4, <1>5, <1>6, <1>7
  DEF Next, Job, Admin, Browser, HandleProvision, Refuse, Admit, CreateJobUser, UserRefused,
      Reserve, Started, ReserveFails, StartFails, Bind, BindSkipped, HandleCreateUser,
      HandleUnbindUser, HandleDestroy, HandleCreate, HandleUpdateUser, LoginFails, LookupUser,
      LookupInstance, Proxied, Authenticate, Validate, Tick, tables, counts, vars

(* A clash is never forgotten. *)
LEMMA ClashGrows ==
    ASSUME TypeOK, [Next]_vars
    PROVE  clash' \in BOOLEAN /\ (~clash' => ~clash)
<1>1. ASSUME NEW i \in Slugs, HandleProvision(i)
      PROVE  clash' \in BOOLEAN /\ (~clash' => ~clash)
  BY <1>1, HandleProvisionEffect
<1>2. ASSUME NEW i \in Slugs, NEW o \in Slugs \cup {None}, HandleCreate(i, o)
      PROVE  clash' \in BOOLEAN /\ (~clash' => ~clash)
  BY <1>2, HandleCreateEffect
<1>3. ASSUME NEW r \in Reqs, NEW u \in Slugs, Authenticate(r, u)
      PROVE  clash' \in BOOLEAN /\ (~clash' => ~clash)
  BY <1>3, AuthenticateEffect
<1>4. ASSUME NEW r \in Reqs, NEW t \in Tokens, NEW s \in Slugs, Validate(r, t, s)
      PROVE  clash' \in BOOLEAN /\ (~clash' => ~clash)
  BY <1>4, ValidateEffect
<1>5. ASSUME NEW u \in Slugs, HandleCreateUser(u)
      PROVE  clash' \in BOOLEAN /\ (~clash' => ~clash)
  BY <1>5, HandleCreateUserEffect
<1>6. ASSUME NEW u \in Slugs, HandleUnbindUser(u)
      PROVE  clash' \in BOOLEAN /\ (~clash' => ~clash)
  BY <1>6, HandleUnbindUserEffect
<1>7. ASSUME NEW u \in Slugs, HandleDeleteUser(u)
      PROVE  clash' \in BOOLEAN /\ (~clash' => ~clash)
  BY <1>7, HandleDeleteUserEffect
<1>8. ASSUME NEW i \in Slugs, HandleDestroy(i)
      PROVE  clash' \in BOOLEAN /\ (~clash' => ~clash)
  BY <1>8, HandleDestroyEffect
<1>9. ASSUME NEW u \in Slugs, NEW i \in Slugs, HandleUpdateUser(u, i)
      PROVE  clash' \in BOOLEAN /\ (~clash' => ~clash)
  BY <1>9, HandleUpdateUserEffect
<1>10. CASE UNCHANGED <<clash>>
  BY <1>10 DEF TypeOK
<1>11. QED
  BY <1>1, <1>2, <1>3, <1>4, <1>5, <1>6, <1>7, <1>8, <1>9, <1>10
  DEF Next, Job, Admin, Browser, Refuse, Admit, CreateJobUser, UserRefused, Reserve, Started,
      ReserveFails, StartFails, Bind, BindSkipped, JobFailed, LoginFails, LookupUser,
      LookupInstance, Proxied, CreateSession, HandleCloudLogout, ValidateExpired, PurgeExpired,
      Tick, tables, counts, vars

(* A job or a request that begins finds nobody of the other kind there. *)
LEMMA RequestsApartStep ==
    ASSUME TypeOK, ReqShape, JobShape, RequestsApart, [Next]_vars
    PROVE  RequestsApart'
<1>0. clash' \in BOOLEAN /\ (~clash' => ~clash)
  BY ClashGrows
<1> USE NoneAssumption
<1>1. ASSUME NEW i \in Slugs, HandleProvision(i)
      PROVE  RequestsApart'
  BY <1>1, HandleProvisionEffect, <1>0
  DEF RequestsApart, ReqShape
<1>2. ASSUME NEW i \in Slugs, Refuse(i)
      PROVE  RequestsApart'
  BY <1>2, SetJobEffect, IdleFields, <1>0
  DEF Refuse, RequestsApart, ReqShape
<1>3. ASSUME NEW i \in Slugs, Admit(i)
      PROVE  RequestsApart'
  BY <1>3, NextStageEffect, AdmitEffect, <1>0
  DEF RequestsApart, ReqShape
<1>4. ASSUME NEW i \in Slugs, CreateJobUser(i)
      PROVE  RequestsApart'
  BY <1>4, CreateEffect, CreateJobUserEffect, <1>0
  DEF RequestsApart, ReqShape
<1>5. ASSUME NEW i \in Slugs, UserRefused(i)
      PROVE  RequestsApart'
  BY <1>5, SetJobEffect, IdleFields, <1>0
  DEF UserRefused, OnUserExists, RequestsApart, ReqShape
<1>6. ASSUME NEW i \in Slugs, Reserve(i)
      PROVE  RequestsApart'
  BY <1>6, NextStageEffect, ReserveEffect, <1>0
  DEF RequestsApart, ReqShape
<1>7. ASSUME NEW i \in Slugs, Started(i)
      PROVE  RequestsApart'
  BY <1>7, NextStageEffect, StartedEffect, <1>0
  DEF RequestsApart, ReqShape
<1>8. ASSUME NEW i \in Slugs, ReserveFails(i)
      PROVE  RequestsApart'
  BY <1>8, NextStageEffect, <1>0
  DEF ReserveFails, RequestsApart, ReqShape
<1>9. ASSUME NEW i \in Slugs, StartFails(i)
      PROVE  RequestsApart'
  BY <1>9, NextStageEffect, StartFailsEffect, DeleteRowEffect, <1>0
  DEF RequestsApart, ReqShape
<1>10. ASSUME NEW i \in Slugs, Bind(i)
      PROVE  RequestsApart'
  BY <1>10, IdleFields, BindJobEffect, BindEffect, <1>0
  DEF RequestsApart, ReqShape
<1>11. ASSUME NEW i \in Slugs, BindSkipped(i)
      PROVE  RequestsApart'
  BY <1>11, SetJobEffect, BindSkippedEffect, IdleFields, <1>0
  DEF RequestsApart, ReqShape
<1>12. ASSUME NEW i \in Slugs, JobFailed(i)
      PROVE  RequestsApart'
  BY <1>12, SetJobEffect, IdleFields, JobFailedEffect, DeleteEffect, <1>0
  DEF RequestsApart, ReqShape
<1>13. ASSUME NEW i \in Slugs, NEW o \in Slugs \cup {None}, HandleCreate(i, o)
      PROVE  RequestsApart'
  BY <1>13, HandleCreateEffect, <1>0
  DEF RequestsApart, ReqShape
<1>14. ASSUME NEW r \in Reqs, LoginFails(r)
      PROVE  RequestsApart'
  BY <1>14, SetReqEffect, IdleFields, <1>0
  DEF LoginFails, RequestsApart, ReqShape
<1>15. ASSUME NEW r \in Reqs, LookupUser(r)
      PROVE  RequestsApart'
  BY <1>15, LookupUserEffect, <1>0
  DEF RequestsApart, ReqShape
<1>16. ASSUME NEW r \in Reqs, LookupInstance(r)
      PROVE  RequestsApart'
  BY <1>16, LookupInstanceEffect, <1>0
  DEF RequestsApart, ReqShape
<1>17. ASSUME NEW r \in Reqs, Proxied(r)
      PROVE  RequestsApart'
  BY <1>17, SetReqEffect, IdleFields, <1>0
  DEF Proxied, RequestsApart, ReqShape
<1>18. ASSUME NEW r \in Reqs, NEW u \in Slugs, Authenticate(r, u)
      PROVE  RequestsApart'
  BY <1>18, AuthenticateEffect, <1>0
  DEF RequestsApart, ReqShape
<1>19. ASSUME NEW r \in Reqs, NEW t \in Tokens, CreateSession(r, t)
      PROVE  RequestsApart'
  BY <1>19, SetReqEffect, IdleFields, CreateSessionEffect, <1>0
  DEF RequestsApart, ReqShape
<1>20. ASSUME NEW r \in Reqs, NEW t \in Tokens, NEW s \in Slugs, Validate(r, t, s)
      PROVE  RequestsApart'
  BY <1>20, ValidateEffect, <1>0
  DEF RequestsApart, ReqShape
<1>21. CASE UNCHANGED <<job, req>>
  BY <1>21, <1>0 DEF RequestsApart, ReqShape
<1>22. QED
  BY <1>1, <1>2, <1>3, <1>4, <1>5, <1>6, <1>7, <1>8, <1>9, <1>10, <1>11, <1>12, <1>13, <1>14,
     <1>15, <1>16, <1>17, <1>18, <1>19, <1>20, <1>21
  DEF Next, Job, Admin, Browser, HandleCreateUser, HandleUnbindUser, HandleDeleteUser,
      HandleDestroy, HandleUpdateUser, HandleCloudLogout, ValidateExpired, PurgeExpired, Tick,
      tables, counts, vars

(* Nobody else removes or binds the row of a job. *)
LEMMA RowIsOursStep ==
    ASSUME TypeOK, References, JobShape, RowIsOurs, [Next]_vars
    PROVE  RowIsOurs'
<1>0. clash' \in BOOLEAN /\ (~clash' => ~clash)
  BY ClashGrows
<1> USE NoneAssumption, Rows
<1>1. ASSUME NEW i \in Slugs, HandleProvision(i)
      PROVE  RowIsOurs'
  BY <1>1, HandleProvisionEffect, <1>0
  DEF RowIsOurs, tables
<1>2. ASSUME NEW i \in Slugs, Refuse(i)
      PROVE  RowIsOurs'
  BY <1>2, SetJobEffect, IdleFields, <1>0
  DEF Refuse, RowIsOurs, tables
<1>3. ASSUME NEW i \in Slugs, Admit(i)
      PROVE  RowIsOurs'
  BY <1>3, NextStageEffect, AdmitEffect, <1>0
  DEF RowIsOurs, tables
<1>4. ASSUME NEW i \in Slugs, CreateJobUser(i)
      PROVE  RowIsOurs'
  BY <1>4, CreateEffect, CreateJobUserEffect, <1>0
  DEF RowIsOurs, tables
<1>5. ASSUME NEW i \in Slugs, UserRefused(i)
      PROVE  RowIsOurs'
  BY <1>5, SetJobEffect, IdleFields, <1>0
  DEF UserRefused, OnUserExists, RowIsOurs, tables
<1>6. ASSUME NEW i \in Slugs, Reserve(i)
      PROVE  RowIsOurs'
  BY <1>6, NextStageEffect, ReserveEffect, <1>0
  DEF RowIsOurs, tables, References
<1>7. ASSUME NEW i \in Slugs, Started(i)
      PROVE  RowIsOurs'
  BY <1>7, NextStageEffect, StartedEffect, <1>0
  DEF RowIsOurs, tables
<1>8. ASSUME NEW i \in Slugs, ReserveFails(i)
      PROVE  RowIsOurs'
  BY <1>8, NextStageEffect, <1>0
  DEF ReserveFails, RowIsOurs, tables
<1>9. ASSUME NEW i \in Slugs, StartFails(i)
      PROVE  RowIsOurs'
  BY <1>9, NextStageEffect, StartFailsEffect, DeleteRowEffect, <1>0
  DEF RowIsOurs, tables
<1>10. ASSUME NEW i \in Slugs, Bind(i)
      PROVE  RowIsOurs'
  BY <1>10, IdleFields, BindJobEffect, BindEffect, <1>0
  DEF RowIsOurs, tables
<1>11. ASSUME NEW i \in Slugs, BindSkipped(i)
      PROVE  RowIsOurs'
  BY <1>11, SetJobEffect, BindSkippedEffect, IdleFields, <1>0
  DEF RowIsOurs, tables
<1>12. ASSUME NEW i \in Slugs, JobFailed(i)
      PROVE  RowIsOurs'
  BY <1>12, SetJobEffect, IdleFields, JobFailedEffect, DeleteEffect, <1>0
  DEF RowIsOurs, tables
<1>13. ASSUME NEW u \in Slugs, HandleCreateUser(u)
      PROVE  RowIsOurs'
  BY <1>13, CreateEffect, HandleCreateUserEffect, <1>0
  DEF RowIsOurs, tables
<1>14. ASSUME NEW u \in Slugs, HandleUnbindUser(u)
      PROVE  RowIsOurs'
  BY <1>14, HandleUnbindUserEffect, <1>0
  DEF RowIsOurs, tables
<1>15. ASSUME NEW u \in Slugs, HandleDeleteUser(u)
      PROVE  RowIsOurs'
  BY <1>15, DeleteEffect, HandleDeleteUserEffect, <1>0
  DEF RowIsOurs, tables
<1>16. ASSUME NEW i \in Slugs, HandleDestroy(i)
      PROVE  RowIsOurs'
  BY <1>16, DeleteRowEffect, HandleDestroyEffect, <1>0
  DEF RowIsOurs, tables
<1>17. ASSUME NEW i \in Slugs, NEW o \in Slugs \cup {None}, HandleCreate(i, o)
      PROVE  RowIsOurs'
  BY <1>17, HandleCreateEffect, <1>0
  DEF RowIsOurs, tables
<1>18. ASSUME NEW u \in Slugs, NEW i \in Slugs, HandleUpdateUser(u, i)
      PROVE  RowIsOurs'
  BY <1>18, BindEffect, HandleUpdateUserEffect, <1>0
  DEF RowIsOurs, tables
<1>19. CASE UNCHANGED <<users, rows, job>>
  BY <1>19, <1>0 DEF RowIsOurs
<1>20. QED
  BY <1>1, <1>2, <1>3, <1>4, <1>5, <1>6, <1>7, <1>8, <1>9, <1>10, <1>11, <1>12, <1>13, <1>14,
     <1>15, <1>16, <1>17, <1>18, <1>19
  DEF Next, Job, Admin, Browser, LoginFails, LookupUser, LookupInstance, Proxied, Authenticate,
      CreateSession, Validate, HandleCloudLogout, ValidateExpired, PurgeExpired, Tick, tables,
      counts, vars

(* Nobody else deletes the user of a job. *)
LEMMA UserIsOursStep ==
    ASSUME TypeOK, JobShape, UserIsOurs, [Next]_vars
    PROVE  UserIsOurs'
<1>0. clash' \in BOOLEAN /\ (~clash' => ~clash)
  BY ClashGrows
<1> USE NoneAssumption
<1>1. ASSUME NEW i \in Slugs, HandleProvision(i)
      PROVE  UserIsOurs'
  BY <1>1, HandleProvisionEffect, <1>0, Fields
  DEF UserIsOurs, JobShape, tables
<1>2. ASSUME NEW i \in Slugs, Refuse(i)
      PROVE  UserIsOurs'
  BY <1>2, SetJobEffect, IdleFields, <1>0, Fields
  DEF Refuse, UserIsOurs, JobShape, tables
<1>3. ASSUME NEW i \in Slugs, Admit(i)
      PROVE  UserIsOurs'
  BY <1>3, NextStageEffect, AdmitEffect, <1>0, Fields
  DEF UserIsOurs, JobShape, tables
<1>4. ASSUME NEW i \in Slugs, CreateJobUser(i)
      PROVE  UserIsOurs'
  BY <1>4, CreateEffect, CreateJobUserEffect, <1>0, Fields
  DEF UserIsOurs, JobShape, tables
<1>5. ASSUME NEW i \in Slugs, UserRefused(i)
      PROVE  UserIsOurs'
  BY <1>5, SetJobEffect, IdleFields, <1>0, Fields
  DEF UserRefused, OnUserExists, UserIsOurs, JobShape, tables
<1>6. ASSUME NEW i \in Slugs, Reserve(i)
      PROVE  UserIsOurs'
  BY <1>6, NextStageEffect, ReserveEffect, <1>0, Fields
  DEF UserIsOurs, JobShape, tables
<1>7. ASSUME NEW i \in Slugs, Started(i)
      PROVE  UserIsOurs'
  BY <1>7, NextStageEffect, StartedEffect, <1>0, Fields
  DEF UserIsOurs, JobShape, tables
<1>8. ASSUME NEW i \in Slugs, ReserveFails(i)
      PROVE  UserIsOurs'
  BY <1>8, NextStageEffect, <1>0, Fields
  DEF ReserveFails, UserIsOurs, JobShape, tables
<1>9. ASSUME NEW i \in Slugs, StartFails(i)
      PROVE  UserIsOurs'
  BY <1>9, NextStageEffect, StartFailsEffect, DeleteRowEffect, <1>0, Fields
  DEF UserIsOurs, JobShape, tables
<1>10. ASSUME NEW i \in Slugs, Bind(i)
      PROVE  UserIsOurs'
  BY <1>10, IdleFields, BindJobEffect, BindEffect, <1>0, Fields
  DEF UserIsOurs, JobShape, tables
<1>11. ASSUME NEW i \in Slugs, BindSkipped(i)
      PROVE  UserIsOurs'
  BY <1>11, SetJobEffect, BindSkippedEffect, IdleFields, <1>0, Fields
  DEF UserIsOurs, JobShape, tables
<1>12. ASSUME NEW i \in Slugs, JobFailed(i)
      PROVE  UserIsOurs'
  BY <1>12, SetJobEffect, IdleFields, JobFailedEffect, DeleteEffect, <1>0, Fields
  DEF UserIsOurs, JobShape, tables
<1>13. ASSUME NEW u \in Slugs, HandleCreateUser(u)
      PROVE  UserIsOurs'
  BY <1>13, CreateEffect, HandleCreateUserEffect, <1>0, Fields
  DEF UserIsOurs, JobShape, tables
<1>14. ASSUME NEW u \in Slugs, HandleUnbindUser(u)
      PROVE  UserIsOurs'
  BY <1>14, HandleUnbindUserEffect, <1>0, Fields
  DEF UserIsOurs, JobShape, tables
<1>15. ASSUME NEW u \in Slugs, HandleDeleteUser(u)
      PROVE  UserIsOurs'
  BY <1>15, DeleteEffect, HandleDeleteUserEffect, <1>0, Fields
  DEF UserIsOurs, JobShape, tables
<1>16. ASSUME NEW i \in Slugs, HandleDestroy(i)
      PROVE  UserIsOurs'
  BY <1>16, DeleteRowEffect, HandleDestroyEffect, <1>0, Fields
  DEF UserIsOurs, JobShape, tables
<1>17. ASSUME NEW i \in Slugs, NEW o \in Slugs \cup {None}, HandleCreate(i, o)
      PROVE  UserIsOurs'
  BY <1>17, HandleCreateEffect, <1>0, Fields
  DEF UserIsOurs, JobShape, tables
<1>18. ASSUME NEW u \in Slugs, NEW i \in Slugs, HandleUpdateUser(u, i)
      PROVE  UserIsOurs'
  BY <1>18, BindEffect, HandleUpdateUserEffect, <1>0, Fields
  DEF UserIsOurs, JobShape, tables
<1>19. CASE UNCHANGED <<users, job>>
  BY <1>19, <1>0 DEF UserIsOurs, JobShape
<1>20. QED
  BY <1>1, <1>2, <1>3, <1>4, <1>5, <1>6, <1>7, <1>8, <1>9, <1>10, <1>11, <1>12, <1>13, <1>14,
     <1>15, <1>16, <1>17, <1>18, <1>19
  DEF Next, Job, Admin, Browser, LoginFails, LookupUser, LookupInstance, Proxied, Authenticate,
      CreateSession, Validate, HandleCloudLogout, ValidateExpired, PurgeExpired, Tick, tables,
      counts, vars

(* A session goes with its user, and begins with the account of the login. *)
LEMMA SessionAccountStep ==
    ASSUME TypeOK, ReqShape, References, RequestAccount, SessionAccount, [Next]_vars
    PROVE  SessionAccount'
<1>0. clash' \in BOOLEAN /\ (~clash' => ~clash)
  BY ClashGrows
<1> USE Rows
<1>1. ASSUME NEW i \in Slugs, CreateJobUser(i)
      PROVE  SessionAccount'
  BY <1>1, CreateEffect, CreateJobUserEffect, <1>0, Fields
  DEF SessionAccount, tables
<1>2. ASSUME NEW i \in Slugs, StartFails(i)
      PROVE  SessionAccount'
  BY <1>2, NextStageEffect, StartFailsEffect, DeleteRowEffect, <1>0, Fields
  DEF SessionAccount, tables
<1>3. ASSUME NEW i \in Slugs, Bind(i)
      PROVE  SessionAccount'
  BY <1>3, IdleFields, BindJobEffect, BindEffect, <1>0, Fields
  DEF SessionAccount, tables
<1>4. ASSUME NEW i \in Slugs, JobFailed(i)
      PROVE  SessionAccount'
  BY <1>4, SetJobEffect, IdleFields, JobFailedEffect, DeleteEffect, <1>0, Fields
  DEF SessionAccount, tables
<1>5. ASSUME NEW u \in Slugs, HandleCreateUser(u)
      PROVE  SessionAccount'
  BY <1>5, CreateEffect, HandleCreateUserEffect, <1>0, Fields
  DEF SessionAccount, tables
<1>6. ASSUME NEW u \in Slugs, HandleUnbindUser(u)
      PROVE  SessionAccount'
  BY <1>6, HandleUnbindUserEffect, <1>0, Fields
  DEF SessionAccount, tables
<1>7. ASSUME NEW u \in Slugs, HandleDeleteUser(u)
      PROVE  SessionAccount'
  BY <1>7, DeleteEffect, HandleDeleteUserEffect, <1>0, Fields
  DEF SessionAccount, tables
<1>8. ASSUME NEW i \in Slugs, HandleDestroy(i)
      PROVE  SessionAccount'
  BY <1>8, DeleteRowEffect, HandleDestroyEffect, <1>0, Fields
  DEF SessionAccount, tables
<1>9. ASSUME NEW u \in Slugs, NEW i \in Slugs, HandleUpdateUser(u, i)
      PROVE  SessionAccount'
  BY <1>9, BindEffect, HandleUpdateUserEffect, <1>0, Fields
  DEF SessionAccount, tables
<1>10. ASSUME NEW r \in Reqs, NEW t \in Tokens, CreateSession(r, t)
      PROVE  SessionAccount'
  BY <1>10, SetReqEffect, IdleFields, CreateSessionEffect, <1>0, Fields
  DEF SessionAccount, tables, RequestAccount
<1>11. ASSUME NEW t \in Tokens, HandleCloudLogout(t)
      PROVE  SessionAccount'
  BY <1>11, SessionEnds, <1>0, Fields
  DEF HandleCloudLogout, SessionAccount, tables
<1>12. ASSUME NEW t \in Tokens, ValidateExpired(t)
      PROVE  SessionAccount'
  BY <1>12, SessionEnds, <1>0, Fields
  DEF ValidateExpired, SessionAccount, tables
<1>13. CASE PurgeExpired
  BY <1>13, SessionEnds, <1>0, Fields
  DEF PurgeExpired, SessionAccount, tables
<1>14. CASE UNCHANGED <<users, sessions>>
  BY <1>14, <1>0 DEF SessionAccount
<1>15. QED
  BY <1>1, <1>2, <1>3, <1>4, <1>5, <1>6, <1>7, <1>8, <1>9, <1>10, <1>11, <1>12, <1>13, <1>14
  DEF Next, Job, Admin, Browser, HandleProvision, Refuse, Admit, UserRefused, Reserve, Started,
      ReserveFails, BindSkipped, HandleCreate, LoginFails, LookupUser, LookupInstance, Proxied,
      Authenticate, Validate, Tick, tables, counts, vars

(* Nobody replaces or rebinds the user of a request. *)
LEMMA RequestAccountStep ==
    ASSUME TypeOK, ReqShape, JobShape, RequestsApart, RowIsOurs, SessionAccount, RequestAccount, [Next]_vars
    PROVE  RequestAccount'
<1>0. clash' \in BOOLEAN /\ (~clash' => ~clash)
  BY ClashGrows
<1> USE NoneAssumption
<1>1. ASSUME NEW i \in Slugs, CreateJobUser(i)
      PROVE  RequestAccount'
  BY <1>1, CreateEffect, CreateJobUserEffect, <1>0, Fields
  DEF RequestAccount, ReqShape, RequestsApart, tables
<1>2. ASSUME NEW i \in Slugs, StartFails(i)
      PROVE  RequestAccount'
  BY <1>2, NextStageEffect, StartFailsEffect, DeleteRowEffect, <1>0, Fields
  DEF RequestAccount, ReqShape, RequestsApart, tables, RowIsOurs
<1>3. ASSUME NEW i \in Slugs, Bind(i)
      PROVE  RequestAccount'
  BY <1>3, IdleFields, BindJobEffect, BindEffect, <1>0, Fields
  DEF RequestAccount, ReqShape, RequestsApart, tables
<1>4. ASSUME NEW i \in Slugs, JobFailed(i)
      PROVE  RequestAccount'
  BY <1>4, SetJobEffect, IdleFields, JobFailedEffect, DeleteEffect, <1>0, Fields
  DEF RequestAccount, ReqShape, RequestsApart, tables
<1>5. ASSUME NEW u \in Slugs, HandleCreateUser(u)
      PROVE  RequestAccount'
  BY <1>5, CreateEffect, HandleCreateUserEffect, <1>0, Fields
  DEF RequestAccount, ReqShape, RequestsApart, tables
<1>6. ASSUME NEW u \in Slugs, HandleUnbindUser(u)
      PROVE  RequestAccount'
  BY <1>6, HandleUnbindUserEffect, <1>0, Fields
  DEF RequestAccount, ReqShape, RequestsApart, tables
<1>7. ASSUME NEW u \in Slugs, HandleDeleteUser(u)
      PROVE  RequestAccount'
  BY <1>7, DeleteEffect, HandleDeleteUserEffect, <1>0, Fields
  DEF RequestAccount, ReqShape, RequestsApart, tables
<1>8. ASSUME NEW i \in Slugs, HandleDestroy(i)
      PROVE  RequestAccount'
  BY <1>8, DeleteRowEffect, HandleDestroyEffect, <1>0, Fields
  DEF RequestAccount, ReqShape, RequestsApart, tables
<1>9. ASSUME NEW u \in Slugs, NEW i \in Slugs, HandleUpdateUser(u, i)
      PROVE  RequestAccount'
  BY <1>9, BindEffect, HandleUpdateUserEffect, <1>0, Fields
  DEF RequestAccount, ReqShape, RequestsApart, tables
<1>10. ASSUME NEW r \in Reqs, LoginFails(r)
      PROVE  RequestAccount'
  BY <1>10, SetReqEffect, IdleFields, <1>0, Fields
  DEF LoginFails, RequestAccount, ReqShape, RequestsApart, tables
<1>11. ASSUME NEW r \in Reqs, LookupUser(r)
      PROVE  RequestAccount'
  BY <1>11, LookupUserEffect, <1>0, Fields
  DEF RequestAccount, ReqShape, RequestsApart, tables
<1>12. ASSUME NEW r \in Reqs, LookupInstance(r)
      PROVE  RequestAccount'
  BY <1>12, LookupInstanceEffect, <1>0, Fields
  DEF RequestAccount, ReqShape, RequestsApart, tables
<1>13. ASSUME NEW r \in Reqs, Proxied(r)
      PROVE  RequestAccount'
  BY <1>13, SetReqEffect, IdleFields, <1>0, Fields
  DEF Proxied, RequestAccount, ReqShape, RequestsApart, tables
<1>14. ASSUME NEW r \in Reqs, NEW u \in Slugs, Authenticate(r, u)
      PROVE  RequestAccount'
  BY <1>14, AuthenticateEffect, <1>0, Fields
  DEF RequestAccount, ReqShape, RequestsApart, tables
<1>15. ASSUME NEW r \in Reqs, NEW t \in Tokens, CreateSession(r, t)
      PROVE  RequestAccount'
  BY <1>15, SetReqEffect, IdleFields, CreateSessionEffect, <1>0, Fields
  DEF RequestAccount, ReqShape, RequestsApart, tables
<1>16. ASSUME NEW r \in Reqs, NEW t \in Tokens, NEW s \in Slugs, Validate(r, t, s)
      PROVE  RequestAccount'
  BY <1>16, ValidateEffect, <1>0, Fields
  DEF RequestAccount, ReqShape, RequestsApart, tables, SessionAccount
<1>17. CASE UNCHANGED <<users, req>>
  BY <1>17, <1>0 DEF RequestAccount, ReqShape, RequestsApart
<1>18. QED
  BY <1>1, <1>2, <1>3, <1>4, <1>5, <1>6, <1>7, <1>8, <1>9, <1>10, <1>11, <1>12, <1>13, <1>14,
     <1>15, <1>16, <1>17
  DEF Next, Job, Admin, Browser, HandleProvision, Refuse, Admit, UserRefused, Reserve, Started,
      ReserveFails, BindSkipped, HandleCreate, HandleCloudLogout, ValidateExpired, PurgeExpired,
      Tick, tables, counts, vars

(* A request is sent where its user was bound. *)
LEMMA ServedOwnStep ==
    ASSUME TypeOK, ReqShape, BoundEver, RequestAccount, ServedOwn, [Next]_vars
    PROVE  ServedOwn'
<1>0. clash' \in BOOLEAN /\ (~clash' => ~clash)
  BY ClashGrows
<1> USE NoneAssumption
<1>1. ASSUME NEW i \in Slugs, Bind(i)
      PROVE  ServedOwn'
  BY <1>1, IdleFields, BindJobEffect, BindEffect, <1>0
  DEF ServedOwn, tables
<1>2. ASSUME NEW u \in Slugs, NEW i \in Slugs, HandleUpdateUser(u, i)
      PROVE  ServedOwn'
  BY <1>2, BindEffect, HandleUpdateUserEffect, <1>0
  DEF ServedOwn, tables
<1>3. ASSUME NEW r \in Reqs, LoginFails(r)
      PROVE  ServedOwn'
  BY <1>3, SetReqEffect, IdleFields, <1>0
  DEF LoginFails, ServedOwn, tables
<1>4. ASSUME NEW r \in Reqs, LookupUser(r)
      PROVE  ServedOwn'
  BY <1>4, LookupUserEffect, <1>0
  DEF ServedOwn, tables
<1>5. ASSUME NEW r \in Reqs, LookupInstance(r)
      PROVE  ServedOwn'
  <2>1. req'[r].stage = "send" => <<req'[r].account, req'[r].container>> \in everBound \/ clash
    <3>1. SUFFICES ASSUME req'[r].stage = "send", ~clash
                   PROVE  <<req'[r].account, req'[r].container>> \in everBound
      OBVIOUS
    <3> DEFINE u == req[r].user
    <3>2. /\ req[r].stage = "inst" /\ u \in Slugs
          /\ req'[r].account = req[r].account /\ req[r].inst \in Slugs
          /\ req'[r].container = rows[req[r].inst].container
      BY <1>5, <3>1, LookupInstanceEffect DEF ReqShape
    <3>3. users[u] # None /\ users[u].account = req[r].account /\ users[u].inst = req[r].inst
      BY <3>1, <3>2 DEF RequestAccount
    <3>4. users[u].inst # None
      BY <3>2, <3>3, NoneAssumption
    <3> HIDE DEF u
    <3>5. QED
      BY <3>2, <3>3, <3>4 DEF BoundEver
  <2>2. QED
    BY <1>5, <1>0, <2>1, LookupInstanceEffect DEF ServedOwn
<1>6. ASSUME NEW r \in Reqs, Proxied(r)
      PROVE  ServedOwn'
  BY <1>6, SetReqEffect, IdleFields, <1>0
  DEF Proxied, ServedOwn, tables
<1>7. ASSUME NEW r \in Reqs, NEW u \in Slugs, Authenticate(r, u)
      PROVE  ServedOwn'
  BY <1>7, AuthenticateEffect, <1>0
  DEF ServedOwn, tables
<1>8. ASSUME NEW r \in Reqs, NEW t \in Tokens, CreateSession(r, t)
      PROVE  ServedOwn'
  BY <1>8, SetReqEffect, IdleFields, CreateSessionEffect, <1>0
  DEF ServedOwn, tables
<1>9. ASSUME NEW r \in Reqs, NEW t \in Tokens, NEW s \in Slugs, Validate(r, t, s)
      PROVE  ServedOwn'
  BY <1>9, ValidateEffect, <1>0
  DEF ServedOwn, tables
<1>10. CASE UNCHANGED <<everBound, req>>
  BY <1>10, <1>0 DEF ServedOwn
<1>11. QED
  BY <1>1, <1>2, <1>3, <1>4, <1>5, <1>6, <1>7, <1>8, <1>9, <1>10
  DEF Next, Job, Admin, Browser, HandleProvision, Refuse, Admit, CreateJobUser, UserRefused,
      Reserve, Started, ReserveFails, StartFails, BindSkipped, JobFailed, HandleCreateUser,
      HandleUnbindUser, HandleDeleteUser, HandleDestroy, HandleCreate, HandleCloudLogout,
      ValidateExpired, PurgeExpired, Tick, tables, counts, vars

-----------------------------------------------------------------------------
(* The invariants of the specification *)

(* The invariants hold at the start, *)
LEMMA InitInv ==
    ASSUME Init
    PROVE  Inv /\ Turns
<1> USE CloudAssumption, IdleFields
<1>1. limit.now \in Nat /\ limit.edits \in Nat
  <2>1. limit \in [now : Nat, edits : Nat, slips : Nat]
    BY DEF Init
  <2>2. QED
    BY <2>1
<1>2. TypeOK
  <2>1. /\ users \in [Slugs -> UserRow \cup {None}] /\ rows \in [Slugs -> InstRow \cup {None}]
        /\ sessions \in [Tokens -> Session \cup {None}]
        /\ slips \in [Slugs -> SUBSET Droppable]
        /\ job \in [Slugs -> JobState] /\ req \in [Reqs -> ReqState]
    BY DEF Init
  <2>2. now \in 0 .. limit.now /\ limit \in Limits /\ edits \in 0 .. limit.edits
    BY <1>1 DEF Init
  <2>3. issued \subseteq Tokens /\ everBound \subseteq (1 .. MaxGen) \X (1 .. MaxGen) /\ clash \in BOOLEAN
    BY DEF Init
  <2>4. accounts \in 0 .. MaxGen /\ containers \in 0 .. MaxGen
    BY DEF Init
  <2>5. QED
    BY <2>1, <2>2, <2>3, <2>4 DEF TypeOK
<1>3. References /\ BoundEver /\ ExpiryBound
  BY DEF Init, References, BoundEver, ExpiryBound
<1>4. JobShape /\ ReqShape
  BY DEF Init, JobShape, ReqShape
<1>5. Turns
  BY DEF Init, Turns, RequestsApart, RowIsOurs, UserIsOurs, SessionAccount, RequestAccount,
         ServedOwn
<1>6. QED
  BY <1>2, <1>3, <1>4, <1>5 DEF Inv

(* and every step keeps them. *)
LEMMA InvStep ==
    ASSUME Inv, Turns, [Next]_vars
    PROVE  Inv' /\ Turns'
<1>1. Inv'
  BY TypeStep, ReferencesStep, JobShapeStep, ReqShapeStep, BoundEverStep, ExpiryBoundStep DEF Inv
<1>2. Turns'
  BY RequestsApartStep, RowIsOursStep, UserIsOursStep, SessionAccountStep, RequestAccountStep,
     ServedOwnStep DEF Inv, Turns
<1>3. QED
  BY <1>1, <1>2

(* So they hold in every state. *)
LEMMA Invariant == Spec => [](Inv /\ Turns)
<1>1. Init => Inv /\ Turns
  BY InitInv
<1>2. Inv /\ Turns /\ [Next]_vars => Inv' /\ Turns'
  BY InvStep
<1>3. QED
  BY <1>1, <1>2, PTL DEF Spec

-----------------------------------------------------------------------------
(* Theorems *)

(* Every variable keeps its type; expiry times stay within session_ttl of
   the clock. *)
THEOREM TypeCorrect == Spec => []TypeOK
<1>1. Inv => TypeOK
  BY DEF Inv
<1>2. QED
  BY <1>1, Invariant, PTL

(* Whatever interleaves, no user is bound to an instance that is gone, no two
   share one, and no session outlives its user (UserStore.SetInstanceID,
   UserStore.Delete, registry.Delete over the keys of the schema). *)
THEOREM ReferencesHold == Spec => []References
<1>1. Inv => References
  BY DEF Inv
<1>2. QED
  BY <1>1, Invariant, PTL

(* Validate accepts no session older than session_ttl (SessionStore.Create
   rounds expires_at down, for every lifetime). *)
THEOREM SessionsEnd == Spec => []SessionLifetime
<1>1. Inv => SessionLifetime
  <2>1. SUFFICES ASSUME Inv, NEW t \in Tokens, sessions[t] # None, ~Expired(t)
                 PROVE  now - sessions[t].created <= 2 * TTL
    BY DEF SessionLifetime
  <2>2. /\ sessions[t].created \in Nat /\ sessions[t].expires \in Nat /\ now \in Nat
        /\ sessions[t].expires <= sessions[t].created + 2 * TTL
    BY <2>1, Rows DEF Inv, ExpiryBound
  <2>3. now <= sessions[t].expires
    BY <2>1, <2>2 DEF Expired
  <2>4. QED
    BY <2>2, <2>3, CloudAssumption
<1>2. QED
  BY <1>1, Invariant, PTL

(* The purge removes only sessions that Validate would refuse
   (SessionStore.PurgeExpired compares the texts of the times). *)
THEOREM PurgeIsSafe == Spec => PurgedWasExpired
<1>1. ASSUME Inv, PurgeExpired, NEW t \in Tokens, sessions[t] # None, sessions'[t] = None
      PROVE  Expired(t)
  <2>1. Purgeable(t)
    BY <1>1 DEF PurgeExpired, Inv, TypeOK
  <2>2. sessions[t].expires \in Nat /\ now \in Nat
    BY <1>1, Rows DEF Inv
  <2>3. Format(now) \in Nat /\ Format(now) <= now
    BY <2>2, FormatBound
  <2>4. QED
    BY <2>1, <2>2, <2>3 DEF Purgeable, Expired
<1>2. Inv => [PurgeExpired =>
                 \A t \in Tokens : sessions[t] # None /\ sessions'[t] = None => Expired(t)]_vars
  BY <1>1
<1>3. QED
  BY <1>2, Invariant, PTL DEF PurgedWasExpired

(* With operations on one slug taking turns, the container a request is sent
   to was bound to the account that logged in (handleSubdomainRequest,
   proxyToInstance). *)
THEOREM ProxyServesOwn == Spec => []ServedOwn
<1>1. Turns => ServedOwn
  BY DEF Turns
<1>2. QED
  BY <1>1, Invariant, PTL

(* With operations on one slug taking turns, a job that fails deletes the
   account it created and no other (rollbackUser). *)
THEOREM RollbackIsOwn == Spec => OnlyOwnUser
<1>1. ASSUME Inv, Turns, [Next]_vars, NEW s \in Slugs,
             ~clash', job[s] # job'[s], users[s] # None, users'[s] = None
      PROVE  users[s].account = job[s].account
  <2> USE Fields
  <2>1. TypeOK /\ ~clash /\ ReqShape
    BY <1>1, ClashGrows DEF Inv
  <2>2. ASSUME NEW i \in Slugs, JobFailed(i)
        PROVE  users[s].account = job[s].account
    <3>1. i = s /\ job[s].kind = "provision" /\ job[s].stage = "failed"
      BY <1>1, <2>1, <2>2, JobFailedEffect, DeleteEffect
    <3>2. QED
      BY <1>1, <2>1, <3>1 DEF Turns, UserIsOurs
  <2>3. ASSUME NEW i \in Slugs, CreateJobUser(i)
        PROVE  FALSE
    BY <1>1, <2>1, <2>3, CreateEffect, CreateJobUserEffect
  <2>4. ASSUME NEW i \in Slugs, StartFails(i)
        PROVE  FALSE
    BY <1>1, <2>1, <2>4, StartFailsEffect, DeleteRowEffect
  <2>5. ASSUME NEW i \in Slugs, Bind(i)
        PROVE  FALSE
    BY <1>1, <2>1, <2>5, BindJobEffect, BindEffect
  <2>6. CASE UNCHANGED users
    BY <1>1, <2>6
  <2>7. CASE UNCHANGED job
    BY <1>1, <2>7
  <2>8. QED
    BY <1>1, <2>2, <2>3, <2>4, <2>5, <2>6, <2>7
    DEF Next, Job, Admin, Browser, HandleProvision, Refuse, Admit, UserRefused, Reserve, Started,
        ReserveFails, BindSkipped, HandleCreateUser, HandleUnbindUser, HandleDeleteUser,
        HandleDestroy, HandleCreate, HandleUpdateUser, LoginFails, LookupUser, LookupInstance,
        Proxied, Authenticate, CreateSession, Validate, HandleCloudLogout, ValidateExpired,
        PurgeExpired, Tick, tables, counts, vars
<1>2. Inv /\ Turns /\ [Next]_vars =>
        [\A s \in Slugs :
            ~clash' /\ job[s] # job'[s] /\ users[s] # None /\ users'[s] = None =>
                users[s].account = job[s].account]_vars
  BY <1>1
<1>3. QED
  BY <1>2, Invariant, PTL DEF OnlyOwnUser, Spec

(* How a provisioning job may leave a slug *)
Whole(s) ==
    LET bound == users'[s] # None /\ users'[s].inst = s
    IN  /\ bound => rows'[s] # None /\ rows'[s].running
        /\ users'[s] # None => bound \/ slips'[s] \cap {"bind", "user"} # {}
        /\ rows'[s] # None => bound \/ slips'[s] \cap {"bind", "row", "get"} # {}

(* With operations on one slug taking turns, a provisioning job leaves a user
   bound to the running instance, or neither of them, unless the error of one
   of the store calls that undo or complete it was dropped (handleProvision). *)
THEOREM ProvisionIsOneOperation == Spec => ProvisionOutcome
<1>1. ASSUME Inv, Turns, [Next]_vars, NEW s \in Slugs,
             ~clash', job[s].kind = "provision", job[s].account # 0, job'[s].stage = "idle"
      PROVE  Whole(s)
  <2>1. TypeOK /\ ~clash /\ JobShape /\ ReqShape
    BY <1>1, ClashGrows DEF Inv
  <2>2. job[s].owner = s /\ job[s].stage \notin {"idle", "checks", "user"}
    BY <1>1, <2>1 DEF JobShape
  <2>3. ASSUME NEW i \in Slugs, Bind(i)
        PROVE  (i # s /\ job'[s] = job[s]) \/ Whole(s)
    <3>1. CASE i = s
      <4>1. users'[s] # None /\ users'[s].inst = s /\ rows' = rows /\ job[s].stage = "bind"
        BY <2>1, <2>2, <2>3, <3>1, BindJobEffect, BindEffect, Fields
      <4>2. rows[s] # None /\ rows[s].running
        BY <1>1, <2>1, <4>1 DEF Turns, RowIsOurs
      <4>3. QED
        BY <4>1, <4>2 DEF Whole
    <3>2. CASE i # s
      BY <2>1, <2>3, <3>2, BindJobEffect
    <3>3. QED
      BY <3>1, <3>2
  <2>4. ASSUME NEW i \in Slugs, BindSkipped(i)
        PROVE  (i # s /\ job'[s] = job[s]) \/ Whole(s)
    <3>1. /\ SetJob(i, Idle) /\ job[i].stage = "bind" /\ users' = users
          /\ ~BindsOwner(i) \/ "bind" \in slips'[i]
      BY <2>1, <2>4, BindSkippedEffect
    <3>2. CASE i = s
      <4>1. rows[s] # None /\ \A u \in Slugs : users[u] # None => users[u].inst # s
        BY <1>1, <2>1, <3>1, <3>2 DEF Turns, RowIsOurs
      <4>2. users[s] # None
        BY <1>1, <2>1, <3>1, <3>2 DEF Turns, UserIsOurs
      <4>3. BindsOwner(s)
        BY <2>2, <4>1, <4>2, NoneAssumption DEF BindsOwner, Bindable
      <4>4. QED
        BY <3>1, <3>2, <4>1, <4>3 DEF Whole
    <3>3. CASE i # s
      BY <2>1, <3>1, <3>3, SetJobEffect
    <3>4. QED
      BY <3>2, <3>3
  <2>5. ASSUME NEW i \in Slugs, JobFailed(i)
        PROVE  (i # s /\ job'[s] = job[s]) \/ Whole(s)
    <3>1. job[i].stage = "failed" /\ SetJob(i, Idle) /\ rows' = rows
      BY <2>1, <2>5, JobFailedEffect
    <3>2. CASE i = s
      <4>1. rows'[s] = None \/ slips'[s] \cap {"get", "row"} # {}
        <5>1. slips[s] \subseteq slips'[s]
          BY <2>1, <2>5, <3>2, JobFailedEffect
        <5>2. rows[s] = None \/ slips[s] \cap {"get", "row"} # {}
          BY <2>1, <3>1, <3>2 DEF JobShape
        <5>3. QED
          BY <3>1, <5>1, <5>2
      <4>2. users'[s] = None \/ (users' = users /\ "user" \in slips'[s])
        BY <1>1, <2>1, <2>5, <3>2, JobFailedEffect, DeleteEffect
      <4>3. users[s].inst # s
        BY <1>1, <2>1, <3>1, <3>2 DEF Turns, UserIsOurs
      <4>4. QED
        BY <4>1, <4>2, <4>3 DEF Whole
    <3>3. CASE i # s
      BY <2>1, <3>1, <3>3, SetJobEffect
    <3>4. QED
      BY <3>2, <3>3
  <2>6. ASSUME NEW i \in Slugs,
               \/ HandleProvision(i) \/ Refuse(i) \/ Admit(i) \/ CreateJobUser(i) \/ UserRefused(i)
               \/ Reserve(i) \/ Started(i) \/ ReserveFails(i) \/ StartFails(i)
               \/ \E o \in Slugs \cup {None} : HandleCreate(i, o)
        PROVE  job'[s].stage # "idle"
    <3>1. CASE i # s
      <4>1. job'[s] = job[s]
        <5>1. CASE HandleProvision(i)
          BY <2>1, <3>1, <5>1, HandleProvisionEffect
        <5>2. CASE \E o \in Slugs \cup {None} : HandleCreate(i, o)
          BY <2>1, <3>1, <5>2, HandleCreateEffect
        <5>3. CASE CreateJobUser(i)
          BY <2>1, <3>1, <5>3, CreateJobUserEffect
        <5>4. CASE \/ Refuse(i) \/ Admit(i) \/ UserRefused(i) \/ Reserve(i) \/ Started(i)
                   \/ ReserveFails(i) \/ StartFails(i)
          BY <2>1, <3>1, <5>4 DEF Refuse, Admit, UserRefused, Reserve, Started, ReserveFails,
             StartFails, NextStage, SetJob, TypeOK
        <5>5. QED
          BY <2>6, <5>1, <5>2, <5>3, <5>4
      <4>2. QED
        BY <2>2, <4>1
    <3>2. CASE i = s
      <4>1. CASE HandleProvision(s) \/ \E o \in Slugs \cup {None} : HandleCreate(s, o)
        BY <2>1, <2>2, <4>1, HandleProvisionEffect, HandleCreateEffect
      <4>2. CASE Refuse(s) \/ Admit(s) \/ UserRefused(s)
        BY <2>2, <4>2 DEF Refuse, Admit, UserRefused
      <4>3. CASE CreateJobUser(s)
        BY <2>1, <4>3, CreateJobUserEffect
      <4>4. CASE Reserve(s)
        BY <2>1, <4>4, NextStageEffect DEF Reserve
      <4>5. CASE Started(s)
        BY <2>1, <4>5, NextStageEffect DEF Started
      <4>6. CASE ReserveFails(s)
        BY <2>1, <4>6, NextStageEffect DEF ReserveFails
      <4>7. CASE StartFails(s)
        BY <2>1, <4>7, NextStageEffect DEF StartFails
      <4>8. QED
        BY <2>6, <3>2, <4>1, <4>2, <4>3, <4>4, <4>5, <4>6, <4>7
    <3>3. QED
      BY <3>1, <3>2
  <2>7. CASE UNCHANGED job
    BY <1>1, <2>2, <2>7
  <2>8. job'[s] # job[s]
    BY <1>1, <2>2
  <2>9. CASE \E i \in Slugs : Job(i)
    BY <1>1, <2>3, <2>4, <2>5, <2>6, <2>8, <2>9 DEF Job
  <2>10. CASE \E i \in Slugs, o \in Slugs \cup {None} : HandleCreate(i, o)
    BY <1>1, <2>6, <2>10
  <2>11. QED
    BY <1>1, <2>7, <2>9, <2>10
    DEF Next, Admin, Browser, HandleCreateUser, HandleUnbindUser, HandleDeleteUser,
        HandleDestroy, HandleUpdateUser, LoginFails, LookupUser, LookupInstance,
        Proxied, Authenticate, CreateSession, Validate, HandleCloudLogout, ValidateExpired,
        PurgeExpired, Tick, tables, counts, vars
<1>2. Inv /\ Turns /\ [Next]_vars =>
        [\A s \in Slugs :
            ~clash' /\ job[s].kind = "provision" /\ job[s].account # 0 /\ job'[s].stage = "idle" =>
                Whole(s)]_vars
  BY <1>1
<1>3. QED
  BY <1>2, Invariant, PTL DEF ProvisionOutcome, Whole, Spec

=============================================================================
