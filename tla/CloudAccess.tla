---------------------------- MODULE CloudAccess ----------------------------
(***************************************************************************)
(* Cloud mode: the users and sessions of internal/cloud, the handlers of  *)
(* panel/api that create, bind and delete users, and the proxy that takes *)
(* a logged-in user to the instance bound to them.                        *)
(*                                                                         *)
(* Slugs name users, subdomains and instances alike.  A user row carries  *)
(* the account it is (a name deleted and created again is another         *)
(* account), an instance row the container it stands for; both are        *)
(* history, the code compares names only.  Every statement is atomic:     *)
(* the store has one connection.  What provisioning does to the container *)
(* is in Provisioner; here it succeeds or fails.                          *)
(*                                                                         *)
(* The clock counts half seconds, because expiry times are stored in      *)
(* whole seconds (RFC 3339) and compared with a finer clock.              *)
(***************************************************************************)
EXTENDS Integers, FiniteSets

CONSTANTS
    Slugs,      \* user names and instance IDs
    Tokens,     \* session tokens the random source will produce
    Reqs,       \* requests of browsers, one at a time each
    TTL,        \* cloud.session_ttl, in seconds
    Limits,     \* bounds: how far the clock runs, how many operations the
                \* administrator makes and how many store calls fail unnoticed,
                \* one combination per behaviour
    MaxGen,     \* bound: accounts, and containers, ever created
    None        \* no row, no session, no name

ASSUME CloudAssumption ==
    /\ IsFiniteSet(Slugs) /\ IsFiniteSet(Tokens) /\ IsFiniteSet(Reqs)
    /\ TTL \in Nat \ {0} /\ MaxGen \in Nat
    /\ IsFiniteSet(Limits) /\ Limits \subseteq [now : Nat, edits : Nat, slips : Nat]

VARIABLES
    users,      \* cloud_users: account and instance_id, or None
    rows,       \* instances: container and status, or None
    sessions,   \* cloud_sessions by token, or None
    issued,     \* tokens handed out
    slips,      \* history: calls of the slug's last job whose errors were dropped
    job,        \* the background goroutine holding inFlight[id]
    req,        \* a browser's request
    limit,      \* the bounds of this behaviour, chosen at the start
    now,        \* the clock
    accounts,   \* accounts created so far
    containers, \* containers created so far
    edits,      \* administrator's operations so far
    everBound,  \* every <<account, container>> that was bound
    clash       \* did two operations ever use one slug at a time?

tables == <<users, rows, sessions, everBound>>
counts == <<accounts, containers, edits, limit>>
vars == <<tables, issued, slips, job, req, now, counts, clash>>

Idle == [stage |-> "idle", kind |-> None, owner |-> None, account |-> 0]
NoReq == [stage |-> "idle", user |-> None, account |-> 0, inst |-> None, container |-> 0]

UserRow == [account : 1 .. MaxGen, inst : Slugs \cup {None}]
InstRow == [container : 1 .. MaxGen, running : BOOLEAN]
Session == [user : Slugs, account : 1 .. MaxGen, created : 0 .. limit.now,
            expires : 0 .. limit.now + 2 * TTL]
JobState == [stage : {"idle", "checks", "user", "run", "start", "bind", "failed"},
             kind : {None, "create", "provision"},
             owner : Slugs \cup {None}, account : 0 .. MaxGen]
ReqState == [stage : {"idle", "login", "user", "inst", "send"},
             user : Slugs \cup {None}, account : 0 .. MaxGen,
             inst : Slugs \cup {None}, container : 0 .. MaxGen]

(* Calls whose error the code drops or only logs: registry.Get of the check,
   registry.Delete of the provisioner's rollback, SetInstanceID and the Delete
   of rollbackUser. *)
Droppable == {"get", "row", "bind", "user"}

ASSUME NoneAssumption == None \notin Slugs \cup UserRow \cup InstRow

TypeOK ==
    /\ users \in [Slugs -> UserRow \cup {None}]
    /\ rows \in [Slugs -> InstRow \cup {None}]
    /\ sessions \in [Tokens -> Session \cup {None}]
    /\ issued \subseteq Tokens
    /\ slips \in [Slugs -> SUBSET Droppable]
    /\ job \in [Slugs -> JobState]
    /\ req \in [Reqs -> ReqState]
    /\ limit \in Limits /\ now \in 0 .. limit.now
    /\ accounts \in 0 .. MaxGen /\ containers \in 0 .. MaxGen /\ edits \in 0 .. limit.edits
    /\ everBound \subseteq (1 .. MaxGen) \X (1 .. MaxGen)
    /\ clash \in BOOLEAN

Init ==
    /\ users = [u \in Slugs |-> None] /\ rows = [i \in Slugs |-> None]
    /\ sessions = [t \in Tokens |-> None] /\ issued = {} /\ slips = [i \in Slugs |-> {}]
    /\ job = [i \in Slugs |-> Idle] /\ req = [r \in Reqs |-> NoReq]
    /\ limit \in Limits /\ now \in {0, 1} \cap 0 .. limit.now /\ accounts = 0 /\ containers = 0 /\ edits = 0
    /\ everBound = {} /\ clash = FALSE

-----------------------------------------------------------------------------
(* The tables *)

(* UserStore.Create: the name is the primary key. *)
Create(u) ==
    /\ users[u] = None /\ accounts < MaxGen
    /\ accounts' = accounts + 1
    /\ users' = [users EXCEPT ![u] = [account |-> accounts + 1, inst |-> None]]

(* cloud_sessions.user_id REFERENCES cloud_users ON DELETE CASCADE *)
Cascade(u) ==
    [t \in Tokens |-> IF sessions[t] # None /\ sessions[t].user = u THEN None ELSE sessions[t]]

(* UserStore.Delete *)
Delete(u) ==
    /\ users' = [users EXCEPT ![u] = None]
    /\ sessions' = Cascade(u)

KeepBinding(i) == users
(* cloud_users.instance_id REFERENCES instances ON DELETE SET NULL *)
Unbind(i) ==
    [u \in Slugs |-> IF users[u] # None /\ users[u].inst = i
                     THEN [users[u] EXCEPT !.inst = None] ELSE users[u]]

(* registry.Delete *)
DeleteRow(i) ==
    /\ rows' = [rows EXCEPT ![i] = None]
    /\ users' = Unbind(i)

(* The foreign key wants the row, the unique index no other user of it. *)
Bindable(u, i) ==
    /\ users[u] # None /\ rows[i] # None
    /\ \A v \in Slugs \ {u} : users[v] # None => users[v].inst # i

(* UserStore.SetInstanceID *)
SetInstanceID(u, i) ==
    /\ users' = [users EXCEPT ![u].inst = i]
    /\ everBound' = everBound \cup {<<users[u].account, rows[i].container>>}

-----------------------------------------------------------------------------
(* POST /api/instances and POST /api/instances/provision *)

JobOn(S) == \E i \in Slugs : job[i].stage # "idle" /\ {i, job[i].owner} \cap (S \ {None}) # {}
RequestOn(S) ==
    \E r \in Reqs : req[r].stage # "idle" /\ {req[r].user, req[r].inst} \cap (S \ {None}) # {}

(* An operation begins on slugs that others may be using: one that only  *)
(* reads, a job, or an edit.                                              *)
Reads(S) == clash' = (clash \/ JobOn(S))
Creates(S) == clash' = (clash \/ RequestOn(S))
Changes(S) == clash' = (clash \/ JobOn(S) \/ RequestOn(S))

SetJob(i, f) == job' = [job EXCEPT ![i] = f]
NextStage(i, st) == SetJob(i, [job[i] EXCEPT !.stage = st])
Slip(i, call) ==
    /\ Cardinality(UNION {slips[j] : j \in Slugs}) < limit.slips
    /\ slips' = [slips EXCEPT ![i] = @ \cup {call}]

(* inFlight is taken: nobody else works on i. *)
HandleCreate(i, o) ==
    /\ job[i].stage = "idle" /\ Creates({i, o})
    /\ SetJob(i, [Idle EXCEPT !.stage = "checks", !.kind = "create", !.owner = o])
    /\ slips' = [slips EXCEPT ![i] = {}]
    /\ UNCHANGED <<tables, issued, req, now, counts>>

HandleProvision(s) ==
    /\ job[s].stage = "idle" /\ Creates({s})
    /\ SetJob(s, [Idle EXCEPT !.stage = "checks", !.kind = "provision", !.owner = s])
    /\ slips' = [slips EXCEPT ![s] = {}]
    /\ UNCHANGED <<tables, issued, req, now, counts>>

(* The instance exists, the cap is reached or the registry fails. *)
Refuse(i) ==
    /\ job[i].stage = "checks"
    /\ SetJob(i, Idle)
    /\ UNCHANGED <<tables, issued, slips, req, now, counts, clash>>

(* Any error of registry.Get is taken for an instance that is not there. *)
Admit(i) ==
    /\ job[i].stage = "checks"
    /\ \/ rows[i] = None /\ UNCHANGED slips
       \/ rows[i] # None /\ Slip(i, "get")
    /\ NextStage(i, IF job[i].kind = "provision" THEN "user" ELSE "run")
    /\ UNCHANGED <<tables, issued, req, now, counts, clash>>

CreateJobUser(s) ==
    /\ job[s].stage = "user"
    /\ Create(s)
    /\ SetJob(s, [job[s] EXCEPT !.stage = "run", !.account = accounts + 1])
    /\ UNCHANGED <<rows, sessions, everBound, issued, slips, req, now, containers, edits, limit, clash>>

RollbackOnExists(s) == [job[s] EXCEPT !.stage = "failed"]
(* ErrUserExists, or the store fails: 409 or 500, the mark is cleared. *)
OnUserExists(s) == Idle

UserRefused(s) ==
    /\ job[s].stage = "user"
    /\ SetJob(s, OnUserExists(s))
    /\ UNCHANGED <<tables, issued, slips, req, now, counts, clash>>

(* Provision inserts the row, starts the container, sets it running. *)
Reserve(i) ==
    /\ job[i].stage = "run" /\ rows[i] = None /\ containers < MaxGen
    /\ containers' = containers + 1
    /\ rows' = [rows EXCEPT ![i] = [container |-> containers + 1, running |-> FALSE]]
    /\ NextStage(i, "start")
    /\ UNCHANGED <<users, sessions, everBound, issued, slips, req, now, accounts, edits, limit, clash>>

Started(i) ==
    /\ job[i].stage = "start" /\ rows[i] # None
    /\ rows' = [rows EXCEPT ![i].running = TRUE]
    /\ NextStage(i, "bind")
    /\ UNCHANGED <<users, sessions, everBound, issued, slips, req, now, counts, clash>>

(* An error before the row is inserted removes nothing. *)
ReserveFails(i) ==
    /\ job[i].stage = "run"
    /\ NextStage(i, "failed")
    /\ UNCHANGED <<tables, issued, slips, req, now, counts, clash>>

(* A later one rolls the row back; that the rollback failed goes unnoticed. *)
StartFails(i) ==
    /\ job[i].stage = "start"
    /\ \/ DeleteRow(i) /\ UNCHANGED slips
       \/ rows[i] # None /\ Slip(i, "row") /\ UNCHANGED <<rows, users>>
    /\ NextStage(i, "failed")
    /\ UNCHANGED <<sessions, everBound, issued, req, now, counts, clash>>

BindsOwner(i) == job[i].owner # None /\ Bindable(job[i].owner, i)

Bind(i) ==
    /\ job[i].stage = "bind" /\ BindsOwner(i)
    /\ SetInstanceID(job[i].owner, i)
    /\ SetJob(i, Idle)
    /\ UNCHANGED <<rows, sessions, issued, slips, req, now, counts, clash>>

(* No owner, or an error of SetInstanceID, which is only logged: the keys     *)
(* refuse the binding, or the store fails.                                   *)
BindSkipped(i) ==
    /\ job[i].stage = "bind"
    /\ \/ ~BindsOwner(i) /\ UNCHANGED slips
       \/ BindsOwner(i) /\ Slip(i, "bind")
    /\ SetJob(i, Idle)
    /\ UNCHANGED <<tables, issued, req, now, counts, clash>>

NeverRollsBack(i) == FALSE
RollsBackUser(i) == job[i].kind = "provision"

(* rollbackUser deletes by name, and only logs that it could not. *)
JobFailed(i) ==
    /\ job[i].stage = "failed"
    /\ \/ RollsBackUser(i) /\ Delete(i) /\ UNCHANGED slips
       \/ ~RollsBackUser(i) /\ UNCHANGED <<users, sessions, slips>>
       \/ /\ RollsBackUser(i) /\ users[i] # None
          /\ Slip(i, "user") /\ UNCHANGED <<users, sessions>>
    /\ SetJob(i, Idle)
    /\ UNCHANGED <<rows, everBound, issued, req, now, counts, clash>>

-----------------------------------------------------------------------------
(* The administrator: /api/users and DELETE /api/instances *)

Edit(S) ==
    /\ edits < limit.edits /\ edits' = edits + 1 /\ UNCHANGED limit
    /\ Changes(S)

HandleCreateUser(u) ==
    /\ Edit({u}) /\ Create(u)
    /\ UNCHANGED <<rows, sessions, everBound, issued, slips, job, req, now, containers>>

HandleUpdateUser(u, i) ==
    /\ Edit({u, i}) /\ Bindable(u, i)
    /\ SetInstanceID(u, i)
    /\ UNCHANGED <<rows, sessions, issued, slips, job, req, now, accounts, containers>>

(* instance_id = "" *)
HandleUnbindUser(u) ==
    /\ Edit({u}) /\ users[u] # None
    /\ users' = [users EXCEPT ![u].inst = None]
    /\ UNCHANGED <<rows, sessions, everBound, issued, slips, job, req, now, accounts, containers>>

HandleDeleteUser(u) ==
    /\ Edit({u}) /\ users[u] # None
    /\ Delete(u)
    /\ UNCHANGED <<rows, everBound, issued, slips, job, req, now, accounts, containers>>

HandleDestroy(i) ==
    /\ Edit({i} \cup {u \in Slugs : users[u] # None /\ users[u].inst = i})
    /\ rows[i] # None
    /\ DeleteRow(i)
    /\ UNCHANGED <<sessions, everBound, issued, slips, job, req, now, accounts, containers>>

-----------------------------------------------------------------------------
(* Sessions *)

RoundUp(t) == t + (t % 2)
(* Format(time.RFC3339) drops the fraction of the second. *)
Format(t) == t - (t % 2)

SetReq(r, f) == req' = [req EXCEPT ![r] = f]

(* handleCloudLogin and handleSubdomainLogin: the password is right. *)
Authenticate(r, u) ==
    /\ req[r].stage = "idle" /\ users[u] # None /\ Reads({u})
    /\ SetReq(r, [NoReq EXCEPT !.stage = "login", !.user = u, !.account = users[u].account])
    /\ UNCHANGED <<tables, issued, slips, job, now, counts>>

(* SessionStore.Create: the user may have been deleted meanwhile. *)
CreateSession(r, t) ==
    /\ req[r].stage = "login" /\ t \notin issued
    /\ users[req[r].user] # None
    /\ sessions' = [sessions EXCEPT ![t] =
            [user |-> req[r].user, account |-> req[r].account,
             created |-> now, expires |-> Format(now + 2 * TTL)]]
    /\ issued' = issued \cup {t}
    /\ SetReq(r, NoReq)
    /\ UNCHANGED <<users, rows, everBound, slips, job, now, counts, clash>>

LoginFails(r) ==
    /\ req[r].stage = "login"
    /\ users[req[r].user] = None \/ issued = Tokens
    /\ SetReq(r, NoReq)
    /\ UNCHANGED <<tables, issued, slips, job, now, counts, clash>>

HandleCloudLogout(t) ==
    /\ sessions[t] # None
    /\ sessions' = [sessions EXCEPT ![t] = None]
    /\ UNCHANGED <<users, rows, everBound, issued, slips, job, req, now, counts, clash>>

(* time.Now().After(expiresAt) *)
Expired(t) == now > sessions[t].expires

AnySubdomain(t, s) == TRUE
MatchesSubdomain(t, s) == sessions[t].user = s

(* A request to subdomain s: a session of another user is refused. *)
Validate(r, t, s) ==
    /\ req[r].stage = "idle" /\ sessions[t] # None /\ Reads({s})
    /\ ~Expired(t) /\ MatchesSubdomain(t, s)
    /\ SetReq(r, [NoReq EXCEPT !.stage = "user", !.user = s, !.account = sessions[t].account])
    /\ UNCHANGED <<tables, issued, slips, job, now, counts>>

(* Validate drops the expired session it meets. *)
ValidateExpired(t) ==
    /\ sessions[t] # None /\ Expired(t)
    /\ sessions' = [sessions EXCEPT ![t] = None]
    /\ UNCHANGED <<users, rows, everBound, issued, slips, job, req, now, counts, clash>>

PurgesAtExpiry(t) == sessions[t].expires <= Format(now)
(* DELETE ... WHERE expires_at < now, both as text *)
Purgeable(t) == sessions[t].expires < Format(now)

PurgeExpired ==
    /\ \E t \in Tokens : sessions[t] # None /\ Purgeable(t)
    /\ sessions' = [t \in Tokens |-> IF sessions[t] # None /\ Purgeable(t)
                                     THEN None ELSE sessions[t]]
    /\ UNCHANGED <<users, rows, everBound, issued, slips, job, req, now, counts, clash>>

-----------------------------------------------------------------------------
(* proxyToInstance, and the 503 pages on the way *)

LookupUser(r) ==
    LET u == users[req[r].user] IN
    /\ req[r].stage = "user"
    /\ SetReq(r, IF u = None THEN NoReq
                 ELSE IF u.inst = None THEN NoReq
                 ELSE [req[r] EXCEPT !.stage = "inst", !.inst = u.inst])
    /\ UNCHANGED <<tables, issued, slips, job, now, counts, clash>>

LookupInstance(r) ==
    LET row == rows[req[r].inst] IN
    /\ req[r].stage = "inst"
    /\ SetReq(r, IF row = None THEN NoReq
                 ELSE IF ~row.running THEN NoReq
                 ELSE [req[r] EXCEPT !.stage = "send", !.container = row.container])
    /\ UNCHANGED <<tables, issued, slips, job, now, counts, clash>>

(* The instance answers, or it is gone: its port is closed, or taken by
   one that does not know the token the proxy sends. *)
Proxied(r) ==
    /\ req[r].stage = "send"
    /\ SetReq(r, NoReq)
    /\ UNCHANGED <<tables, issued, slips, job, now, counts, clash>>

(* Time matters while there is a session; the first may come at any fraction. *)
Tick ==
    /\ \E t \in Tokens : sessions[t] # None
    /\ now < limit.now /\ now' = now + 1
    /\ UNCHANGED <<tables, issued, slips, job, req, counts, clash>>

-----------------------------------------------------------------------------

Job(i) ==
    \/ HandleProvision(i) \/ Refuse(i) \/ Admit(i) \/ CreateJobUser(i) \/ UserRefused(i)
    \/ Reserve(i) \/ Started(i) \/ ReserveFails(i) \/ StartFails(i)
    \/ Bind(i) \/ BindSkipped(i) \/ JobFailed(i)

Admin(u) ==
    \/ HandleCreateUser(u) \/ HandleUnbindUser(u) \/ HandleDeleteUser(u) \/ HandleDestroy(u)

Browser(r) ==
    \/ LoginFails(r) \/ LookupUser(r) \/ LookupInstance(r) \/ Proxied(r)

Next ==
    \/ \E i \in Slugs : Job(i) \/ Admin(i)
    \/ \E i \in Slugs, o \in Slugs \cup {None} : HandleCreate(i, o)
    \/ \E u, i \in Slugs : HandleUpdateUser(u, i)
    \/ \E r \in Reqs : Browser(r)
    \/ \E r \in Reqs, u \in Slugs : Authenticate(r, u)
    \/ \E r \in Reqs, t \in Tokens : CreateSession(r, t)
    \/ \E r \in Reqs, t \in Tokens, s \in Slugs : Validate(r, t, s)
    \/ \E t \in Tokens : HandleCloudLogout(t) \/ ValidateExpired(t)
    \/ PurgeExpired \/ Tick

Spec == Init /\ [][Next]_vars

-----------------------------------------------------------------------------
(* Properties *)

(* Whatever is deleted while a login, a request or a provisioning job is   *)
(* under way, a user is never left bound to an instance that is gone, two *)
(* users never share one, and no session is left without its user         *)
(* (registry.Delete, SetInstanceID and UserStore.Delete rely on the keys  *)
(* of the schema for it).                                                  *)
References ==
    /\ \A u \in Slugs : users[u] # None =>
          \/ users[u].inst = None
          \/ /\ rows[users[u].inst] # None
             /\ \A v \in Slugs \ {u} : users[v] # None => users[v].inst # users[u].inst
    /\ \A t \in Tokens : sessions[t] # None => users[sessions[t].user] # None

(* The periodic purge never removes a session that Validate would still    *)
(* accept, although it compares texts of whole seconds and Validate a       *)
(* finer clock with the same text read back.                                *)
PurgedWasExpired ==
    [][PurgeExpired =>
          \A t \in Tokens : sessions[t] # None /\ sessions'[t] = None => Expired(t)]_vars

(* No request is accepted on a session older than session_ttl, although   *)
(* expires_at is rounded to seconds and Validate's clock is not.          *)
SessionLifetime ==
    \A t \in Tokens :
        sessions[t] # None /\ ~Expired(t) => now - sessions[t].created <= 2 * TTL

(* POST /api/instances/provision is one operation, as far as its store      *)
(* calls succeed: when its job ends, the user exists and is bound to the   *)
(* running instance, or neither is there.  A user left without the         *)
(* instance means that SetInstanceID or the Delete of rollbackUser failed, *)
(* a row left without a user that SetInstanceID failed, that the           *)
(* provisioner's rollback could not delete it, or that the handler's       *)
(* registry.Get failed and the row was somebody's before; errors the code  *)
(* drops or only logs.  Nobody else is working on the slug meanwhile.      *)
ProvisionOutcome ==
    [][\A s \in Slugs :
          ~clash' /\ job[s].kind = "provision" /\ job[s].account # 0 /\ job'[s].stage = "idle" =>
              LET bound == users'[s] # None /\ users'[s].inst = s
              IN  /\ bound => rows'[s] # None /\ rows'[s].running
                  /\ users'[s] # None => bound \/ slips'[s] \cap {"bind", "user"} # {}
                  /\ rows'[s] # None => bound \/ slips'[s] \cap {"bind", "row", "get"} # {}]_vars

(* A job that fails deletes no account but the one it created, although   *)
(* rollbackUser deletes by name (operations on one slug taking turns).    *)
OnlyOwnUser ==
    [][\A s \in Slugs :
          ~clash' /\ job[s] # job'[s] /\ users[s] # None /\ users'[s] = None =>
              users[s].account = job[s].account]_vars

(* A proxied request goes to a container that was bound to the account    *)
(* that logged in: handleSubdomainRequest and proxyToInstance identify    *)
(* both by name in three separate queries, with nobody else on the slug.  *)
ServedOwn ==
    ~clash => \A r \in Reqs :
        req[r].stage = "send" => <<req[r].account, req[r].container>> \in everBound

=============================================================================
