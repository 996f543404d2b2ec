---------------------------- MODULE Credentials ----------------------------
(***************************************************************************)
(* The credentials fox-control issues and rotates: the signing key of SSE  *)
(* session tokens (table signing_keys, internal/sessiontoken and the       *)
(* panel that holds a Signer) and the query token an instance presents to  *)
(* the data plane (column query_token and the instance's hermes.env).      *)
(*                                                                         *)
(* `fox-control sec` runs in a process of its own, beside the server; so   *)
(* may `fox-control destroy`, and the panel destroys in a request of its   *)
(* own.  Each SQL transaction is atomic, a failing call of the file system *)
(* or the registry changes what it may.  A query token is the number of the*)
(* call that drew it; the random source never repeats itself.  The clock   *)
(* counts half seconds, an expiry whole ones.                              *)
(***************************************************************************)
EXTENDS Integers, Sequences, FiniteSets

CONSTANTS
    Ids,        \* instances
    Clis,       \* processes and requests that rotate a query token or destroy
    Tokens,     \* SSE session tokens
    TTL,        \* session_token_ttl_seconds
    Zone,       \* seconds by which the host's clock is ahead of UTC
    MaxNow,     \* bound: the clock stops here
    MaxKeys,    \* bound: signing keys
    MaxDrawn,   \* bound: query tokens
    None        \* no row, no file, no token

ASSUME CredentialsAssumption ==
    /\ IsFiniteSet(Ids) /\ IsFiniteSet(Clis) /\ IsFiniteSet(Tokens)
    /\ TTL \in Nat \ {0} /\ Zone \in Int /\ MaxNow \in Nat /\ MaxKeys \in Nat /\ MaxDrawn \in Nat

VARIABLES
    keys,       \* signing_keys: whether the key of each id is active
    signer,     \* the key the server started with, 0 when it is down
    atStart,    \* keys there were when it started
    sse,        \* the session tokens issued
    now,        \* the clock
    rows,       \* query_token and plane_auth_token of each instance
    files,      \* the same in the hermes.env of its data directory
    prov,       \* the provisioning of each instance
    cli,        \* what each rotation or destruction is doing
    drawn,      \* query tokens drawn so far
    dead,       \* query tokens replaced or dropped with their instance
    disturbed   \* instances whose last operation overlapped another or failed

keyVars == <<keys, signer, atStart, sse, now>>
queryVars == <<rows, files, prov, cli, drawn, dead, disturbed>>
vars == <<keyVars, queryVars>>

AdminSecret == 0
Secrets == [token : 1 .. MaxDrawn, plane : 0 .. MaxDrawn]

ASSUME NoneAssumption == None \notin Ids \cup Secrets

TypeOK ==
    /\ keys \in Seq(BOOLEAN) /\ Len(keys) <= MaxKeys
    /\ signer \in 0 .. Len(keys) /\ atStart \in 0 .. Len(keys)
    /\ sse \in [Tokens -> {None} \cup [key : 1 .. MaxKeys, of : 1 .. MaxKeys, issued : 0 .. MaxNow,
                                       expires : 0 .. (MaxNow + 2 * TTL) \div 2,
                                       announced : Int]]
    /\ now \in 0 .. MaxNow
    /\ rows \in [Ids -> Secrets \cup {None}] /\ files \in [Ids -> Secrets \cup {None}]
    /\ prov \in [Ids -> [stage : {"idle", "inject", "start", "rollback"}, token : 0 .. MaxDrawn]]
    /\ cli \in [Clis -> [stage : {"idle", "update", "inject", "remove", "delete"},
                         id : Ids \cup {None}, token : 0 .. MaxDrawn]]
    /\ drawn \in 0 .. MaxDrawn /\ dead \subseteq 1 .. MaxDrawn /\ disturbed \subseteq Ids

Provisioned == [stage |-> "idle", token |-> 0]
Exited == [stage |-> "idle", id |-> None, token |-> 0]

Init ==
    /\ keys = << >> /\ signer = 0 /\ atStart = 0 /\ now = 0
    /\ sse = [t \in Tokens |-> None]
    /\ rows = [i \in Ids |-> None] /\ files = [i \in Ids |-> None]
    /\ prov = [i \in Ids |-> Provisioned] /\ cli = [c \in Clis |-> Exited]
    /\ drawn = 0 /\ dead = {} /\ disturbed = {}

-----------------------------------------------------------------------------
(* The signing key *)

FirstKey == CHOOSE k \in DOMAIN keys : \A j \in DOMAIN keys : k <= j
(* ActiveSigningKey: WHERE active = 1 ORDER BY id DESC LIMIT 1 *)
ActiveSigningKey ==
    CHOOSE k \in DOMAIN keys : keys[k] /\ \A j \in DOMAIN keys : keys[j] => j <= k

(* The server starts: EnsureSigningKey, and a Signer for its whole life. *)
Serve ==
    /\ signer = 0
    /\ \/ /\ \E k \in DOMAIN keys : keys[k]
          /\ signer' = ActiveSigningKey /\ UNCHANGED keys
       \/ /\ \A k \in DOMAIN keys : ~keys[k]
          /\ Len(keys) < MaxKeys
          /\ keys' = Append(keys, TRUE) /\ signer' = Len(keys')
    /\ atStart' = Len(keys')
    /\ UNCHANGED <<sse, now, queryVars>>

Stop ==
    /\ signer # 0 /\ signer' = 0
    /\ UNCHANGED <<keys, atStart, sse, now, queryVars>>

Deactivated == [k \in DOMAIN keys |-> FALSE]

(* rotate-sse-key: the old keys become inactive and one is inserted. *)
RotateSigningKey ==
    /\ Len(keys) < MaxKeys
    /\ keys' = Append(Deactivated, TRUE)
    /\ UNCHANGED <<signer, atStart, sse, now, queryVars>>

(* expiry.Unix() *)
Expiry(t) == (t + 2 * TTL) \div 2

(* expiresAt.Format("2006-01-02T15:04:05Z"): the wall clock of the host, read  *)
(* as UTC for the Z it ends with                                             *)
Announced(t) == Expiry(t) + Zone

(* POST /api/auth/session.  "of" counts the keys of that moment. *)
Generate(t) ==
    /\ signer # 0 /\ sse[t] = None
    /\ sse' = [sse EXCEPT ![t] = [key |-> signer, of |-> Len(keys), issued |-> now,
                                  expires |-> Expiry(now), announced |-> Announced(now)]]
    /\ UNCHANGED <<keys, signer, atStart, now, queryVars>>

AtExpiry(t) == now \div 2 >= sse[t].expires
(* time.Now().Unix() > int64(expirySec) *)
TokenExpired(t) == now \div 2 > sse[t].expires

(* Signer.Validate *)
Accepted(t) ==
    /\ signer # 0 /\ sse[t] # None
    /\ sse[t].key = signer
    /\ ~TokenExpired(t)

Tick ==
    /\ now < MaxNow /\ now' = now + 1
    /\ UNCHANGED <<keys, signer, atStart, sse, queryVars>>

-----------------------------------------------------------------------------
(* The query token *)

(* Nothing is being done with instance i. *)
Quiet(i) == prov[i].stage = "idle" /\ \A c \in Clis : cli[c].id # i

(* An operation on i begins; one that is alone makes up for what came before. *)
Begins(i) == disturbed' = IF Quiet(i) THEN disturbed \ {i} ELSE disturbed \cup {i}

(* What the row of i holds can no longer be presented. *)
Dropped(i) == IF rows[i] = None THEN {} ELSE {rows[i].token}

FromConfig(i) == IF files[i] # None THEN files[i].token ELSE drawn + 1
(* GenerateQueryToken *)
GenerateQueryToken(i) == drawn + 1

(* Provision reserves the row with fresh credentials ... *)
Reserve(i) ==
    /\ prov[i].stage = "idle" /\ Begins(i) /\ rows[i] = None /\ drawn < MaxDrawn
    /\ drawn' = drawn + 1
    /\ rows' = [rows EXCEPT ![i] = [token |-> GenerateQueryToken(i), plane |-> drawn + 1]]
    /\ prov' = [prov EXCEPT ![i] = [stage |-> "inject", token |-> GenerateQueryToken(i)]]
    /\ UNCHANGED <<keyVars, files, cli, dead>>

OnlyIfMissing(i, new) == IF files[i] # None THEN files[i] ELSE new
(* writeIfChanged, on hermes.env *)
WriteIfChanged(i, new) == new

(* ... writes them into the data directory ... *)
Inject(i) ==
    /\ prov[i].stage = "inject"
    /\ files' = [files EXCEPT ![i] = WriteIfChanged(i,
                    [token |-> prov[i].token, plane |-> prov[i].token])]
    /\ prov' = [prov EXCEPT ![i].stage = "start"]
    /\ UNCHANGED <<keyVars, rows, cli, drawn, dead, disturbed>>

(* ... starts the container, and sets the row to running. *)
Started(i) ==
    /\ prov[i].stage = "start" /\ rows[i] # None
    /\ prov' = [prov EXCEPT ![i] = Provisioned]
    /\ UNCHANGED <<keyVars, rows, files, cli, drawn, dead, disturbed>>

(* The directory is removed, or RemoveAll fails, with the file or without. *)
RemoveAll(i) == files' \in {files, [files EXCEPT ![i] = None]}

(* registry.Delete of the row there is *)
Delete(i) ==
    /\ rows' = [rows EXCEPT ![i] = None]
    /\ dead' = dead \cup Dropped(i)
    /\ UNCHANGED disturbed

(* registry.Delete fails. *)
DeleteFails(i) == disturbed' = disturbed \cup {i} /\ UNCHANGED <<rows, dead>>

(* A step of Provision fails: rollback removes the directory ... *)
ProvisionFails(i) ==
    /\ prov[i].stage \in {"inject", "start"}
    /\ RemoveAll(i)
    /\ prov' = [prov EXCEPT ![i].stage = "rollback"]
    /\ UNCHANGED <<keyVars, rows, cli, drawn, dead, disturbed>>

(* ... and the row, and ignores the errors of both. *)
Rollback(i) ==
    /\ prov[i].stage = "rollback"
    /\ Delete(i) \/ DeleteFails(i)
    /\ prov' = [prov EXCEPT ![i] = Provisioned]
    /\ UNCHANGED <<keyVars, files, cli, drawn>>

(* Destroy finds the row and destroys the container; it takes no lock.  The *)
(* directory is kept unless it is told to remove it.                        *)
Destroy(c, i) ==
    /\ cli[c].stage = "idle" /\ Begins(i) /\ rows[i] # None
    /\ \E st \in {"remove", "delete"} :
          cli' = [cli EXCEPT ![c] = [stage |-> st, id |-> i, token |-> 0]]
    /\ UNCHANGED <<keyVars, rows, files, prov, drawn, dead>>

(* RemoveAll(inst.DataDir): an error ends Destroy, and the row stays. *)
DestroyData(c) ==
    LET i == cli[c].id IN
    /\ cli[c].stage = "remove"
    /\ \/ /\ files' = [files EXCEPT ![i] = None]
          /\ cli' = [cli EXCEPT ![c].stage = "delete"]
          /\ UNCHANGED disturbed
       \/ /\ RemoveAll(i) /\ disturbed' = disturbed \cup {i}
          /\ cli' = [cli EXCEPT ![c] = Exited]
    /\ UNCHANGED <<keyVars, rows, prov, drawn, dead>>

DestroyRow(c) ==
    LET i == cli[c].id IN
    /\ cli[c].stage = "delete"
    /\ Delete(i) \/ DeleteFails(i)
    /\ cli' = [cli EXCEPT ![c] = Exited]
    /\ UNCHANGED <<keyVars, files, prov, drawn>>

(* rotate-query-token finds the instance and draws a token ... *)
RotateGet(c, i) ==
    /\ cli[c].stage = "idle" /\ Begins(i) /\ rows[i] # None /\ drawn < MaxDrawn
    /\ drawn' = drawn + 1
    /\ cli' = [cli EXCEPT ![c] = [stage |-> "update", id |-> i, token |-> drawn + 1]]
    /\ UNCHANGED <<keyVars, rows, files, prov, dead>>

(* ... UpdateQueryToken, ErrNotFound if the row is gone ... *)
UpdateQueryToken(c) ==
    LET i == cli[c].id IN
    /\ cli[c].stage = "update"
    /\ \/ /\ rows[i] # None
          /\ rows' = [rows EXCEPT ![i].token = cli[c].token]
          /\ dead' = dead \cup Dropped(i)
          /\ cli' = [cli EXCEPT ![c].stage = "inject"]
       \/ /\ rows[i] = None
          /\ cli' = [cli EXCEPT ![c] = Exited]
          /\ UNCHANGED <<rows, dead>>
    /\ UNCHANGED <<keyVars, files, prov, drawn, disturbed>>

(* ... and writes the configuration anew, with the operator's secret where *)
(* Provision put the instance's own.  An error leaves the row as it is.    *)
ReInject(c) ==
    LET i == cli[c].id IN
    /\ cli[c].stage = "inject"
    /\ \/ /\ files' = [files EXCEPT ![i] = WriteIfChanged(i,
                       [token |-> cli[c].token, plane |-> AdminSecret])]
          /\ UNCHANGED disturbed
       \/ disturbed' = disturbed \cup {i} /\ UNCHANGED files
    /\ cli' = [cli EXCEPT ![c] = Exited]
    /\ UNCHANGED <<keyVars, rows, prov, drawn, dead>>

(* registry.ValidQueryToken, asked by requireQueryAuth *)
ValidQueryToken(k) == \E i \in Ids : rows[i] # None /\ rows[i].token = k

-----------------------------------------------------------------------------
Next ==
    \/ Serve \/ Stop \/ RotateSigningKey \/ Tick
    \/ \E t \in Tokens : Generate(t)
    \/ \E i \in Ids :
          \/ Reserve(i) \/ Inject(i) \/ Started(i) \/ ProvisionFails(i) \/ Rollback(i)
          \/ \E c \in Clis : RotateGet(c, i) \/ Destroy(c, i)
    \/ \E c \in Clis :
          UpdateQueryToken(c) \/ ReInject(c) \/ DestroyData(c) \/ DestroyRow(c)

Spec == Init /\ [][Next]_vars

-----------------------------------------------------------------------------
(* A server that starts after a rotation accepts no token issued before    *)
(* it: rotate-sse-key and a restart revoke what is outstanding.            *)
RevokedAtRestart ==
    \A t \in Tokens : Accepted(t) => sse[t].of >= atStart

(* A session token is good for session_token_ttl_seconds and for less than *)
(* a second more, although Generate and Validate both cut their clock to    *)
(* seconds; and the expires_at the panel announced is the last second it    *)
(* is good in, by the wall clock of the host, whatever its zone: not by     *)
(* UTC, as the Z of the text has it.                                        *)
SSELifetime ==
    \A t \in Tokens : sse[t] # None /\ sse[t].key = signer =>
        /\ now <= sse[t].issued + 2 * TTL => Accepted(t)
        /\ Accepted(t) => now < sse[t].issued + 2 * TTL + 2
        /\ Accepted(t) <=> now \div 2 + Zone <= sse[t].announced

(* When nothing is under way, the query token in an instance's hermes.env  *)
(* is the one the data plane accepts, so that a restart puts it to use     *)
(* ("Restart the instance for the new token to take effect"): after any    *)
(* operation that was alone and succeeded, whatever went wrong before it.  *)
RestartSuffices ==
    \A i \in Ids \ disturbed : Quiet(i) /\ rows[i] # None =>
        files[i] # None /\ files[i].token = rows[i].token

(* A token that was rotated out, or whose instance was destroyed, is never *)
(* accepted by the data plane again, however rotations, provisioning,      *)
(* rollback and destruction interleave, whatever of them fails and         *)
(* whatever directory is kept.                                             *)
NoRevival == \A k \in dead : ~ValidQueryToken(k)

=============================================================================
