------------------------- MODULE Credentials_proofs -------------------------
(***************************************************************************)
(* Theorems about Credentials, for any instances, command lines, session   *)
(* tokens and lifetime.                                                    *)
(***************************************************************************)
EXTENDS Credentials, SequenceTheorems, TLAPS

-----------------------------------------------------------------------------
(* The signing key: its own steps and the rest, which leaves it alone. *)

KeyType ==
    /\ keys \in Seq(BOOLEAN) /\ Len(keys) <= MaxKeys
    /\ signer \in 0 .. Len(keys) /\ atStart \in 0 .. Len(keys)
    /\ sse \in [Tokens -> {None} \cup [key : 1 .. MaxKeys, of : 1 .. MaxKeys, issued : 0 .. MaxNow,
                                       expires : 0 .. (MaxNow + 2 * TTL) \div 2,
                                       announced : Int]]
    /\ now \in 0 .. MaxNow

(* Only the newest key is active: a rotation deactivates the others, and a
   start inserts one only where none is active. *)
NewestActive == \A k \in 1 .. Len(keys) : keys[k] <=> k = Len(keys)

(* A server holds the newest key of the moment it started, and a token was
   signed with a key that was there when it was issued. *)
HoldsNewest ==
    /\ signer # 0 => signer = atStart
    /\ \A t \in Tokens : sse[t] # None => sse[t].key <= sse[t].of

(* A token carries the expiry of the moment it was issued, the panel announced
   the same in the zone of the host. *)
ExpiryKept ==
    \A t \in Tokens : sse[t] # None =>
        /\ sse[t].expires = Expiry(sse[t].issued)
        /\ sse[t].announced = Expiry(sse[t].issued) + Zone

KeyInv == KeyType /\ NewestActive /\ HoldsNewest /\ ExpiryKept

-----------------------------------------------------------------------------
(* The query token. *)

QueryType ==
    /\ rows \in [Ids -> Secrets \cup {None}] /\ files \in [Ids -> Secrets \cup {None}]
    /\ prov \in [Ids -> [stage : {"idle", "inject", "start", "rollback"}, token : 0 .. MaxDrawn]]
    /\ cli \in [Clis -> [stage : {"idle", "update", "inject", "remove", "delete"},
                         id : Ids \cup {None}, token : 0 .. MaxDrawn]]
    /\ drawn \in 0 .. MaxDrawn /\ dead \subseteq 1 .. MaxDrawn /\ disturbed \subseteq Ids

(* A process that is doing something has an instance and a token for it. *)
Busy ==
    /\ \A i \in Ids : prov[i].stage # "idle" => prov[i].token # 0
    /\ \A c \in Clis : IF cli[c].stage = "idle" THEN cli[c].id = None
                       ELSE /\ cli[c].id \in Ids
                            /\ cli[c].stage \in {"update", "inject"} => cli[c].token # 0

(* No token is held twice, and one that is about to be stored is fresh. *)
TokensDistinct ==
    /\ \A i \in Ids : rows[i] # None => rows[i].token <= drawn /\ rows[i].token \notin dead
    /\ \A i, j \in Ids : rows[i] # None /\ rows[j] # None /\ rows[i].token = rows[j].token => i = j
    /\ \A k \in dead : k <= drawn
    /\ \A c \in Clis : cli[c].stage = "update" =>
          /\ cli[c].token <= drawn /\ cli[c].token \notin dead
          /\ \A i \in Ids : rows[i] # None => rows[i].token # cli[c].token
          /\ \A x \in Clis \ {c} : cli[x].stage = "update" => cli[x].token # cli[c].token

(* An operation that has instance i for itself: how far it is tells what the
   row and the file hold. *)
Alone ==
    \A i \in Ids \ disturbed :
        /\ prov[i].stage # "idle" => \A c \in Clis : cli[c].id # i
        /\ \A c, x \in Clis : cli[c].id = i /\ cli[x].id = i => c = x
        /\ prov[i].stage # "idle" => rows[i] # None /\ rows[i].token = prov[i].token
        /\ prov[i].stage = "start" => files[i] # None /\ files[i].token = prov[i].token
        /\ \A c \in Clis : cli[c].id = i =>
              rows[i] # None /\ (cli[c].stage = "inject" => rows[i].token = cli[c].token)

QueryInv == QueryType /\ Busy /\ TokensDistinct /\ Alone /\ RestartSuffices

-----------------------------------------------------------------------------
(* A step concerns the keys or the query tokens, never both. *)
KeyStep == Serve \/ Stop \/ RotateSigningKey \/ Tick \/ \E t \in Tokens : Generate(t)
QueryStep ==
    \/ \E i \in Ids :
          \/ Reserve(i) \/ Inject(i) \/ Started(i) \/ ProvisionFails(i) \/ Rollback(i)
          \/ \E c \in Clis : RotateGet(c, i) \/ Destroy(c, i)
    \/ \E c \in Clis :
          UpdateQueryToken(c) \/ ReInject(c) \/ DestroyData(c) \/ DestroyRow(c)

(* A step is about signing keys or about query tokens, never about both. *)
LEMMA StepsApart ==
    ASSUME [Next]_vars
    PROVE  \/ KeyStep /\ UNCHANGED queryVars
           \/ QueryStep /\ UNCHANGED keyVars
           \/ UNCHANGED keyVars /\ UNCHANGED queryVars
<1>1. CASE UNCHANGED vars
  BY <1>1 DEF vars
<1>2. KeyStep => UNCHANGED queryVars
  BY DEF KeyStep, Serve, Stop, RotateSigningKey, Tick, Generate
<1>3. QueryStep => UNCHANGED keyVars
  BY DEF QueryStep, Reserve, Inject, Started, ProvisionFails, Rollback, Destroy,
     DestroyData, DestroyRow, RotateGet, UpdateQueryToken, ReInject
<1>4. Next => KeyStep \/ QueryStep
  BY DEF Next, KeyStep, QueryStep
<1>5. QED
  BY <1>1, <1>2, <1>3, <1>4

-----------------------------------------------------------------------------
(* Keys *)

(* The table after a key was added to one whose keys are all inactive. *)
LEMMA AddKey ==
    ASSUME NEW old \in Seq(BOOLEAN), \A k \in 1 .. Len(old) : ~old[k]
    PROVE  /\ Append(old, TRUE) \in Seq(BOOLEAN)
           /\ Len(Append(old, TRUE)) = Len(old) + 1
           /\ \A k \in 1 .. Len(old) + 1 : Append(old, TRUE)[k] <=> k = Len(old) + 1
<1>1. /\ Append(old, TRUE) \in Seq(BOOLEAN)
      /\ Len(Append(old, TRUE)) = Len(old) + 1
      /\ \A k \in 1 .. Len(old) : Append(old, TRUE)[k] = old[k]
      /\ Append(old, TRUE)[Len(old) + 1] = TRUE
  OBVIOUS
<1>2. QED
  BY <1>1, Len(old) \in Nat

(* A rotation that deactivates every key leaves none active. *)
LEMMA AllInactive ==
    ASSUME NEW old \in Seq(BOOLEAN)
    PROVE  /\ [k \in DOMAIN old |-> FALSE] \in Seq(BOOLEAN)
           /\ Len([k \in DOMAIN old |-> FALSE]) = Len(old)
<1>1. Len(old) \in Nat /\ DOMAIN old = 1 .. Len(old)
  OBVIOUS
<1>2. [k \in 1 .. Len(old) |-> FALSE] \in [1 .. Len(old) -> BOOLEAN]
  OBVIOUS
<1>3. QED
  BY <1>1, <1>2, SeqDef

(* Serve finds the newest key: the active one, or the one it inserts. *)
LEMMA ServeNewest ==
    ASSUME KeyInv, Serve
    PROVE  /\ keys' \in Seq(BOOLEAN) /\ Len(keys') <= MaxKeys /\ NewestActive'
           /\ Len(keys') \in Nat \ {0}
           /\ signer' = Len(keys') /\ atStart' = Len(keys')
<1> USE CredentialsAssumption DEF KeyInv, KeyType
<1>1. CASE \E k \in DOMAIN keys : keys[k]
  <2>1. PICK k \in 1 .. Len(keys) : keys[k]
    BY <1>1
  <2>2. k = Len(keys)
    BY <2>1 DEF NewestActive
  <2>3. ActiveSigningKey = Len(keys)
    BY <2>1, <2>2 DEF NewestActive, ActiveSigningKey
  <2>4. keys' = keys /\ signer' = ActiveSigningKey /\ atStart' = Len(keys')
    BY <1>1 DEF Serve
  <2>5. QED
    BY <2>2, <2>3, <2>4 DEF NewestActive
<1>2. CASE \A k \in DOMAIN keys : ~keys[k]
  <2>1. keys' = Append(keys, TRUE) /\ signer' = Len(keys') /\ atStart' = Len(keys') /\ Len(keys) < MaxKeys
    BY <1>2 DEF Serve
  <2>2. /\ keys' \in Seq(BOOLEAN) /\ Len(keys') = Len(keys) + 1
        /\ \A k \in 1 .. Len(keys) + 1 : keys'[k] <=> k = Len(keys) + 1
    BY <1>2, <2>1, AddKey
  <2>3. QED
    BY <2>1, <2>2 DEF NewestActive
<1>3. QED
  BY <1>1, <1>2

(* Every action keeps the key part of the invariant. *)
LEMMA KeyStepInv ==
    ASSUME KeyInv, [Next]_vars
    PROVE  KeyInv'
<1> USE CredentialsAssumption
<1>1. CASE Serve
  <2>1. UNCHANGED <<sse, now>>
    BY <1>1 DEF Serve
  <2>2. QED
    BY <1>1, <2>1, ServeNewest DEF KeyInv, KeyType, HoldsNewest, ExpiryKept, Expiry
<1>2. CASE Stop
  BY <1>2 DEF Stop, KeyInv, KeyType, NewestActive, HoldsNewest, ExpiryKept, Expiry
<1>3. CASE RotateSigningKey
  <2>1. /\ Deactivated \in Seq(BOOLEAN) /\ Len(Deactivated) = Len(keys)
        /\ \A k \in 1 .. Len(keys) : ~Deactivated[k]
    BY AllInactive DEF KeyInv, KeyType, Deactivated
  <2>2. keys' = Append(Deactivated, TRUE) /\ Len(keys) < MaxKeys /\ UNCHANGED <<signer, atStart, sse, now>>
    BY <1>3 DEF RotateSigningKey
  <2>3. /\ keys' \in Seq(BOOLEAN) /\ Len(keys') = Len(keys) + 1
        /\ \A k \in 1 .. Len(keys) + 1 : keys'[k] <=> k = Len(keys) + 1
    BY <2>1, <2>2, AddKey
  <2>4. NewestActive'
    BY <2>3 DEF NewestActive
  <2>5. Len(keys) \in Nat
    BY DEF KeyInv, KeyType
  <2>6. QED
    BY <2>2, <2>3, <2>4, <2>5 DEF KeyInv, KeyType, HoldsNewest, ExpiryKept, Expiry
<1>4. CASE Tick
  BY <1>4 DEF Tick, KeyInv, KeyType, NewestActive, HoldsNewest, ExpiryKept, Expiry
<1>5. ASSUME NEW t \in Tokens, Generate(t)
      PROVE  KeyInv'
  <2>1. /\ UNCHANGED <<keys, signer, atStart, now>>
        /\ sse' = [sse EXCEPT ![t] = [key |-> signer, of |-> Len(keys), issued |-> now,
                                      expires |-> Expiry(now), announced |-> Expiry(now) + Zone]]
        /\ signer # 0
    BY <1>5 DEF Generate, Announced
  <2>2. /\ signer \in 1 .. MaxKeys /\ Len(keys) \in 1 .. MaxKeys /\ signer <= Len(keys)
        /\ now \in 0 .. MaxNow
    BY <2>1 DEF KeyInv, KeyType
  <2>3. Expiry(now) \in 0 .. (MaxNow + 2 * TTL) \div 2 /\ Expiry(now) + Zone \in Int
    BY <2>2 DEF Expiry
  <2>4. KeyType'
    BY <2>1, <2>2, <2>3 DEF KeyInv, KeyType
  <2>5. NewestActive'
    BY <2>1 DEF KeyInv, NewestActive
  <2>6. HoldsNewest'
    BY <2>1, <2>2 DEF KeyInv, KeyType, HoldsNewest
  <2>7. ExpiryKept'
    BY <2>1 DEF KeyInv, KeyType, ExpiryKept, Expiry
  <2>8. QED
    BY <2>4, <2>5, <2>6, <2>7 DEF KeyInv
<1>6. CASE UNCHANGED keyVars
  BY <1>6 DEF keyVars, KeyInv, KeyType, NewestActive, HoldsNewest, ExpiryKept, Expiry
<1>7. QED
  BY <1>1, <1>2, <1>3, <1>4, <1>5, <1>6, StepsApart DEF KeyStep

(* What holds of keys and session tokens in every reachable state. *)
LEMMA KeyInvariant == Spec => []KeyInv
<1>1. Init => KeyInv
  BY CredentialsAssumption DEF Init, KeyInv, KeyType, NewestActive, HoldsNewest, ExpiryKept
<1>2. QED
  BY <1>1, KeyStepInv, PTL DEF Spec

(* rotate-sse-key and a restart revoke what is outstanding: the server that
   starts holds the newest key, and an older token was signed with another. *)
THEOREM RotationRevokes == Spec => []RevokedAtRestart
<1>1. KeyInv => RevokedAtRestart
  BY CredentialsAssumption DEF KeyInv, KeyType, HoldsNewest, RevokedAtRestart, Accepted
<1>2. QED
  BY <1>1, KeyInvariant, PTL

(* A session token is accepted to the end of session_token_ttl_seconds, and
   for less than a second more, although Generate and Validate both cut their
   clock to seconds; the expires_at announced is the last such second in the
   zone of the host, for every zone and lifetime. *)
THEOREM TokenLifetime == Spec => []SSELifetime
<1>1. KeyInv => SSELifetime
  <2> SUFFICES ASSUME KeyInv, NEW t \in Tokens, sse[t] # None, sse[t].key = signer
               PROVE  /\ now <= sse[t].issued + 2 * TTL => Accepted(t)
                      /\ Accepted(t) => now < sse[t].issued + 2 * TTL + 2
                      /\ Accepted(t) <=> now \div 2 + Zone <= sse[t].announced
    BY DEF SSELifetime
  <2>1. /\ signer # 0 /\ now \in Nat /\ sse[t].issued \in Nat
        /\ sse[t].expires = (sse[t].issued + 2 * TTL) \div 2
        /\ sse[t].announced = sse[t].expires + Zone
    <3>1. signer # 0 /\ now \in Nat /\ sse[t].issued \in Nat
      BY CredentialsAssumption DEF KeyInv, KeyType
    <3>2. /\ sse[t].expires = Expiry(sse[t].issued)
          /\ sse[t].announced = Expiry(sse[t].issued) + Zone
      BY DEF KeyInv, ExpiryKept
    <3>3. QED
      BY <3>1, <3>2 DEF Expiry
  <2>2. QED
    <3>1. now \div 2 \in Nat /\ sse[t].expires \in Nat /\ 2 * TTL \in Nat /\ Zone \in Int
      BY <2>1, CredentialsAssumption
    <3>2. Accepted(t) <=> now \div 2 <= sse[t].expires
      BY <2>1, <3>1 DEF Accepted, TokenExpired
    <3> DEFINE e == sse[t].issued + 2 * TTL
    <3>3. e \in Nat /\ (now <= e => now \div 2 <= e \div 2) /\ (now \div 2 <= e \div 2 => now < e + 2)
      BY <2>1, <3>1
    <3>4. now \div 2 <= sse[t].expires <=> now \div 2 + Zone <= sse[t].announced
      BY <2>1, <3>1
    <3> HIDE DEF e
    <3>5. QED
      BY <2>1, <3>2, <3>3, <3>4 DEF e
<1>2. QED
  BY <1>1, KeyInvariant, PTL

-----------------------------------------------------------------------------
(* Query tokens *)

(* Tokens given up are tokens. *)
LEMMA DroppedType ==
    ASSUME QueryType, NEW i \in Ids
    PROVE  Dropped(i) \subseteq 1 .. MaxDrawn
BY DEF QueryType, Dropped, Secrets

(* A process that ends has no instance any more. *)
LEMMA ExitEffect ==
    ASSUME QueryType, NEW c \in Clis, cli' = [cli EXCEPT ![c] = Exited]
    PROVE  /\ cli' \in [Clis -> [stage : {"idle", "update", "inject", "remove", "delete"},
                                id : Ids \cup {None}, token : 0 .. MaxDrawn]]
           /\ cli'[c].stage = "idle" /\ cli'[c].id = None
           /\ \A x \in Clis : x # c => cli'[x] = cli[x]
<1>1. Exited \in [stage : {"idle", "update", "inject", "remove", "delete"},
                  id : Ids \cup {None}, token : 0 .. MaxDrawn]
  BY CredentialsAssumption DEF Exited
<1>2. Exited.stage = "idle" /\ Exited.id = None
  BY DEF Exited
<1>3. QED
  BY <1>1, <1>2 DEF QueryType

(* The row is deleted and its token given up, or it stays and the instance is
   marked. *)
LEMMA DeleteEffect ==
    ASSUME QueryType, NEW i \in Ids, Delete(i) \/ DeleteFails(i)
    PROVE  /\ rows' \in [Ids -> Secrets \cup {None}]
           /\ dead' \subseteq 1 .. MaxDrawn /\ disturbed' \subseteq Ids
           /\ \A j \in Ids : j # i => rows'[j] = rows[j]
           /\ \/ rows'[i] = None /\ dead' = dead \cup Dropped(i) /\ disturbed' = disturbed
              \/ rows' = rows /\ dead' = dead /\ disturbed' = disturbed \cup {i}
<1>1. CASE Delete(i)
  BY <1>1, DroppedType DEF QueryType, Delete
<1>2. CASE DeleteFails(i)
  BY <1>2 DEF QueryType, DeleteFails
<1>3. QED
  BY <1>1, <1>2

(* Every action keeps the types of rows, files and processes. *)
LEMMA QueryTypeStep ==
    ASSUME QueryType, Busy, [Next]_vars
    PROVE  QueryType' /\ Busy'
<1> USE CredentialsAssumption, NoneAssumption DEF QueryType, Busy
<1>1. ASSUME NEW i \in Ids, Reserve(i)
      PROVE  QueryType' /\ Busy'
  BY <1>1 DEF Reserve, GenerateQueryToken, Begins, Secrets
<1>2. ASSUME NEW i \in Ids, Inject(i)
      PROVE  QueryType' /\ Busy'
  BY <1>2 DEF Inject, WriteIfChanged, Secrets
<1>3. ASSUME NEW i \in Ids, Started(i)
      PROVE  QueryType' /\ Busy'
  BY <1>3 DEF Started, Provisioned
<1>4. ASSUME NEW i \in Ids, ProvisionFails(i)
      PROVE  QueryType' /\ Busy'
  BY <1>4 DEF ProvisionFails, RemoveAll
<1>5. ASSUME NEW i \in Ids, Rollback(i)
      PROVE  QueryType' /\ Busy'
  <2>1. /\ prov' = [prov EXCEPT ![i] = [stage |-> "idle", token |-> 0]]
        /\ Delete(i) \/ DeleteFails(i)
        /\ UNCHANGED <<files, cli, drawn>>
    BY <1>5 DEF Rollback, Provisioned
  <2>2. QED
    BY <2>1, DeleteEffect
<1>6. ASSUME NEW c \in Clis, NEW i \in Ids, Destroy(c, i)
      PROVE  QueryType' /\ Busy'
  BY <1>6 DEF Destroy, Begins
<1>7. ASSUME NEW c \in Clis, DestroyData(c)
      PROVE  QueryType' /\ Busy'
  <2>1. /\ cli[c].id \in Ids
        /\ files' \in [Ids -> Secrets \cup {None}] /\ disturbed' \subseteq Ids
        /\ UNCHANGED <<rows, prov, drawn, dead>>
    BY <1>7 DEF DestroyData, RemoveAll
  <2>2. CASE cli' = [cli EXCEPT ![c].stage = "delete"]
    <3>1. /\ cli'[c].stage = "delete" /\ cli'[c].id = cli[c].id
          /\ \A x \in Clis : x # c => cli'[x] = cli[x]
      BY <2>2
    <3>2. cli' \in [Clis -> [stage : {"idle", "update", "inject", "remove", "delete"},
                             id : Ids \cup {None}, token : 0 .. MaxDrawn]]
      BY <2>2
    <3>3. QED
      BY <2>1, <3>1, <3>2
  <2>3. CASE cli' = [cli EXCEPT ![c] = Exited]
    BY <2>1, <2>3, ExitEffect
  <2>4. QED
    BY <1>7, <2>2, <2>3 DEF DestroyData
<1>8. ASSUME NEW c \in Clis, DestroyRow(c)
      PROVE  QueryType' /\ Busy'
  <2>1. /\ cli[c].id \in Ids /\ (Delete(cli[c].id) \/ DeleteFails(cli[c].id))
        /\ cli' = [cli EXCEPT ![c] = Exited]
        /\ UNCHANGED <<files, prov, drawn>>
    BY <1>8 DEF DestroyRow
  <2>2. rows' \in [Ids -> Secrets \cup {None}] /\ dead' \subseteq 1 .. MaxDrawn /\ disturbed' \subseteq Ids
    BY <2>1, DeleteEffect
  <2>3. /\ cli' \in [Clis -> [stage : {"idle", "update", "inject", "remove", "delete"},
                              id : Ids \cup {None}, token : 0 .. MaxDrawn]]
        /\ cli'[c].stage = "idle" /\ cli'[c].id = None
        /\ \A x \in Clis : x # c => cli'[x] = cli[x]
    BY <2>1, ExitEffect
  <2>4. QED
    BY <2>1, <2>2, <2>3
<1>9. ASSUME NEW i \in Ids, NEW c \in Clis, RotateGet(c, i)
      PROVE  QueryType' /\ Busy'
  BY <1>9 DEF RotateGet, Begins
<1>10. ASSUME NEW c \in Clis, UpdateQueryToken(c)
      PROVE  QueryType' /\ Busy'
  <2> DEFINE i == cli[c].id
  <2>1. i \in Ids /\ cli[c].token \in 1 .. MaxDrawn
    BY <1>10 DEF UpdateQueryToken
  <2>2. CASE rows[i] # None
    <3>1. /\ rows' = [rows EXCEPT ![i].token = cli[c].token]
          /\ dead' = dead \cup {rows[i].token}
          /\ cli' = [cli EXCEPT ![c].stage = "inject"]
          /\ UNCHANGED <<files, prov, drawn, disturbed>>
      BY <1>10, <2>2 DEF UpdateQueryToken, Dropped
    <3>2. rows[i] \in Secrets
      BY <2>1, <2>2
    <3>3. rows' \in [Ids -> Secrets \cup {None}]
      BY <2>1, <3>1, <3>2 DEF Secrets
    <3>4. dead' \subseteq 1 .. MaxDrawn
      BY <3>1, <3>2 DEF Secrets
    <3>5. QED
      BY <2>1, <3>1, <3>3, <3>4
  <2>3. CASE rows[i] = None
    BY <1>10, <2>3, ExitEffect DEF UpdateQueryToken
  <2>4. QED
    BY <2>2, <2>3
<1>11. ASSUME NEW c \in Clis, ReInject(c)
      PROVE  QueryType' /\ Busy'
  <2> DEFINE i == cli[c].id
  <2>1. i \in Ids /\ cli[c].token \in 1 .. MaxDrawn
    BY <1>11 DEF ReInject
  <2>2. /\ files' \in {files, [files EXCEPT ![i] = [token |-> cli[c].token, plane |-> 0]]}
        /\ disturbed' \in {disturbed, disturbed \cup {i}}
        /\ cli' = [cli EXCEPT ![c] = [stage |-> "idle", id |-> None, token |-> 0]]
        /\ UNCHANGED <<rows, prov, drawn, dead>>
    BY <1>11 DEF ReInject, WriteIfChanged, AdminSecret, Exited
  <2>3. files' \in [Ids -> Secrets \cup {None}]
    BY <2>1, <2>2 DEF Secrets
  <2>4. QED
    BY <2>1, <2>2, <2>3
<1>12. CASE UNCHANGED queryVars
  BY <1>12 DEF queryVars
<1> HIDE DEF QueryType, Busy
<1>13. QED
  BY <1>1, <1>2, <1>3, <1>4, <1>5, <1>6, <1>7, <1>8, <1>9, <1>10, <1>11, <1>12,
     StepsApart DEF QueryStep

(* A step that stores and drops no token, and begins to store none. *)
LEMMA TokensKept ==
    ASSUME TokensDistinct, UNCHANGED <<rows, drawn, dead>>,
           \A x \in Clis : cli'[x].stage = "update" =>
               cli[x].stage = "update" /\ cli'[x].token = cli[x].token
    PROVE  TokensDistinct'
<1>1. ASSUME NEW c \in Clis, cli'[c].stage = "update"
      PROVE  /\ cli'[c].token <= drawn /\ cli'[c].token \notin dead
             /\ \A i \in Ids : rows[i] # None => rows[i].token # cli'[c].token
             /\ \A x \in Clis \ {c} : cli'[x].stage = "update" => cli'[x].token # cli'[c].token
  BY <1>1 DEF TokensDistinct
<1>2. QED
  BY <1>1 DEF TokensDistinct

(* A token is drawn once: no two calls hold the same one. *)
LEMMA TokensDistinctStep ==
    ASSUME QueryType, Busy, TokensDistinct, [Next]_vars
    PROVE  TokensDistinct'
<1> USE CredentialsAssumption, NoneAssumption DEF QueryType, Busy, TokensDistinct, Secrets
<1>1. ASSUME NEW i \in Ids, Reserve(i)
      PROVE  TokensDistinct'
  BY <1>1 DEF Reserve, GenerateQueryToken
<1>2. ASSUME NEW i \in Ids, Inject(i)
      PROVE  TokensDistinct'
  BY <1>2, TokensKept DEF Inject
<1>3. ASSUME NEW i \in Ids, Started(i)
      PROVE  TokensDistinct'
  BY <1>3, TokensKept DEF Started
<1>4. ASSUME NEW i \in Ids, ProvisionFails(i)
      PROVE  TokensDistinct'
  BY <1>4, TokensKept DEF ProvisionFails
<1>5. ASSUME NEW i \in Ids, Rollback(i)
      PROVE  TokensDistinct'
  <2>1. drawn' = drawn /\ cli' = cli
    BY <1>5 DEF Rollback
  <2>2. /\ \A j \in Ids : rows'[j] # None => rows'[j] = rows[j]
        /\ \/ rows'[i] = None /\ dead' = dead \cup Dropped(i)
           \/ dead' = dead
    BY <1>5, DeleteEffect DEF Rollback
  <2>3. \A k \in dead' : k \in dead \/ (rows'[i] = None /\ rows[i] # None /\ k = rows[i].token)
    BY <2>2 DEF Dropped
  <2>4. \A j \in Ids : rows'[j] # None => rows'[j].token <= drawn /\ rows'[j].token \notin dead'
    BY <2>2, <2>3
  <2>5. \A k \in dead' : k <= drawn
    <3>1. rows[i] # None => rows[i].token <= drawn
      OBVIOUS
    <3>2. QED
      BY <2>3, <3>1
  <2>6. \A x \in Clis : cli[x].stage = "update" => cli[x].token \notin dead'
    BY <2>3
  <2>7. QED
    BY <2>1, <2>2, <2>4, <2>5, <2>6
<1>6. ASSUME NEW c \in Clis, NEW i \in Ids, Destroy(c, i)
      PROVE  TokensDistinct'
  <2>1. UNCHANGED <<rows, drawn, dead>>
    BY <1>6 DEF Destroy
  <2>2. \A x \in Clis : cli'[x].stage = "update" => cli'[x] = cli[x]
    BY <1>6 DEF Destroy
  <2>3. QED
    BY <2>1, <2>2, TokensKept
<1>7. ASSUME NEW c \in Clis, DestroyData(c)
      PROVE  TokensDistinct'
  <2>1. /\ UNCHANGED <<rows, drawn, dead>>
        /\ \A x \in Clis : cli'[x].stage = "update" => cli'[x] = cli[x]
    BY <1>7, ExitEffect DEF DestroyData
  <2>2. QED
    BY <2>1, TokensKept
<1>8. ASSUME NEW c \in Clis, DestroyRow(c)
      PROVE  TokensDistinct'
  <2>1. /\ cli[c].id \in Ids /\ drawn' = drawn
        /\ \A x \in Clis : cli'[x].stage = "update" => cli'[x] = cli[x]
    BY <1>8, ExitEffect DEF DestroyRow
  <2> DEFINE i == cli[c].id
  <2>2. /\ \A j \in Ids : rows'[j] # None => rows'[j] = rows[j]
        /\ \/ rows'[i] = None /\ dead' = dead \cup Dropped(i)
           \/ dead' = dead
        /\ \A j \in Ids : j # i => rows'[j] = rows[j]
    BY <1>8, <2>1, DeleteEffect DEF DestroyRow
  <2>3. \A k \in dead' : k \in dead \/ (rows'[i] = None /\ rows[i] # None /\ k = rows[i].token)
    BY <2>2 DEF Dropped
  <2> HIDE DEF i
  <2>4. \A j \in Ids : rows'[j] # None => rows'[j].token <= drawn /\ rows'[j].token \notin dead'
    BY <2>1, <2>2, <2>3 DEF i
  <2>5. \A k \in dead' : k <= drawn
    <3>1. rows[i] # None => rows[i].token <= drawn
      BY <2>1 DEF i
    <3>2. QED
      BY <2>3, <3>1
  <2>6. \A x \in Clis : cli'[x].stage = "update" =>
            cli[x].stage = "update" /\ cli[x].token \notin dead'
    BY <2>1, <2>3 DEF i
  <2>7. QED
    BY <2>1, <2>2, <2>4, <2>5, <2>6
<1>9. ASSUME NEW i \in Ids, NEW c \in Clis, RotateGet(c, i)
      PROVE  TokensDistinct'
  BY <1>9 DEF RotateGet
<1>10. ASSUME NEW c \in Clis, UpdateQueryToken(c)
      PROVE  TokensDistinct'
  <2> DEFINE i == cli[c].id
  <2>1. i \in Ids /\ cli[c].token \in 1 .. MaxDrawn /\ cli[c].stage = "update"
    BY <1>10 DEF UpdateQueryToken
  <2>2. CASE rows[i] # None
    <3>1. /\ rows' = [rows EXCEPT ![i].token = cli[c].token]
          /\ dead' = dead \cup {rows[i].token}
          /\ cli' = [cli EXCEPT ![c].stage = "inject"]
          /\ drawn' = drawn
      BY <1>10, <2>2 DEF UpdateQueryToken, Dropped
    <3>2. rows[i] \in Secrets
      BY <2>1, <2>2
    <3>3. /\ \A j \in Ids \ {i} : rows'[j] = rows[j]
          /\ rows'[i].token = cli[c].token
      BY <2>1, <3>1, <3>2
    <3>4. /\ \A x \in Clis : cli'[x].token = cli[x].token
          /\ \A x \in Clis : cli'[x].stage = "update" => cli[x].stage = "update" /\ x # c
      BY <3>1
    <3>5. /\ cli[c].token <= drawn /\ cli[c].token \notin dead'
          /\ \A j \in Ids : rows[j] # None => rows[j].token # cli[c].token
      BY <2>1, <2>2, <3>1
    <3>6. \A j \in Ids : rows'[j] # None => rows'[j].token <= drawn' /\ rows'[j].token \notin dead'
      <4> SUFFICES ASSUME NEW j \in Ids, rows'[j] # None
                   PROVE  rows'[j].token <= drawn' /\ rows'[j].token \notin dead'
        OBVIOUS
      <4>1. CASE j = i
        BY <3>1, <3>3, <3>5, <4>1
      <4>2. CASE j # i
        BY <2>1, <2>2, <3>1, <3>3, <4>2
      <4>3. QED
        BY <4>1, <4>2
    <3>7. \A j, k \in Ids :
              rows'[j] # None /\ rows'[k] # None /\ rows'[j].token = rows'[k].token => j = k
      BY <2>1, <3>3, <3>5
    <3>8. \A k \in dead' : k <= drawn'
      BY <2>1, <2>2, <3>1
    <3>9. ASSUME NEW x \in Clis, cli'[x].stage = "update"
          PROVE  /\ cli'[x].token <= drawn' /\ cli'[x].token \notin dead'
                 /\ \A j \in Ids : rows'[j] # None => rows'[j].token # cli'[x].token
                 /\ \A y \in Clis \ {x} : cli'[y].stage = "update" => cli'[y].token # cli'[x].token
      <4>1. cli[x].stage = "update" /\ x # c /\ cli'[x].token = cli[x].token
        BY <3>4, <3>9
      <4>2. cli'[x].token <= drawn' /\ cli'[x].token \notin dead'
        BY <2>1, <2>2, <3>1, <4>1
      <4>3. \A j \in Ids : rows'[j] # None => rows'[j].token # cli'[x].token
        BY <2>1, <3>3, <4>1
      <4>4. \A y \in Clis \ {x} : cli'[y].stage = "update" => cli'[y].token # cli'[x].token
        BY <3>4, <4>1
      <4>5. QED
        BY <4>2, <4>3, <4>4
    <3> HIDE DEF i
    <3>10. QED
      BY <3>6, <3>7, <3>8, <3>9
  <2>3. CASE rows[i] = None
    <3>1. UNCHANGED <<rows, drawn, dead>> /\ cli' = [cli EXCEPT ![c] = Exited]
      BY <1>10, <2>3 DEF UpdateQueryToken
    <3>2. \A x \in Clis : cli'[x].stage = "update" => cli'[x] = cli[x]
      BY <3>1, ExitEffect
    <3>3. QED
      BY <3>1, <3>2, TokensKept
  <2>4. QED
    BY <2>2, <2>3
<1>11. ASSUME NEW c \in Clis, ReInject(c)
      PROVE  TokensDistinct'
  <2>1. UNCHANGED <<rows, drawn, dead>> /\ cli' = [cli EXCEPT ![c] = Exited]
    BY <1>11 DEF ReInject
  <2>2. \A x \in Clis : cli'[x].stage = "update" => cli'[x] = cli[x]
    BY <2>1, ExitEffect
  <2>3. QED
    BY <2>1, <2>2, TokensKept
<1>12. CASE UNCHANGED queryVars
  BY <1>12, TokensKept DEF queryVars
<1> HIDE DEF QueryType, Busy, TokensDistinct
<1>13. QED
  BY <1>1, <1>2, <1>3, <1>4, <1>5, <1>6, <1>7, <1>8, <1>9, <1>10, <1>11, <1>12,
     StepsApart DEF QueryStep

(* Every action keeps what an operation that was alone knows. *)
LEMMA AloneStep ==
    ASSUME QueryType, Busy, Alone, [Next]_vars
    PROVE  Alone'
<1> USE CredentialsAssumption, NoneAssumption DEF QueryType, Busy, Alone, Secrets
<1>1. ASSUME NEW i \in Ids, Reserve(i)
      PROVE  Alone'
  BY <1>1 DEF Reserve, GenerateQueryToken, Begins, Quiet
<1>2. ASSUME NEW i \in Ids, Inject(i)
      PROVE  Alone'
  BY <1>2 DEF Inject, WriteIfChanged
<1>3. ASSUME NEW i \in Ids, Started(i)
      PROVE  Alone'
  BY <1>3 DEF Started, Provisioned
<1>4. ASSUME NEW i \in Ids, ProvisionFails(i)
      PROVE  Alone'
  BY <1>4 DEF ProvisionFails, RemoveAll
<1>5. ASSUME NEW i \in Ids, Rollback(i)
      PROVE  Alone'
  BY <1>5 DEF Rollback, Delete, DeleteFails, Provisioned
<1>6. ASSUME NEW c \in Clis, NEW i \in Ids, Destroy(c, i)
      PROVE  Alone'
  BY <1>6 DEF Destroy, Begins, Quiet
<1>7. ASSUME NEW c \in Clis, DestroyData(c)
      PROVE  Alone'
  <2> DEFINE i == cli[c].id
  <2>1. /\ i \in Ids /\ cli[c].stage = "remove" /\ UNCHANGED <<rows, prov>>
        /\ \A j \in Ids : j # i => files'[j] = files[j]
    BY <1>7 DEF DestroyData, RemoveAll
  <2>2. CASE cli' = [cli EXCEPT ![c].stage = "delete"] /\ disturbed' = disturbed
    <3>1. /\ cli'[c].id = i /\ cli'[c].stage = "delete"
          /\ \A x \in Clis : x # c => cli'[x] = cli[x]
      BY <2>2
    <3>2. QED
      BY <2>1, <2>2, <3>1
  <2>3. CASE cli' = [cli EXCEPT ![c] = Exited] /\ disturbed' = disturbed \cup {i}
    <3>1. /\ cli'[c].id = None /\ cli'[c].stage = "idle"
          /\ \A x \in Clis : x # c => cli'[x] = cli[x]
      BY <2>3, ExitEffect
    <3>2. QED
      BY <2>1, <2>3, <3>1
  <2>4. QED
    BY <1>7, <2>2, <2>3 DEF DestroyData
<1>8. ASSUME NEW c \in Clis, DestroyRow(c)
      PROVE  Alone'
  BY <1>8 DEF DestroyRow, Delete, DeleteFails, Exited
<1>9. ASSUME NEW i \in Ids, NEW c \in Clis, RotateGet(c, i)
      PROVE  Alone'
  BY <1>9 DEF RotateGet, Begins, Quiet
<1>10. ASSUME NEW c \in Clis, UpdateQueryToken(c)
      PROVE  Alone'
  <2> DEFINE i == cli[c].id
  <2>1. i \in Ids /\ cli[c].stage = "update" /\ UNCHANGED <<files, prov, disturbed>>
    BY <1>10 DEF UpdateQueryToken
  <2>2. CASE rows[i] # None
    <3>1. /\ rows' = [rows EXCEPT ![i].token = cli[c].token]
          /\ cli' = [cli EXCEPT ![c].stage = "inject"]
      BY <1>10, <2>2 DEF UpdateQueryToken
    <3>2. /\ cli'[c].id = i /\ cli'[c].stage = "inject" /\ cli'[c].token = cli[c].token
          /\ \A x \in Clis : x # c => cli'[x] = cli[x]
      BY <3>1
    <3>3. /\ rows'[i] # None /\ rows'[i].token = cli[c].token
          /\ \A j \in Ids : j # i => rows'[j] = rows[j]
      <4>1. rows[i] \in Secrets
        BY <2>1, <2>2
      <4>2. QED
        BY <2>1, <3>1, <4>1
    <3>4. \A x \in Clis : cli'[x].id = cli[x].id
      BY <3>2
    <3>5. cli[c].id = i
      OBVIOUS
    <3> HIDE DEF i
    <3>6. SUFFICES ASSUME NEW j \in Ids \ disturbed
                   PROVE  /\ prov[j].stage # "idle" => \A x \in Clis : cli'[x].id # j
                          /\ \A x, y \in Clis : cli'[x].id = j /\ cli'[y].id = j => x = y
                          /\ prov[j].stage # "idle" => rows'[j] # None /\ rows'[j].token = prov[j].token
                          /\ prov[j].stage = "start" => files[j] # None /\ files[j].token = prov[j].token
                          /\ \A x \in Clis : cli'[x].id = j =>
                                rows'[j] # None /\ (cli'[x].stage = "inject" => rows'[j].token = cli'[x].token)
      BY <2>1
    <3>7. CASE j # i
      BY <3>2, <3>3, <3>4, <3>5, <3>7
    <3>8. CASE j = i
      <4>1. prov[j].stage = "idle" /\ \A x \in Clis : cli[x].id = j => x = c
        BY <3>5, <3>8
      <4>2. QED
        BY <3>2, <3>3, <3>4, <3>8, <4>1
    <3>9. QED
      BY <3>7, <3>8
  <2>3. CASE rows[i] = None
    <3>1. rows' = rows /\ cli' = [cli EXCEPT ![c] = Exited]
      BY <1>10, <2>3 DEF UpdateQueryToken
    <3>2. /\ cli'[c].id = None /\ \A x \in Clis : x # c => cli'[x] = cli[x]
      BY <3>1, ExitEffect
    <3>3. QED
      BY <2>1, <2>3, <3>1, <3>2
  <2>4. QED
    BY <2>2, <2>3
<1>11. ASSUME NEW c \in Clis, ReInject(c)
      PROVE  Alone'
  BY <1>11 DEF ReInject, WriteIfChanged, Exited
<1>12. CASE UNCHANGED queryVars
  BY <1>12 DEF queryVars
<1> HIDE DEF QueryType, Busy, Alone
<1>13. QED
  BY <1>1, <1>2, <1>3, <1>4, <1>5, <1>6, <1>7, <1>8, <1>9, <1>10, <1>11, <1>12,
     StepsApart DEF QueryStep

(* Every action keeps the promise of a restart. *)
LEMMA RestartSufficesStep ==
    ASSUME QueryType, Busy, Alone, RestartSuffices, [Next]_vars
    PROVE  RestartSuffices'
<1> USE CredentialsAssumption, NoneAssumption DEF QueryType, Busy, Alone, RestartSuffices, Quiet, Secrets
<1>1. ASSUME NEW i \in Ids, Reserve(i)
      PROVE  RestartSuffices'
  BY <1>1 DEF Reserve, Begins
<1>2. ASSUME NEW i \in Ids, Inject(i)
      PROVE  RestartSuffices'
  BY <1>2 DEF Inject
<1>3. ASSUME NEW i \in Ids, Started(i)
      PROVE  RestartSuffices'
  BY <1>3 DEF Started, Provisioned
<1>4. ASSUME NEW i \in Ids, ProvisionFails(i)
      PROVE  RestartSuffices'
  BY <1>4 DEF ProvisionFails, RemoveAll
<1>5. ASSUME NEW i \in Ids, Rollback(i)
      PROVE  RestartSuffices'
  BY <1>5 DEF Rollback, Delete, DeleteFails, Provisioned
<1>6. ASSUME NEW c \in Clis, NEW i \in Ids, Destroy(c, i)
      PROVE  RestartSuffices'
  BY <1>6 DEF Destroy, Begins
<1>7. ASSUME NEW c \in Clis, DestroyData(c)
      PROVE  RestartSuffices'
  <2> DEFINE i == cli[c].id
  <2>1. /\ i \in Ids /\ UNCHANGED <<rows, prov>> /\ disturbed \subseteq disturbed'
        /\ \A j \in Ids : j # i => files'[j] = files[j]
    BY <1>7 DEF DestroyData, RemoveAll
  <2>2. \/ cli' = [cli EXCEPT ![c] = Exited] /\ i \in disturbed'
        \/ cli' = [cli EXCEPT ![c].stage = "delete"]
    BY <1>7 DEF DestroyData
  <2>3. \A x \in Clis : x # c => cli'[x] = cli[x]
    BY <2>2
  <2>4. i \in disturbed' \/ cli'[c].id = i
    BY <2>2
  <2>5. cli[c].id = i
    OBVIOUS
  <2> HIDE DEF i
  <2>6. SUFFICES ASSUME NEW j \in Ids \ disturbed', Quiet(j)', rows'[j] # None
                 PROVE  files'[j] # None /\ files'[j].token = rows'[j].token
    BY DEF RestartSuffices
  <2>7. j # i
    BY <2>4, <2>6
  <2>8. Quiet(j) /\ j \notin disturbed
    BY <2>1, <2>3, <2>5, <2>6, <2>7
  <2>9. QED
    BY <2>1, <2>6, <2>7, <2>8
<1>8. ASSUME NEW c \in Clis, DestroyRow(c)
      PROVE  RestartSuffices'
  BY <1>8 DEF DestroyRow, Delete, DeleteFails, Exited
<1>9. ASSUME NEW i \in Ids, NEW c \in Clis, RotateGet(c, i)
      PROVE  RestartSuffices'
  BY <1>9 DEF RotateGet, Begins
<1>10. ASSUME NEW c \in Clis, UpdateQueryToken(c)
      PROVE  RestartSuffices'
  BY <1>10, SMTT(30) DEF UpdateQueryToken, Exited
<1>11. ASSUME NEW c \in Clis, ReInject(c)
      PROVE  RestartSuffices'
  BY <1>11 DEF ReInject, WriteIfChanged, AdminSecret, Exited
<1>12. CASE UNCHANGED queryVars
  BY <1>12 DEF queryVars
<1> HIDE DEF QueryType, Busy, Alone, RestartSuffices, Quiet
<1>13. QED
  BY <1>1, <1>2, <1>3, <1>4, <1>5, <1>6, <1>7, <1>8, <1>9, <1>10, <1>11, <1>12,
     StepsApart DEF QueryStep

(* What holds of query tokens in every reachable state. *)
LEMMA QueryInvariant == Spec => []QueryInv
<1>1. Init => QueryInv
  BY CredentialsAssumption, NoneAssumption
     DEF Init, QueryInv, QueryType, Busy, TokensDistinct, Alone, RestartSuffices, Quiet,
         Provisioned, Exited
<1>2. QueryInv /\ [Next]_vars => QueryInv'
  BY QueryTypeStep, TokensDistinctStep, AloneStep, RestartSufficesStep DEF QueryInv
<1>3. QED
  BY <1>1, <1>2, PTL DEF Spec

(* The variables keep their types; no process works with a token it did not
   draw. *)
THEOREM TypeCorrect == Spec => []TypeOK
<1>1. KeyInv /\ QueryInv => TypeOK
  BY DEF KeyInv, KeyType, QueryInv, QueryType, TypeOK
<1>2. QED
  BY <1>1, KeyInvariant, QueryInvariant, PTL

(* Whatever provisioning, rotation and destruction did before, and whatever of
   it failed, an operation on an instance that was alone and succeeded leaves
   the accepted token in hermes.env: a restart puts it to use. *)
THEOREM RestartPutsTokenToUse == Spec => []RestartSuffices
<1>1. QueryInv => RestartSuffices
  BY DEF QueryInv
<1>2. QED
  BY <1>1, QueryInvariant, PTL

(* A query token that was rotated out or dropped with its instance is never
   accepted again, however rotations by several processes, provisioning, its
   rollback and destruction interleave and fail: every token is stored by one UPDATE or INSERT, and
   the one about to be stored is neither in a row nor dead. *)
THEOREM TokensStayDead == Spec => []NoRevival
<1>1. QueryInv => NoRevival
  BY DEF QueryInv, QueryType, TokensDistinct, NoRevival, ValidQueryToken
<1>2. QED
  BY <1>1, QueryInvariant, PTL

=============================================================================
