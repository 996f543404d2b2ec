-------------------------- MODULE EventLog_proofs --------------------------
(***************************************************************************)
(* Theorems about EventLog: the ring refines EventFeed, a stream repeats   *)
(* nothing and omits nothing, and the webhook gets its burst.              *)
(***************************************************************************)
EXTENDS EventLog, FiniteSetTheorems, SequenceTheorems, WellFoundedInduction, TLAPS

-----------------------------------------------------------------------------
(* Numbers *)

NatLess == {ss \in Nat \X Nat : ss[1] < ss[2]}

(* A nonempty set of natural numbers has a least element: what replaces       *)
(* induction below.                                                           *)
LEMMA LeastNat ==
    ASSUME NEW T, T \subseteq Nat, T # {}
    PROVE  \E x \in T : \A y \in T : x <= y
<1>1. IsWellFoundedOn(NatLess, Nat)
  BY NatLessThanWellFounded DEF OpToRel, NatLess
<1>2. PICK x \in T : \A y \in T : ~ (<<y, x>> \in NatLess)
  BY <1>1, WFMin
<1>3. ASSUME NEW y \in T PROVE x <= y
  <2>1. x \in Nat /\ y \in Nat
    OBVIOUS
  <2>2. y < x => <<y, x>> \in NatLess
    BY <2>1 DEF NatLess
  <2> QED BY <1>2, <2>1, <2>2
<1> QED BY <1>3

(* Indices of the ring: at most one turn past the end. *)
LEMMA Turn ==
    ASSUME NEW C \in Nat \ {0}, NEW x \in Nat
    PROVE  /\ x < C => x % C = x
           /\ C <= x /\ x < 2 * C => x % C = x - C
OBVIOUS

(* A nonempty set of natural numbers with a bound has a greatest element, and *)
(* that is Max.                                                               *)
LEMMA MaxBounds ==
    ASSUME NEW S, S \subseteq Nat, S # {}, NEW b \in Nat, \A x \in S : x <= b
    PROVE  Max(S) \in S /\ \A x \in S : x <= Max(S)
<1> DEFINE T == {n \in Nat : \A x \in S : x <= n}
<1>1. PICK g \in T : \A n \in T : g <= n
  <2>1. T \subseteq Nat /\ b \in T
    OBVIOUS
  <2> HIDE DEF T
  <2> QED BY <2>1, LeastNat
<1>2. g \in S
  <2> SUFFICES ASSUME g \notin S PROVE FALSE
    OBVIOUS
  <2>1. g \in Nat /\ \A x \in S : x \in Nat /\ x < g
    OBVIOUS
  <2>2. PICK x \in S : TRUE
    OBVIOUS
  <2>3. g - 1 \in Nat /\ \A y \in S : y <= g - 1
    BY <2>1, <2>2
  <2>4. g - 1 \in T
    BY <2>3
  <2> QED BY <1>1, <2>1, <2>4
<1>3. \E x \in S : \A y \in S : x >= y
  BY <1>2
<1> QED BY <1>3 DEF Max

-----------------------------------------------------------------------------
(* Sequences *)

(* The entries of a part of a sequence. *)
LEMMA Part ==
    ASSUME NEW S, NEW s \in Seq(S), NEW a \in Int, NEW b \in Int, 1 <= a, a <= b + 1, b <= Len(s)
    PROVE  /\ SubSeq(s, a, b) \in Seq(S) /\ Len(SubSeq(s, a, b)) = b - a + 1
           /\ DOMAIN SubSeq(s, a, b) = 1 .. (b - a + 1)
           /\ \A k \in 1 .. (b - a + 1) : SubSeq(s, a, b)[k] = s[a + k - 1]
OBVIOUS

-----------------------------------------------------------------------------
(* Types *)

(* What a call of Emit that has begun is known to have done *)
Pushed == {"fanout", "hooks", "done", "killed"}

Types ==
    /\ stored \in Seq(Emits) /\ seq \in Nat
    /\ buf \in [Slots -> Events \cup {Empty}]
    /\ pos \in Slots /\ full \in BOOLEAN
    /\ pc \in [Emits -> {"new", "seq", "ring", "fanout", "hooks", "done", "killed"}]
    /\ id \in [Emits -> Nat]
    /\ conn \in [Clients -> {"off", "subscribed", "live"}]
    /\ lastId \in [Clients -> Nat] /\ high \in [Clients -> Nat]
    /\ ch \in [Clients -> Seq(Events)] /\ \A c \in Clients : Len(ch[c]) <= ChanCap
    /\ got \in [Clients -> Seq(Events)]
    /\ seen \in [Clients -> SUBSET Emits] /\ missed \in [Clients -> SUBSET Emits]
    /\ drops \in [Clients -> 0 .. MaxDrops]
    /\ tokens \in 0 .. Burst /\ posted \subseteq Emits /\ since \subseteq Emits /\ credits \in Nat
    /\ restarts \in 0 .. MaxRestarts /\ raced \in BOOLEAN

(* The table has the id of every event in it. *)
StoredOK == \A k \in DOMAIN stored : pc[stored[k]] # "new" /\ id[stored[k]] = k

(* An id names one row of the table. *)
LEMMA RowIds ==
    ASSUME Types, StoredOK
    PROVE  /\ IsInjective(stored)
           /\ DOMAIN stored = 1 .. Len(stored) /\ Len(stored) \in Nat
           /\ \A k \in 1 .. Len(stored) : stored[k] \in Emits /\ IdOf(stored[k]) = k
<1>1. DOMAIN stored = 1 .. Len(stored) /\ Len(stored) \in Nat
      /\ \A k \in 1 .. Len(stored) : stored[k] \in Emits
  BY DEF Types
<1>2. \A k, l \in DOMAIN stored : stored[k] = stored[l] => k = l
  BY DEF StoredOK
<1>3. IsInjective(stored)
  BY <1>2 DEF IsInjective
<1>4. ASSUME NEW k \in 1 .. Len(stored) PROVE IdOf(stored[k]) = k
  BY <1>1, <1>2 DEF IdOf
<1> QED BY <1>1, <1>3, <1>4

(* The fields of an event. *)
LEMMA Fields ==
    /\ \A e \in Events : e.src \in Emits /\ e.id \in Nat /\ e # Empty
    /\ \A m \in Emits : m \in Nat \ {0}
    /\ Emits \subseteq Nat
BY EventLogAssumption DEF Events, Emits, Empty

(* The events of a sequence. *)
LEMMA SeqEvents ==
    ASSUME NEW es \in Seq(Events)
    PROVE  /\ Len(es) \in Nat /\ DOMAIN es = 1 .. Len(es)
           /\ \A k \in 1 .. Len(es) : es[k] \in Events /\ es[k].src \in Emits /\ es[k].id \in Nat
<1>1. Len(es) \in Nat /\ DOMAIN es = 1 .. Len(es) /\ \A k \in 1 .. Len(es) : es[k] \in Events
  OBVIOUS
<1> QED BY <1>1, Fields

(* The event of a call. *)
LEMMA EventOf ==
    ASSUME Types, NEW m \in Emits
    PROVE  Event(m) \in Events /\ Event(m).src = m /\ Event(m).id = id[m]
BY DEF Types, Event, Events

(* The types of one client's part. *)
LEMMA ClientTypes ==
    ASSUME Types, NEW c \in Clients
    PROVE  /\ ch[c] \in Seq(Events) /\ Len(ch[c]) \in Nat /\ DOMAIN ch[c] = 1 .. Len(ch[c])
           /\ lastId[c] \in Nat /\ high[c] \in Nat
           /\ seen[c] \subseteq Emits /\ missed[c] \subseteq Emits
<1>1. ch[c] \in Seq(Events)
  BY DEF Types
<1>2. lastId[c] \in Nat /\ high[c] \in Nat
  BY DEF Types
<1>3. seen[c] \subseteq Emits /\ missed[c] \subseteq Emits
  BY DEF Types
<1> QED BY <1>1, <1>2, <1>3

(* The types of the calls. *)
LEMMA CallTypes ==
    ASSUME Types
    PROVE  /\ id \in [Emits -> Nat]
           /\ pc \in [Emits -> {"new", "seq", "ring", "fanout", "hooks", "done", "killed"}]
BY DEF Types

(* Positions in the ring: the k-th entry when the next one goes to slot p. *)
Where(p, f, k) == IF ~f THEN k - 1
                  ELSE IF p + k - 1 < Capacity THEN p + k - 1 ELSE p + k - 1 - Capacity
At(k) == Where(pos, full, k)

(* The arithmetic of Entry. *)
LEMMA SlotOf ==
    ASSUME NEW p \in Slots, NEW f \in BOOLEAN, NEW n, n = (IF f THEN Capacity ELSE p), NEW k \in 1 .. n
    PROVE  /\ Where(p, f, k) \in Slots /\ (f \/ Where(p, f, k) < p)
           /\ (p - n + k - 1 + Capacity) % Capacity = Where(p, f, k)
<1>1. Capacity \in Nat \ {0} /\ p \in 0 .. Capacity - 1 /\ Slots = 0 .. Capacity - 1
  BY EventLogAssumption DEF Slots
<1>2. n \in 0 .. Capacity
  BY <1>1
<1>3. Where(p, f, k) \in Slots /\ (f \/ Where(p, f, k) < p)
  BY <1>1 DEF Where
<1> DEFINE x == p - n + k - 1 + Capacity
           y == Where(p, f, k)
<1>4. x \in Nat /\ (x = y \/ (x = y + Capacity /\ Capacity <= x /\ x < 2 * Capacity))
  <2>1. CASE ~f
    BY <1>1, <2>1 DEF Where
  <2>2. CASE f /\ p + k - 1 < Capacity
    BY <1>1, <2>2 DEF Where
  <2>3. CASE f /\ ~(p + k - 1 < Capacity)
    BY <1>1, <2>3 DEF Where
  <2> QED BY <1>1, <2>1, <2>2, <2>3
<1>5. y \in 0 .. Capacity - 1
  BY <1>1, <1>3
<1> HIDE DEF x, y
<1>6. (x < Capacity => x % Capacity = x)
      /\ (Capacity <= x /\ x < 2 * Capacity => x % Capacity = x - Capacity)
  BY <1>1, <1>4, Turn
<1>7. x % Capacity = y
  BY <1>1, <1>4, <1>5, <1>6
<1> QED BY <1>3, <1>7 DEF x, y

(* The k-th entry of the ring is in slot At(k). *)
LEMMA Index ==
    ASSUME Types
    PROVE  /\ Size \in 0 .. Capacity
           /\ \A k \in 1 .. Size : At(k) \in Slots /\ Entry(k) = buf[At(k)] /\ (full \/ At(k) < pos)
           /\ \A k, l \in 1 .. Size : At(k) = At(l) => k = l
           /\ \A s \in Slots : full \/ s < pos => \E k \in 1 .. Size : At(k) = s
<1>1. /\ Capacity \in Nat \ {0} /\ pos \in 0 .. Capacity - 1 /\ full \in BOOLEAN
      /\ Size = IF full THEN Capacity ELSE pos
      /\ Slots = 0 .. Capacity - 1
  BY EventLogAssumption DEF Types, Size, Slots
<1>2. Size \in 0 .. Capacity
  BY <1>1
<1>3. ASSUME NEW k \in 1 .. Size
      PROVE  At(k) \in Slots /\ Entry(k) = buf[At(k)] /\ (full \/ At(k) < pos)
  <2>1. /\ Where(pos, full, k) \in Slots /\ (full \/ Where(pos, full, k) < pos)
        /\ (pos - Size + k - 1 + Capacity) % Capacity = Where(pos, full, k)
    <3>1. pos \in Slots /\ full \in BOOLEAN /\ Size = (IF full THEN Capacity ELSE pos)
      BY <1>1
    <3> QED BY <3>1, SlotOf
  <2> QED BY <2>1 DEF At, Entry
<1>4. ASSUME NEW k \in 1 .. Size, NEW l \in 1 .. Size, At(k) = At(l) PROVE k = l
  BY <1>1, <1>4 DEF At, Where
<1>5. ASSUME NEW s \in Slots, full \/ s < pos PROVE \E k \in 1 .. Size : At(k) = s
  <2>1. CASE ~full
    BY <1>1, <1>5, <2>1 DEF At, Where
  <2>2. CASE full /\ s >= pos
    <3>1. s - pos + 1 \in 1 .. Size /\ At(s - pos + 1) = s
      BY <1>1, <2>2 DEF At, Where
    <3> QED BY <3>1
  <2>3. CASE full /\ s < pos
    <3>1. s - pos + 1 + Capacity \in 1 .. Size /\ At(s - pos + 1 + Capacity) = s
      BY <1>1, <2>3 DEF At, Where
    <3> QED BY <3>1
  <2> QED BY <1>1, <2>1, <2>2, <2>3
<1> QED BY <1>2, <1>3, <1>4, <1>5

-----------------------------------------------------------------------------
(* SinceID *)

(* The loop of SinceID has a result after each entry. *)
Loop(f, n, last) ==
    f = [k \in 0 .. n |->
            IF k = 0 THEN << >>
            ELSE IF NewerThan(Contents[k], last) THEN Append(f[k - 1], Contents[k])
            ELSE f[k - 1]]

(* One more entry can always be read. *)
LEMMA LoopExists ==
    ASSUME NEW n \in Nat, NEW last
    PROVE  \E f : Loop(f, n, last)
<1> DEFINE T == {k \in Nat : ~ \E f : Loop(f, k, last)}
<1> SUFFICES ASSUME T # {} PROVE FALSE
  OBVIOUS
<1>1. PICK k \in T : \A l \in T : k <= l
  <2>1. T \subseteq Nat
    OBVIOUS
  <2> HIDE DEF T
  <2> QED BY <2>1, LeastNat
<1>2. k \in Nat /\ ~ \E f : Loop(f, k, last)
  OBVIOUS
<1>3. k # 0
  <2>1. Loop([i \in 0 .. 0 |-> << >>], 0, last)
    BY DEF Loop
  <2> QED BY <1>2, <2>1
<1>4. k - 1 \in Nat /\ k - 1 \notin T
  BY <1>1, <1>2, <1>3
<1>5. PICK f : Loop(f, k - 1, last)
  BY <1>4
<1> DEFINE g == [i \in 0 .. k |->
                   IF i < k THEN f[i]
                   ELSE IF NewerThan(Contents[k], last) THEN Append(f[k - 1], Contents[k])
                   ELSE f[k - 1]]
<1>6. Loop(g, k, last)
  <2>1. f = [i \in 0 .. k - 1 |->
            IF i = 0 THEN << >>
            ELSE IF NewerThan(Contents[i], last) THEN Append(f[i - 1], Contents[i])
            ELSE f[i - 1]]
    BY <1>5 DEF Loop
  <2>2. ASSUME NEW i \in 0 .. k
        PROVE  g[i] = IF i = 0 THEN << >>
                      ELSE IF NewerThan(Contents[i], last) THEN Append(g[i - 1], Contents[i])
                      ELSE g[i - 1]
    <3>1. CASE i = 0
      BY <1>2, <1>3, <2>1, <3>1
    <3>2. CASE i > 0 /\ i < k
      <4>1. i \in 0 .. k - 1 /\ i - 1 \in 0 .. k /\ i - 1 < k /\ i # 0
        BY <1>2, <3>2
      <4>2. g[i] = f[i] /\ g[i - 1] = f[i - 1]
        BY <3>2, <4>1
      <4> HIDE DEF g
      <4> QED BY <2>1, <4>1, <4>2
    <3>3. CASE i = k
      <4>1. k - 1 \in 0 .. k /\ k - 1 < k /\ k \in 0 .. k /\ ~(k < k)
        BY <1>2, <1>3
      <4>2. g[k - 1] = f[k - 1]
        BY <4>1
      <4>3. g[k] = IF NewerThan(Contents[k], last) THEN Append(f[k - 1], Contents[k])
                   ELSE f[k - 1]
        BY <4>1
      <4> HIDE DEF g
      <4> QED BY <1>3, <3>3, <4>2, <4>3
    <3> QED BY <1>2, <3>1, <3>2, <3>3
  <2>3. g = [i \in 0 .. k |-> g[i]]
    OBVIOUS
  <2> HIDE DEF g
  <2> QED BY <2>2, <2>3 DEF Loop
<1> HIDE DEF g
<1> QED BY <1>2, <1>6

(* SinceID is the end of a run of its loop. *)
LEMMA SinceLoop ==
    ASSUME Types, NEW last
    PROVE  \E f : Loop(f, Size, last) /\ SinceID(last) = f[Size]
<1>1. Size \in Nat
  BY Index
<1>2. \E f : Loop(f, Size, last)
  BY <1>1, LoopExists
<1> DEFINE out == CHOOSE f : f = [k \in 0 .. Size |->
            IF k = 0 THEN << >>
            ELSE IF NewerThan(Contents[k], last) THEN Append(f[k - 1], Contents[k])
            ELSE f[k - 1]]
<1>3. Loop(out, Size, last)
  BY <1>2 DEF Loop
<1>4. SinceID(last) = out[Size]
  BY DEF SinceID
<1> HIDE DEF out
<1> QED BY <1>3, <1>4

(* The entries of the ring up to k that are newer than last, in order: w says *)
(* where each one comes from.                                                 *)
Picks(s, w, k, last) ==
    /\ s \in Seq(Events)
    /\ w \in [1 .. Len(s) -> 1 .. k]
    /\ \A i, j \in 1 .. Len(s) : i < j => w[i] < w[j]
    /\ \A i \in 1 .. Len(s) : s[i] = Entry(w[i]) /\ Entry(w[i]).id > last
    /\ \A q \in 1 .. k : Entry(q).id > last => \E i \in 1 .. Len(s) : w[i] = q

(* What SinceID returns: the newer entries, each once and in ring order. *)
LEMMA Since ==
    ASSUME Types, NEW last \in Nat, \A k \in 1 .. Size : Entry(k) \in Events
    PROVE  \E w : Picks(SinceID(last), w, Size, last)
<1>1. Size \in Nat /\ Contents = [k \in 1 .. Size |-> Entry(k)]
  BY Index DEF Contents
<1>2. PICK f : Loop(f, Size, last) /\ SinceID(last) = f[Size]
  BY SinceLoop
<1>3. /\ f[0] = << >>
      /\ \A k \in 1 .. Size : f[k] = IF Entry(k).id > last THEN Append(f[k - 1], Entry(k)) ELSE f[k - 1]
  <2>1. \A k \in 0 .. Size : f[k] = IF k = 0 THEN << >>
            ELSE IF NewerThan(Contents[k], last) THEN Append(f[k - 1], Contents[k])
            ELSE f[k - 1]
    BY <1>2 DEF Loop
  <2>2. f[0] = << >>
    <3>1. 0 \in 0 .. Size
      BY <1>1
    <3> QED BY <2>1, <3>1
  <2>3. ASSUME NEW k \in 1 .. Size
        PROVE  f[k] = IF Entry(k).id > last THEN Append(f[k - 1], Entry(k)) ELSE f[k - 1]
    <3>1. k \in 0 .. Size /\ k # 0 /\ Contents[k] = Entry(k)
      BY <1>1
    <3> QED BY <2>1, <3>1 DEF NewerThan
  <2> QED BY <2>2, <2>3
<1> DEFINE T == {k \in 0 .. Size : ~ \E w : Picks(f[k], w, k, last)}
<1> SUFFICES ASSUME T # {} PROVE FALSE
  BY <1>1, <1>2
<1>4. PICK k \in T : \A l \in T : k <= l
  <2>1. T \subseteq Nat
    BY <1>1
  <2> HIDE DEF T
  <2> QED BY <2>1, LeastNat
<1>5. k \in 0 .. Size /\ ~ \E w : Picks(f[k], w, k, last)
  OBVIOUS
<1>6. k # 0
  <2>1. Picks(<< >>, << >>, 0, last)
    BY DEF Picks
  <2> QED BY <1>3, <1>5, <2>1
<1>7. k \in 1 .. Size /\ k - 1 \in 0 .. Size /\ k - 1 \notin T
  BY <1>1, <1>4, <1>5, <1>6
<1>8. PICK w : Picks(f[k - 1], w, k - 1, last)
  BY <1>7
<1> DEFINE s == f[k - 1]
<1>9. /\ s \in Seq(Events) /\ Len(s) \in Nat /\ k \in Nat /\ k - 1 \in Nat
      /\ w \in [1 .. Len(s) -> 1 .. (k - 1)]
      /\ \A i, j \in 1 .. Len(s) : i < j => w[i] < w[j]
      /\ \A i \in 1 .. Len(s) : s[i] = Entry(w[i]) /\ Entry(w[i]).id > last
      /\ \A q \in 1 .. (k - 1) : Entry(q).id > last => \E i \in 1 .. Len(s) : w[i] = q
  BY <1>1, <1>7, <1>8 DEF Picks
<1>10. f[k] = IF Entry(k).id > last THEN Append(s, Entry(k)) ELSE s
  BY <1>3, <1>7
<1> HIDE DEF s, T
<1>11. CASE ~(Entry(k).id > last)
  <2>1. w \in [1 .. Len(s) -> 1 .. k]
    BY <1>9
  <2>2. \A q \in 1 .. k : Entry(q).id > last => \E i \in 1 .. Len(s) : w[i] = q
    <3> SUFFICES ASSUME NEW q \in 1 .. k, Entry(q).id > last
                 PROVE  \E i \in 1 .. Len(s) : w[i] = q
      OBVIOUS
    <3>1. q # k
      BY <1>11
    <3>2. q \in 1 .. (k - 1)
      BY <1>9, <3>1
    <3> QED BY <1>9, <3>2
  <2>3. Picks(s, w, k, last)
    BY <1>9, <2>1, <2>2 DEF Picks
  <2> QED BY <1>5, <1>10, <1>11, <2>3
<1>12. CASE Entry(k).id > last
  <2> DEFINE t == Append(s, Entry(k))
             v == [i \in 1 .. Len(s) + 1 |-> IF i <= Len(s) THEN w[i] ELSE k]
  <2>1. Entry(k) \in Events
    BY <1>7
  <2>2. /\ t \in Seq(Events) /\ Len(t) = Len(s) + 1
        /\ \A i \in 1 .. Len(s) : t[i] = s[i]
        /\ t[Len(s) + 1] = Entry(k)
    BY <1>9, <2>1
  <2> HIDE DEF t
  <2>3. v \in [1 .. Len(t) -> 1 .. k]
    BY <1>9, <2>2
  <2>4. /\ \A i \in 1 .. Len(s) : v[i] = w[i] /\ w[i] \in 1 .. (k - 1) /\ i \in 1 .. Len(t)
        /\ v[Len(s) + 1] = k
        /\ Len(s) + 1 \in 1 .. Len(t)
        /\ \A i \in 1 .. Len(t) : i \in 1 .. Len(s) \/ i = Len(s) + 1
    <3>1. ASSUME NEW i \in 1 .. Len(s)
          PROVE  v[i] = w[i] /\ w[i] \in 1 .. (k - 1) /\ i \in 1 .. Len(t)
      <4>1. i \in 1 .. Len(s) + 1 /\ i <= Len(s) /\ i \in 1 .. Len(t)
        BY <1>9, <2>2
      <4> QED BY <1>9, <4>1
    <3>2. Len(s) + 1 \in 1 .. Len(s) + 1 /\ ~(Len(s) + 1 <= Len(s))
      BY <1>9
    <3>3. v[Len(s) + 1] = k
      BY <3>2
    <3> HIDE DEF v
    <3> QED BY <1>9, <2>2, <3>1, <3>2, <3>3
  <2> HIDE DEF v
  <2>5. ASSUME NEW i \in 1 .. Len(t), NEW j \in 1 .. Len(t), i < j PROVE v[i] < v[j]
    <3>1. i \in 1 .. Len(s)
      BY <1>9, <2>2, <2>5
    <3>2. CASE j \in 1 .. Len(s)
      BY <1>9, <2>4, <2>5, <3>1, <3>2
    <3>3. CASE j = Len(s) + 1
      BY <1>9, <2>4, <3>1, <3>3
    <3> QED BY <2>4, <3>2, <3>3
  <2>6. ASSUME NEW i \in 1 .. Len(t) PROVE t[i] = Entry(v[i]) /\ Entry(v[i]).id > last
    <3>1. CASE i \in 1 .. Len(s)
      BY <1>9, <2>2, <2>4, <3>1
    <3>2. CASE i = Len(s) + 1
      BY <1>12, <2>2, <2>4, <3>2
    <3> QED BY <2>4, <3>1, <3>2
  <2>7. ASSUME NEW q \in 1 .. k, Entry(q).id > last PROVE \E i \in 1 .. Len(t) : v[i] = q
    <3>1. CASE q = k
      BY <2>4, <3>1
    <3>2. CASE q # k
      <4>1. q \in 1 .. (k - 1)
        BY <1>9, <3>2
      <4>2. PICK i \in 1 .. Len(s) : w[i] = q
        BY <1>9, <2>7, <4>1
      <4> QED BY <2>4, <4>2
    <3> QED BY <3>1, <3>2
  <2>8. Picks(t, v, k, last)
    BY <2>2, <2>3, <2>5, <2>6, <2>7 DEF Picks
  <2> QED BY <1>5, <1>10, <1>12, <2>8 DEF t
<1> QED BY <1>11, <1>12

-----------------------------------------------------------------------------
(* Restarts *)

(* The ring holds the n newest rows of the table. *)
Loaded(n) ==
    /\ n \in 0 .. Capacity /\ n <= Len(stored)
    /\ buf' = [k \in Slots |->
                  IF k < n THEN [src |-> stored[Len(stored) - n + k + 1], id |-> Len(stored) - n + k + 1]
                  ELSE Empty]
    /\ pos' = IF n = Capacity THEN 0 ELSE n
    /\ full' = (n = Capacity)
    /\ seq' = IF n = 0 THEN 0 ELSE Len(stored)

(* Pushing rows into an empty ring. *)
LEMMA FillRows ==
    ASSUME Types, StoredOK, NEW n \in 0 .. Capacity, n <= Len(stored),
           NEW s \in Seq(Emits), Len(s) = n, Fill(s),
           \A k \in 1 .. n : s[k] = stored[Len(stored) - n + k]
    PROVE  Loaded(n)
<1>1. /\ Capacity \in Nat \ {0} /\ Len(stored) \in Nat /\ Slots = 0 .. Capacity - 1
  BY EventLogAssumption DEF Types, Slots
<1>2. ASSUME NEW k \in 1 .. n PROVE IdOf(s[k]) = Len(stored) - n + k
  <2>1. Len(stored) - n + k \in 1 .. Len(stored)
    BY <1>1
  <2> QED BY <2>1, RowIds
<1>3. buf' = [k \in Slots |->
                  IF k < n THEN [src |-> stored[Len(stored) - n + k + 1], id |-> Len(stored) - n + k + 1]
                  ELSE Empty]
  <2>1. buf' = [k \in Slots |-> IF k < n THEN [src |-> s[k + 1], id |-> IdOf(s[k + 1])] ELSE Empty]
    BY DEF Fill
  <2>2. ASSUME NEW k \in Slots, k < n
        PROVE  s[k + 1] = stored[Len(stored) - n + k + 1] /\ IdOf(s[k + 1]) = Len(stored) - n + k + 1
    <3>1. k + 1 \in 1 .. n /\ Len(stored) - n + (k + 1) = Len(stored) - n + k + 1
      BY <1>1, <2>2
    <3> QED BY <1>2, <3>1
  <2> QED BY <2>1, <2>2
<1>4. pos' = IF n = Capacity THEN 0 ELSE n
  <2>1. pos' = n % Capacity
    BY DEF Fill
  <2>2. n < Capacity => n % Capacity = n
    <3>1. n \in Nat
      BY <1>1
    <3> QED BY <1>1, <3>1, Turn
  <2>3. Capacity % Capacity = 0
    BY <1>1, Turn
  <2>4. n = Capacity => n % Capacity = 0
    BY <2>3
  <2> QED BY <1>1, <2>1, <2>2, <2>4
<1>5. full' = (n = Capacity)
  BY DEF Fill
<1>6. seq' = IF n = 0 THEN 0 ELSE Len(stored)
  <2>1. CASE n = 0
    <3>1. s = << >>
      BY <2>1
    <3> QED BY <2>1, <3>1 DEF Fill
  <2>2. CASE n # 0
    <3>1. s # << >> /\ Last(s) = s[n] /\ n \in 1 .. n /\ Len(stored) - n + n = Len(stored)
      BY <1>1, <2>2 DEF Last
    <3>2. IdOf(s[n]) = Len(stored)
      BY <1>2, <3>1
    <3> QED BY <2>2, <3>1, <3>2 DEF Fill
  <2> QED BY <2>1, <2>2
<1> QED BY <1>3, <1>4, <1>5, <1>6 DEF Loaded

(* What a restart leaves. *)
LEMMA RestartEffect ==
    ASSUME Types, StoredOK, Restart
    PROVE  /\ restarts < MaxRestarts /\ restarts' = restarts + 1
           /\ \/ raced' = raced /\ Loaded(IF Len(stored) < Capacity THEN Len(stored) ELSE Capacity)
              \/ raced' = TRUE /\ Loaded(0)
           /\ pc' = [m \in Emits |-> IF m \in Emitting THEN "killed" ELSE pc[m]]
           /\ conn' = [c \in Clients |-> "off"]
           /\ ch' = [c \in Clients |-> << >>]
           /\ tokens' = Burst /\ since' = {} /\ credits' = 0
           /\ UNCHANGED <<stored, id, lastId, high, got, seen, missed, drops, posted>>
<1> DEFINE n == IF Len(stored) < Capacity THEN Len(stored) ELSE Capacity
<1>1. Capacity \in Nat \ {0} /\ Len(stored) \in Nat /\ n \in 0 .. Capacity /\ n <= Len(stored) /\ n \in Nat
  BY EventLogAssumption DEF Types
<1>2. Reloaded = SubSeq(stored, Len(stored) - n + 1, Len(stored))
  <2>1. Min({Capacity, Len(stored)}) = n
    BY <1>1 DEF Min
  <2> QED BY <2>1 DEF Reloaded
<1> HIDE DEF n
<1>3. /\ Reloaded \in Seq(Emits) /\ Len(Reloaded) = n
      /\ \A k \in 1 .. n : Reloaded[k] = stored[Len(stored) - n + k]
  <2> DEFINE a == Len(stored) - n + 1
             b == Len(stored)
  <2>1. a \in Int /\ b \in Int /\ 1 <= a /\ a <= b + 1 /\ b <= Len(stored) /\ b - a + 1 = n
    BY <1>1
  <2>2. stored \in Seq(Emits)
    BY DEF Types
  <2> HIDE DEF a, b
  <2>3. /\ SubSeq(stored, a, b) \in Seq(Emits) /\ Len(SubSeq(stored, a, b)) = b - a + 1
        /\ \A k \in 1 .. (b - a + 1) : SubSeq(stored, a, b)[k] = stored[a + k - 1]
    BY <2>1, <2>2, Part
  <2>4. \A k \in 1 .. n : a + k - 1 = Len(stored) - n + k
    BY <1>1 DEF a
  <2> QED BY <1>2, <2>1, <2>3, <2>4 DEF a, b
<1>4. Fill(Reloaded) => Loaded(n)
  BY <1>1, <1>3, FillRows
<1>5. Fill(<< >>) => Loaded(0)
  <2>1. 0 \in 0 .. Capacity /\ 0 <= Len(stored) /\ << >> \in Seq(Emits) /\ Len(<< >>) = 0
    BY <1>1
  <2>2. \A k \in 1 .. 0 : << >>[k] = stored[Len(stored) - 0 + k]
    OBVIOUS
  <2> QED BY <2>1, <2>2, FillRows
<1>6. \/ raced' = raced /\ Fill(Reloaded)
      \/ raced' = TRUE /\ Fill(<< >>)
  BY DEF Restart
<1>7. \/ raced' = raced /\ Loaded(n)
      \/ raced' = TRUE /\ Loaded(0)
  BY <1>4, <1>5, <1>6
<1> QED BY <1>7 DEF Restart, n

-----------------------------------------------------------------------------
(* What is written to a client *)

(* Slots are filled from the first one on. *)
Filled == \A k \in Slots : buf[k] # Empty <=> full \/ k < pos

Bounded(es, n) == \E b \in Nat : \A k \in 1 .. n : es[k].id <= b

(* The ids of a sequence of events have a greatest one. *)
LEMMA IdsBounded ==
    ASSUME NEW es \in Seq(Events)
    PROVE  Bounded(es, Len(es))
<1>1. Len(es) \in Nat /\ \A k \in 1 .. Len(es) : es[k].id \in Nat
  BY SeqEvents
<1> DEFINE T == {n \in 0 .. Len(es) : ~Bounded(es, n)}
<1> SUFFICES ASSUME T # {} PROVE FALSE
  BY <1>1
<1>2. PICK n \in T : \A l \in T : n <= l
  <2>1. T \subseteq Nat
    BY <1>1
  <2> HIDE DEF T
  <2> QED BY <2>1, LeastNat
<1>3. n \in 0 .. Len(es) /\ ~Bounded(es, n)
  OBVIOUS
<1>4. n # 0
  <2>1. \A k \in 1 .. 0 : es[k].id <= 0
    OBVIOUS
  <2> QED BY <1>3, <2>1 DEF Bounded
<1>5. n \in 1 .. Len(es) /\ n - 1 \in 0 .. Len(es) /\ n - 1 \notin T
  BY <1>1, <1>2, <1>3, <1>4
<1>6. PICK b \in Nat : \A k \in 1 .. (n - 1) : es[k].id <= b
  BY <1>5 DEF Bounded
<1> HIDE DEF T
<1>7. b + es[n].id \in Nat
  BY <1>1, <1>5
<1>8. ASSUME NEW k \in 1 .. n PROVE es[k].id <= b + es[n].id
  <2>1. es[k].id \in Nat /\ es[n].id \in Nat /\ (k = n \/ k \in 1 .. (n - 1))
    BY <1>1, <1>5
  <2> QED BY <1>6, <2>1
<1> QED BY <1>3, <1>7, <1>8 DEF Bounded

(* highID after a replay. *)
LEMMA HighId ==
    ASSUME NEW es \in Seq(Events)
    PROVE  LET h == Max({0} \cup {e.id : e \in Range(es)})
           IN  /\ h \in Nat /\ \A k \in 1 .. Len(es) : es[k].id <= h
               /\ h = 0 \/ \E k \in 1 .. Len(es) : es[k].id = h
<1> DEFINE S == {0} \cup {e.id : e \in Range(es)}
<1>1. DOMAIN es = 1 .. Len(es) /\ \A k \in 1 .. Len(es) : es[k].id \in Nat
  BY SeqEvents
<1>2. \A x \in S : x = 0 \/ \E k \in 1 .. Len(es) : x = es[k].id
  BY <1>1 DEF Range
<1>3. 0 \in S /\ \A k \in 1 .. Len(es) : es[k].id \in S
  BY <1>1 DEF Range
<1>4. PICK b \in Nat : \A k \in 1 .. Len(es) : es[k].id <= b
  BY IdsBounded DEF Bounded
<1> HIDE DEF S
<1>5. S \subseteq Nat /\ S # {} /\ \A x \in S : x <= b
  BY <1>1, <1>2, <1>3, <1>4
<1>6. Max(S) \in S /\ \A x \in S : x <= Max(S)
  BY <1>5, MaxBounds
<1>7. /\ Max(S) \in Nat /\ \A k \in 1 .. Len(es) : es[k].id <= Max(S)
      /\ Max(S) = 0 \/ \E k \in 1 .. Len(es) : es[k].id = Max(S)
  BY <1>2, <1>3, <1>5, <1>6
<1> QED BY <1>7 DEF S

(* The entries of the ring are events. *)
LEMMA Entries ==
    ASSUME Types, Filled
    PROVE  \A k \in 1 .. Size : Entry(k) \in Events
<1> SUFFICES ASSUME NEW k \in 1 .. Size PROVE Entry(k) \in Events
  OBVIOUS
<1>1. At(k) \in Slots /\ Entry(k) = buf[At(k)] /\ (full \/ At(k) < pos)
  BY Index
<1> QED BY <1>1 DEF Filled, Types

(* A replay is nothing or what SinceID returns. *)
LEMMA ReplayEvents ==
    ASSUME Types, Filled, NEW c \in Clients
    PROVE  /\ ReplayOf(c) \in Seq(Events)
           /\ \/ lastId[c] = 0 /\ ReplayOf(c) = << >>
              \/ lastId[c] # 0 /\ \E w : Picks(ReplayOf(c), w, Size, lastId[c])
<1>1. lastId[c] \in Nat
  BY DEF Types
<1>2. \E w : Picks(SinceID(lastId[c]), w, Size, lastId[c])
  BY <1>1, Entries, Since
<1>3. SinceID(lastId[c]) \in Seq(Events)
  BY <1>2 DEF Picks
<1>4. << >> \in Seq(Events)
  OBVIOUS
<1> QED BY <1>2, <1>3, <1>4 DEF ReplayOf

(* What writing events to a client changes. *)
LEMMA WriteEffect ==
    ASSUME Types, NEW c \in Clients, NEW es \in Seq(Events), Write(c, es)
    PROVE  /\ got' \in [Clients -> Seq(Events)] /\ seen' \in [Clients -> SUBSET Emits]
           /\ lastId' \in [Clients -> Nat]
           /\ got'[c] = got[c] \o es
           /\ \A m : m \in seen'[c] <=> m \in seen[c] \/ \E k \in 1 .. Len(es) : es[k].src = m
           /\ lastId'[c] = IF Len(es) = 0 THEN lastId[c] ELSE es[Len(es)].id
           /\ \A d \in Clients \ {c} : got'[d] = got[d] /\ seen'[d] = seen[d] /\ lastId'[d] = lastId[d]
<1>1. /\ got \in [Clients -> Seq(Events)] /\ seen \in [Clients -> SUBSET Emits]
      /\ lastId \in [Clients -> Nat]
      /\ DOMAIN es = 1 .. Len(es) /\ Len(es) \in Nat
      /\ \A k \in 1 .. Len(es) : es[k] \in Events /\ es[k].src \in Emits /\ es[k].id \in Nat
  BY SeqEvents DEF Types
<1>2. /\ got' = [got EXCEPT ![c] = got[c] \o es]
      /\ seen' = [seen EXCEPT ![c] = seen[c] \cup {e.src : e \in Range(es)}]
      /\ lastId' = [lastId EXCEPT ![c] = IF es = << >> THEN lastId[c] ELSE Last(es).id]
  BY DEF Write
<1>3. \A m : m \in {e.src : e \in Range(es)} <=> \E k \in 1 .. Len(es) : es[k].src = m
  BY <1>1 DEF Range
<1>4. {e.src : e \in Range(es)} \subseteq Emits
  BY <1>1, <1>3
<1>5. got[c] \o es \in Seq(Events)
  BY <1>1
<1>6. /\ es = << >> <=> Len(es) = 0
      /\ Len(es) # 0 => Last(es).id = es[Len(es)].id /\ es[Len(es)].id \in Nat
  BY <1>1 DEF Last
<1>7. /\ got' \in [Clients -> Seq(Events)] /\ got'[c] = got[c] \o es
      /\ \A d \in Clients \ {c} : got'[d] = got[d]
  BY <1>1, <1>2, <1>5
<1>8. /\ seen' \in [Clients -> SUBSET Emits]
      /\ \A d \in Clients \ {c} : seen'[d] = seen[d]
      /\ \A m : m \in seen'[c] <=> m \in seen[c] \/ m \in {e.src : e \in Range(es)}
  BY <1>1, <1>2, <1>4
<1>9. /\ lastId' \in [Clients -> Nat]
      /\ lastId'[c] = IF Len(es) = 0 THEN lastId[c] ELSE es[Len(es)].id
      /\ \A d \in Clients \ {c} : lastId'[d] = lastId[d]
  BY <1>1, <1>2, <1>6
<1> QED BY <1>3, <1>7, <1>8, <1>9

-----------------------------------------------------------------------------
(* Types are kept *)

(* An event enters the ring. *)
LEMMA PushEffect ==
    ASSUME Types, NEW m \in Emits, PushRing(m)
    PROVE  /\ pc[m] = "ring"
           /\ buf' = [buf EXCEPT ![pos] = Event(m)]
           /\ pos' = IF pos + 1 = Capacity THEN 0 ELSE pos + 1
           /\ full' = (full \/ pos + 1 = Capacity)
           /\ pc' = [pc EXCEPT ![m] = "fanout"]
           /\ UNCHANGED <<stored, seq, id, clientVars, hookVars, history>>
<1>1. Capacity \in Nat \ {0} /\ pos \in 0 .. Capacity - 1
  BY EventLogAssumption DEF Types, Slots
<1>2. pos + 1 \in Nat /\ (pos + 1 < Capacity \/ pos + 1 = Capacity)
  BY <1>1
<1>3. pos + 1 < Capacity => NextPos(pos) = pos + 1 /\ NextPos(pos) # 0
  <2>1. pos + 1 < Capacity => (pos + 1) % Capacity = pos + 1
    BY <1>1, <1>2, Turn
  <2> QED BY <1>1, <2>1 DEF NextPos
<1>4. pos + 1 = Capacity => NextPos(pos) = 0
  <2>1. Capacity % Capacity = Capacity - Capacity
    BY <1>1, Turn
  <2> QED BY <1>1, <2>1 DEF NextPos
<1>5. pos + 1 < Capacity => pos + 1 # Capacity
  BY <1>1
<1> QED BY <1>2, <1>3, <1>4, <1>5 DEF PushRing, Wraps, Goto

(* The end of a stream keeps the types. *)
LEMMA UnsubscribeTypes ==
    ASSUME Types, NEW c \in Clients, Unsubscribe(c)
    PROVE  /\ ch' \in [Clients -> Seq(Events)] /\ \A d \in Clients : Len(ch'[d]) <= ChanCap
           /\ conn' \in [Clients -> {"off", "subscribed", "live"}] /\ drops' \in [Clients -> 0 .. MaxDrops]
<1>1. ch' = [ch EXCEPT ![c] = << >>] /\ ch \in [Clients -> Seq(Events)] /\ \A d \in Clients : Len(ch[d]) <= ChanCap
  BY DEF Unsubscribe, Types
<1>2. ch' \in [Clients -> Seq(Events)] /\ \A d \in Clients : ch'[d] = IF d = c THEN << >> ELSE ch[d]
  BY <1>1
<1>3. Len(<< >>) <= ChanCap
  BY EventLogAssumption
<1>4. \A d \in Clients : Len(ch'[d]) <= ChanCap
  BY <1>1, <1>2, <1>3
<1>5. conn' \in [Clients -> {"off", "subscribed", "live"}]
  BY DEF Unsubscribe, Types
<1>6. drops' \in [Clients -> 0 .. MaxDrops]
  BY EventLogAssumption DEF Unsubscribe, Types
<1> QED BY <1>2, <1>4, <1>5, <1>6

(* A refill adds one token until the bucket is full. *)
LEMMA RefillEffect ==
    ASSUME Types, Refill
    PROVE  \/ tokens' = tokens + 1 /\ tokens' < Burst /\ credits' = credits + 1 /\ since' = since
           \/ tokens' = Burst /\ credits' = 0 /\ since' = {}
<1>1. tokens \in Nat /\ Burst \in Nat /\ tokens <= Burst
  BY EventLogAssumption DEF Types
<1>2. tokens' = IF tokens + 1 < Burst THEN tokens + 1 ELSE Burst
  BY <1>1 DEF Refill, Capped, Min
<1>3. IF tokens' < Burst THEN credits' = credits + 1 /\ since' = since ELSE credits' = 0 /\ since' = {}
  BY DEF Refill
<1> QED BY <1>1, <1>2, <1>3

(* Types of the ring, the channel and the connection a step may change *)
LEMMA TypesStep ==
    ASSUME Types, StoredOK, Filled, [Next]_vars
    PROVE  Types'
<1> USE EventLogAssumption
<1>1. ASSUME NEW m \in Emits, Insert(m) PROVE Types'
  <2>1. stored' \in Seq(Emits) /\ id' \in [Emits -> Nat]
        /\ pc' \in [Emits -> {"new", "seq", "ring", "fanout", "hooks", "done", "killed"}]
        /\ raced' \in BOOLEAN
    BY <1>1 DEF Insert, Goto, Types
  <2> QED BY <1>1, <2>1 DEF Insert, Types, ring, clientVars, hookVars
<1>2. ASSUME NEW m \in Emits, InsertFails(m) PROVE Types'
  BY <1>2 DEF InsertFails, Goto, Types, ring, clientVars, hookVars
<1>3. ASSUME NEW m \in Emits, SetSeq(m) PROVE Types'
  BY <1>3 DEF SetSeq, Goto, Types, ring, clientVars, hookVars, history
<1>4. ASSUME NEW m \in Emits, PushRing(m) PROVE Types'
  <2>1. Event(m) \in Events
    BY EventOf
  <2>2. buf' \in [Slots -> Events \cup {Empty}] /\ pos' \in Slots /\ full' \in BOOLEAN
        /\ pc' \in [Emits -> {"new", "seq", "ring", "fanout", "hooks", "done", "killed"}]
    <3>1. /\ buf' = [buf EXCEPT ![pos] = Event(m)]
          /\ pos' = IF pos + 1 = Capacity THEN 0 ELSE pos + 1
          /\ full' = (full \/ pos + 1 = Capacity)
          /\ pc' = [pc EXCEPT ![m] = "fanout"]
      BY <1>4, PushEffect
    <3>2. pos' \in Slots
      BY <3>1 DEF Types, Slots
    <3>3. buf' \in [Slots -> Events \cup {Empty}]
      BY <2>1, <3>1 DEF Types
    <3> QED BY <3>1, <3>2, <3>3 DEF Types
  <2>3. UNCHANGED <<stored, seq, id, clientVars, hookVars, history>>
    BY <1>4, PushEffect
  <2> QED BY <2>2, <2>3 DEF Types, clientVars, hookVars, history
<1>5. ASSUME NEW m \in Emits, FanOut(m) PROVE Types'
  <2>1. Event(m) \in Events
    BY EventOf
  <2>2. ch' \in [Clients -> Seq(Events)] /\ \A c \in Clients : Len(ch'[c]) <= ChanCap
    <3>1. ASSUME NEW c \in Clients PROVE ch'[c] \in Seq(Events) /\ Len(ch'[c]) <= ChanCap
      <4>1. ch[c] \in Seq(Events) /\ Len(ch[c]) <= ChanCap
        BY DEF Types
      <4>2. ch'[c] = IF Subscribed(c) /\ HasRoom(c) THEN Append(ch[c], Event(m)) ELSE ch[c]
        BY <1>5 DEF FanOut
      <4> QED BY <2>1, <4>1, <4>2 DEF HasRoom
    <3>2. ch' = [c \in Clients |-> ch'[c]]
      BY <1>5 DEF FanOut
    <3> QED BY <3>1, <3>2
  <2>3. missed' \in [Clients -> SUBSET Emits]
    BY <1>5 DEF FanOut, Types
  <2>4. pc' \in [Emits -> {"new", "seq", "ring", "fanout", "hooks", "done", "killed"}]
    BY <1>5 DEF FanOut, Types, Goto
  <2>5. UNCHANGED <<stored, seq, buf, pos, full, id, conn, lastId, high, got, seen, drops,
                    tokens, posted, since, credits, restarts, raced>>
    BY <1>5 DEF FanOut, ring, hookVars, history
  <2> QED BY <2>2, <2>3, <2>4, <2>5 DEF Types
<1>6. ASSUME NEW m \in Emits, Dispatch(m) PROVE Types'
  BY <1>6 DEF Dispatch, rateLimitAllow, Goto, Types, ring, clientVars, hookVars, history
<1>7. CASE Refill
  <2>1. tokens' \in 0 .. Burst /\ since' \subseteq Emits /\ credits' \in Nat
    BY <1>7, RefillEffect DEF Types
  <2>2. UNCHANGED <<emitVars, clientVars, posted, history>>
    BY <1>7 DEF Refill
  <2> QED BY <2>1, <2>2 DEF Types, emitVars, ring, clientVars, history
<1>8. ASSUME NEW c \in Clients, Connect(c) PROVE Types'
  BY <1>8 DEF Connect, Types, emitVars, ring, hookVars, history
<1>9. ASSUME NEW c \in Clients, Replay(c) PROVE Types'
  <2>1. ReplayOf(c) \in Seq(Events)
    BY ReplayEvents
  <2>2. /\ got' \in [Clients -> Seq(Events)] /\ seen' \in [Clients -> SUBSET Emits]
        /\ lastId' \in [Clients -> Nat]
    BY <1>9, <2>1, WriteEffect DEF Replay
  <2>3. Max({0} \cup {e.id : e \in Range(ReplayOf(c))}) \in Nat
    BY <2>1, HighId
  <2>4. high' \in [Clients -> Nat] /\ conn' \in [Clients -> {"off", "subscribed", "live"}]
    BY <1>9, <2>3 DEF Replay, Types
  <2>5. UNCHANGED <<stored, seq, buf, pos, full, pc, id, ch, missed, drops,
                    tokens, posted, since, credits, restarts, raced>>
    BY <1>9 DEF Replay, emitVars, ring, hookVars, history
  <2> QED BY <2>2, <2>4, <2>5 DEF Types
<1>10. ASSUME NEW c \in Clients, ReplayBreaks(c) PROVE Types'
  <2>1. ReplayOf(c) \in Seq(Events)
    BY ReplayEvents
  <2>2. PICK n \in 0 .. Len(ReplayOf(c)) - 1 : Write(c, SubSeq(ReplayOf(c), 1, n))
    BY <1>10 DEF ReplayBreaks
  <2>3. SubSeq(ReplayOf(c), 1, n) \in Seq(Events)
    BY <2>1, Part
  <2>4. /\ got' \in [Clients -> Seq(Events)] /\ seen' \in [Clients -> SUBSET Emits]
        /\ lastId' \in [Clients -> Nat]
    BY <2>2, <2>3, WriteEffect
  <2>5. /\ ch' \in [Clients -> Seq(Events)] /\ \A d \in Clients : Len(ch'[d]) <= ChanCap
        /\ conn' \in [Clients -> {"off", "subscribed", "live"}] /\ drops' \in [Clients -> 0 .. MaxDrops]
    BY <1>10, UnsubscribeTypes DEF ReplayBreaks
  <2>6. UNCHANGED <<stored, seq, buf, pos, full, pc, id, high, missed,
                    tokens, posted, since, credits, restarts, raced>>
    BY <1>10 DEF ReplayBreaks, emitVars, ring, hookVars, history
  <2> QED BY <2>4, <2>5, <2>6 DEF Types
<1>11. ASSUME NEW c \in Clients, Receive(c) PROVE Types'
  <2>1. ch[c] \in Seq(Events) /\ ch[c] # << >> /\ Len(ch[c]) <= ChanCap
    BY <1>11 DEF Receive, Types
  <2>2. Tail(ch[c]) \in Seq(Events) /\ Len(Tail(ch[c])) <= ChanCap /\ Head(ch[c]) \in Events
    BY <2>1
  <2>3. (IF AlreadySent(Head(ch[c]), c) THEN << >> ELSE <<Head(ch[c])>>) \in Seq(Events)
    BY <2>2
  <2>4. /\ got' \in [Clients -> Seq(Events)] /\ seen' \in [Clients -> SUBSET Emits]
        /\ lastId' \in [Clients -> Nat]
    BY <1>11, <2>3, WriteEffect DEF Receive
  <2>5. /\ ch' \in [Clients -> Seq(Events)] /\ \A d \in Clients : Len(ch'[d]) <= ChanCap
    BY <1>11, <2>2 DEF Receive, Types
  <2>6. UNCHANGED <<stored, seq, buf, pos, full, pc, id, conn, high, missed, drops,
                    tokens, posted, since, credits, restarts, raced>>
    BY <1>11 DEF Receive, emitVars, ring, hookVars, history
  <2> QED BY <2>4, <2>5, <2>6 DEF Types
<1>12. ASSUME NEW c \in Clients, Disconnect(c) PROVE Types'
  <2>1. /\ ch' \in [Clients -> Seq(Events)] /\ \A d \in Clients : Len(ch'[d]) <= ChanCap
        /\ conn' \in [Clients -> {"off", "subscribed", "live"}] /\ drops' \in [Clients -> 0 .. MaxDrops]
    BY <1>12, UnsubscribeTypes DEF Disconnect
  <2>2. UNCHANGED <<stored, seq, buf, pos, full, pc, id, lastId, high, got, seen, missed,
                    tokens, posted, since, credits, restarts, raced>>
    BY <1>12 DEF Disconnect, emitVars, ring, hookVars, history
  <2> QED BY <2>1, <2>2 DEF Types
<1>13. CASE Restart
  <2>1. PICK n : Loaded(n)
    BY <1>13, RestartEffect
  <2>2. /\ stored \in Seq(Emits) /\ Len(stored) \in Nat /\ n \in 0 .. Capacity /\ n <= Len(stored)
        /\ Slots = 0 .. Capacity - 1 /\ \A k \in 1 .. Len(stored) : stored[k] \in Emits
    BY <2>1 DEF Loaded, Types, Slots
  <2>3. ASSUME NEW k \in Slots, k < n
        PROVE  [src |-> stored[Len(stored) - n + k + 1], id |-> Len(stored) - n + k + 1] \in Events
    <3>1. Len(stored) - n + k + 1 \in 1 .. Len(stored)
      BY <2>2, <2>3
    <3> QED BY <2>2, <3>1 DEF Events
  <2>4. buf' \in [Slots -> Events \cup {Empty}]
    BY <2>1, <2>3 DEF Loaded
  <2>5. pos' \in Slots /\ full' \in BOOLEAN /\ seq' \in Nat
    BY <2>1, <2>2 DEF Loaded
  <2>6. /\ pc' \in [Emits -> {"new", "seq", "ring", "fanout", "hooks", "done", "killed"}]
        /\ conn' \in [Clients -> {"off", "subscribed", "live"}]
        /\ ch' \in [Clients -> Seq(Events)] /\ \A d \in Clients : Len(ch'[d]) <= ChanCap
        /\ tokens' \in 0 .. Burst /\ since' \subseteq Emits /\ credits' \in Nat
        /\ restarts' \in 0 .. MaxRestarts
    BY <1>13 DEF Restart, Types
  <2>7. UNCHANGED <<stored, id, lastId, high, got, seen, missed, drops, posted>> /\ raced' \in BOOLEAN
    BY <1>13, RestartEffect DEF Types
  <2> QED BY <2>4, <2>5, <2>6, <2>7 DEF Types
<1>14. CASE UNCHANGED vars
  BY <1>14 DEF Types, vars, emitVars, ring, clientVars, hookVars, history
<1> QED BY <1>1, <1>2, <1>3, <1>4, <1>5, <1>6, <1>7, <1>8, <1>9, <1>10, <1>11, <1>12, <1>13, <1>14
        DEF Next, EmitStep, Stream, Drop

-----------------------------------------------------------------------------
(* Steps by what they change *)

Moves(m, l) == pc' = [pc EXCEPT ![m] = l]

(* A call that has begun keeps its id and does not go back. *)
LEMMA Aging ==
    ASSUME Types, [Next]_vars
    PROVE  /\ \A m \in Emits : pc[m] # "new" => id'[m] = id[m] /\ pc'[m] # "new"
           /\ \A m \in Emits : pc[m] \in Pushed => pc'[m] \in Pushed
           /\ \/ Restart
              \/ \A m \in Emits : pc[m] \in {"hooks", "done"} => pc'[m] \in {"hooks", "done"}
<1>1. ASSUME NEW m \in Emits, EmitStep(m)
      PROVE  /\ id' = id \/ (pc[m] = "new" /\ \E x : id' = [id EXCEPT ![m] = x])
             /\ \/ pc[m] = "new" /\ Moves(m, "seq")
                \/ pc[m] = "new" /\ Moves(m, "ring")
                \/ pc[m] = "seq" /\ Moves(m, "ring")
                \/ pc[m] = "ring" /\ Moves(m, "fanout")
                \/ pc[m] = "fanout" /\ Moves(m, "hooks")
                \/ pc[m] = "hooks" /\ Moves(m, "done")
  BY <1>1 DEF EmitStep, Insert, InsertFails, SetSeq, PushRing, FanOut, Dispatch, Begins, Goto, Moves
<1>2. ASSUME Restart PROVE id' = id /\ pc' = [m \in Emits |-> IF m \in Emitting THEN "killed" ELSE pc[m]]
  BY <1>2 DEF Restart
<1>3. CASE \E m \in Emits : EmitStep(m)
  <2>1. PICK m \in Emits : EmitStep(m)
    BY <1>3
  <2>2. \A n \in Emits : pc[n] # "new" => id'[n] = id[n]
    BY <1>1, <2>1, CallTypes
  <2>3. PICK l \in {"seq", "ring", "fanout", "hooks", "done"} :
           /\ pc'[m] = l /\ \A n \in Emits \ {m} : pc'[n] = pc[n]
           /\ pc[m] \in Pushed => l \in Pushed
           /\ pc[m] \in {"hooks", "done"} => l = "done"
    BY <1>1, <2>1, CallTypes DEF Moves, Pushed
  <2> QED BY <2>2, <2>3
<1>4. CASE Restart
  BY <1>2, <1>4 DEF Types, Pushed, Emitting
<1>5. CASE UNCHANGED <<pc, id>>
  BY <1>5
<1>6. \/ \E m \in Emits : EmitStep(m)
      \/ Restart
      \/ UNCHANGED <<pc, id>>
  BY DEF Next, Stream, Drop, Refill, Connect, Replay, Receive, ReplayBreaks, Disconnect, emitVars, vars
<1> QED BY <1>3, <1>4, <1>5, <1>6

(* The table is written by Insert alone. *)
LEMMA TableFrame ==
    ASSUME [Next]_vars
    PROVE  (\E m \in Emits : Insert(m)) \/ stored' = stored
BY DEF Next, EmitStep, Stream, Drop, Refill, Connect, Replay, Receive, ReplayBreaks, Disconnect,
       InsertFails, SetSeq, PushRing, FanOut, Dispatch, Restart, emitVars, vars

(* The ring is written by PushRing and at a restart. *)
LEMMA RingFrame ==
    ASSUME [Next]_vars
    PROVE  (\E m \in Emits : PushRing(m)) \/ Restart \/ (buf' = buf /\ pos' = pos /\ full' = full)
BY DEF Next, EmitStep, Stream, Drop, Refill, Connect, Replay, Receive, ReplayBreaks, Disconnect,
       Insert, InsertFails, SetSeq, FanOut, Dispatch, emitVars, ring, vars

Still(c) ==
    /\ conn'[c] = conn[c] /\ lastId'[c] = lastId[c] /\ high'[c] = high[c] /\ ch'[c] = ch[c]
    /\ got'[c] = got[c] /\ seen'[c] = seen[c] /\ missed'[c] = missed[c]

(* A stream is changed by its own steps, FanOut and a restart. *)
LEMMA ClientFrame ==
    ASSUME Types, [Next]_vars, NEW c \in Clients
    PROVE  \/ \E m \in Emits : FanOut(m)
           \/ Connect(c) \/ Replay(c) \/ ReplayBreaks(c) \/ Receive(c) \/ Disconnect(c)
           \/ Restart
           \/ Still(c)
<1>1. ASSUME NEW d \in Clients \ {c}, Stream(d) \/ Drop(d) PROVE Still(c)
  <2>1. CASE Connect(d)
    BY <2>1 DEF Connect, Types, Still
  <2>2. CASE Replay(d)
    BY <2>2 DEF Replay, Write, Types, Still
  <2>3. CASE Receive(d)
    BY <2>3 DEF Receive, Write, Types, Still
  <2>4. CASE ReplayBreaks(d)
    <3>1. PICK es : Write(d, es)
      BY <2>4 DEF ReplayBreaks
    <3>2. got'[c] = got[c] /\ seen'[c] = seen[c] /\ lastId'[c] = lastId[c]
      BY <3>1 DEF Write, Types
    <3> QED BY <2>4, <3>2 DEF ReplayBreaks, Unsubscribe, Types, Still
  <2>5. CASE Disconnect(d)
    BY <2>5 DEF Disconnect, Unsubscribe, Types, Still
  <2> QED BY <1>1, <2>1, <2>2, <2>3, <2>4, <2>5 DEF Stream, Drop
<1>2. ASSUME NEW m \in Emits, EmitStep(m), ~FanOut(m) PROVE Still(c)
  BY <1>2 DEF EmitStep, Insert, InsertFails, SetSeq, PushRing, Dispatch, clientVars, Still
<1>3. ASSUME Refill PROVE Still(c)
  BY <1>3 DEF Refill, clientVars, Still
<1>4. UNCHANGED vars => Still(c)
  BY DEF vars, clientVars, Still
<1> QED BY <1>1, <1>2, <1>3, <1>4 DEF Next, Stream, Drop

-----------------------------------------------------------------------------
(* A stream repeats nothing *)

(* An event carries the id of the call it comes from. *)
EventOK(e) == e.src \in Emits /\ e.id = id[e.src] /\ pc[e.src] # "new"

(* The ring holds events of calls that pushed them, one each. *)
RingOK ==
    /\ Filled
    /\ \A k \in Slots : buf[k] # Empty => EventOK(buf[k]) /\ pc[buf[k].src] \in Pushed
    /\ \A k, l \in Slots : buf[k] # Empty /\ buf[l] # Empty /\ buf[k].src = buf[l].src => k = l

(* So does a channel, between FanOut and a restart. *)
Chan(c) ==
    /\ conn[c] = "off" => ch[c] = << >>
    /\ \A k \in 1 .. Len(ch[c]) : EventOK(ch[c][k]) /\ pc[ch[c][k].src] \in {"hooks", "done"}
    /\ \A k, l \in 1 .. Len(ch[c]) : ch[c][k].src = ch[c][l].src => k = l

(* What was written came from the replay, with an id up to highID, or came    *)
(* through the channel and is no longer in it.                                *)
Got(c) ==
    /\ conn[c] = "subscribed" => got[c] = << >>
    /\ \A k \in 1 .. Len(got[c]) : EventOK(got[c][k]) /\ pc[got[c][k].src] \in Pushed
    /\ \A k, l \in 1 .. Len(got[c]) : got[c][k].src = got[c][l].src => k = l
    /\ conn[c] = "live" => \A k \in 1 .. Len(got[c]) :
         \/ got[c][k].id <= high[c]
         \/ /\ pc[got[c][k].src] \in {"hooks", "done"}
            /\ \A l \in 1 .. Len(ch[c]) : ch[c][l].src # got[c][k].src

Streams == \A c \in Clients : Chan(c) /\ Got(c)

(* ... after the step *)
After(e) == e.src \in Emits /\ e.id = id'[e.src] /\ pc'[e.src] # "new"

(* Begun calls stay what the events say of them. *)
LEMMA EventOKStep ==
    ASSUME Types, [Next]_vars, NEW e, EventOK(e)
    PROVE  After(e)
BY Aging DEF EventOK, After

(* The table keeps its ids. *)
LEMMA StoredStep ==
    ASSUME Types, StoredOK, [Next]_vars
    PROVE  StoredOK'
<1>1. CASE stored' = stored
  <2> SUFFICES ASSUME NEW k \in DOMAIN stored PROVE pc'[stored[k]] # "new" /\ id'[stored[k]] = k
    BY <1>1 DEF StoredOK
  <2>1. stored[k] \in Emits /\ pc[stored[k]] # "new" /\ id[stored[k]] = k
    BY DEF StoredOK, Types
  <2> QED BY <2>1, Aging
<1>2. CASE \E m \in Emits : Insert(m)
  <2>1. PICK m \in Emits : Insert(m)
    BY <1>2
  <2>2. /\ stored' = Append(stored, m) /\ id'[m] = Len(stored) + 1 /\ pc'[m] = "seq"
    BY <2>1 DEF Insert, Goto, Types
  <2> SUFFICES ASSUME NEW k \in DOMAIN stored' PROVE pc'[stored'[k]] # "new" /\ id'[stored'[k]] = k
    BY DEF StoredOK
  <2>3. /\ stored \in Seq(Emits) /\ Len(stored) \in Nat
        /\ k \in 1 .. Len(stored) + 1 /\ stored'[k] = IF k <= Len(stored) THEN stored[k] ELSE m
    BY <2>2 DEF Types
  <2>4. CASE k <= Len(stored)
    <3>1. k \in DOMAIN stored
      BY <2>3, <2>4
    <3>2. stored[k] \in Emits /\ pc[stored[k]] # "new" /\ id[stored[k]] = k
      BY <3>1 DEF StoredOK, Types
    <3> QED BY <2>3, <2>4, <3>2, Aging
  <2>5. CASE ~(k <= Len(stored))
    BY <2>2, <2>3, <2>5
  <2> QED BY <2>4, <2>5
<1> QED BY <1>1, <1>2, TableFrame

(* The ring keeps its events. *)
LEMMA RingStep ==
    ASSUME Types, StoredOK, RingOK, [Next]_vars
    PROVE  RingOK'
<1>0. /\ \A k \in Slots : buf[k] # Empty => After(buf[k]) /\ pc'[buf[k].src] \in Pushed
      /\ \A k \in Slots : buf[k] # Empty <=> full \/ k < pos
      /\ \A k, l \in Slots : buf[k] # Empty /\ buf[l] # Empty /\ buf[k].src = buf[l].src => k = l
  <2>1. ASSUME NEW k \in Slots, buf[k] # Empty PROVE After(buf[k]) /\ pc'[buf[k].src] \in Pushed
    <3>1. EventOK(buf[k]) /\ pc[buf[k].src] \in Pushed
      BY <2>1 DEF RingOK
    <3> DEFINE e == buf[k]
    <3>2. e.src \in Emits /\ e.id = id[e.src] /\ pc[e.src] # "new" /\ pc[e.src] \in Pushed
      BY <3>1 DEF EventOK
    <3> HIDE DEF e
    <3>3. e.src \in Emits /\ e.id = id'[e.src] /\ pc'[e.src] # "new" /\ pc'[e.src] \in Pushed
      BY <3>2, Aging
    <3> QED BY <3>3 DEF e, After
  <2> QED BY <2>1 DEF RingOK, Filled
<1>1. CASE buf' = buf /\ pos' = pos /\ full' = full
  BY <1>0, <1>1 DEF RingOK, Filled, EventOK, After, Slots, Empty
<1>2. CASE \E m \in Emits : PushRing(m)
  <2>1. PICK m \in Emits : PushRing(m)
    BY <1>2
  <2>2. /\ pc[m] = "ring"
        /\ buf' = [buf EXCEPT ![pos] = Event(m)]
        /\ pos' = IF pos + 1 = Capacity THEN 0 ELSE pos + 1
        /\ full' = (full \/ pos + 1 = Capacity)
        /\ pc' = [pc EXCEPT ![m] = "fanout"]
        /\ id' = id
    BY <2>1, PushEffect
  <2>3. /\ Event(m) # Empty /\ Event(m).src = m /\ Event(m).id = id[m]
    BY EventOf, Fields
  <2>4. /\ Capacity \in Nat \ {0} /\ pos \in Slots /\ Slots = 0 .. Capacity - 1 /\ full \in BOOLEAN
        /\ \A k \in Slots : buf'[k] = IF k = pos THEN Event(m) ELSE buf[k]
    BY <2>2, EventLogAssumption DEF Types, Slots
  <2>5. Filled'
    <3> SUFFICES ASSUME NEW k \in Slots PROVE buf'[k] # Empty <=> full' \/ k < pos'
      BY DEF Filled, Slots
    <3>1. /\ buf[k] # Empty <=> full \/ k < pos
          /\ buf'[k] = IF k = pos THEN Event(m) ELSE buf[k]
          /\ k \in 0 .. Capacity - 1 /\ pos \in 0 .. Capacity - 1
      BY <1>0, <2>4
    <3>2. CASE k = pos
      <4>1. pos + 1 # Capacity => k < pos'
        BY <2>2, <2>4, <3>2
      <4>2. pos + 1 = Capacity => full'
        BY <2>2, Zenon
      <4>3. buf'[k] # Empty
        BY <2>3, <3>1, <3>2
      <4> QED BY <4>1, <4>2, <4>3
    <3>3. CASE k # pos
      <4>1. k < pos' <=> (pos + 1 # Capacity /\ k < pos)
        BY <2>2, <2>4, <3>1, <3>3
      <4>2. pos + 1 = Capacity => k < pos
        BY <2>4, <3>1, <3>3
      <4> QED BY <2>2, <3>1, <3>3, <4>1, <4>2
    <3> QED BY <3>2, <3>3
  <2>6. \A k \in Slots : buf[k] # Empty => buf[k].src # m
    BY <2>2 DEF RingOK, Pushed
  <2>7. pc'[m] = "fanout" /\ id'[m] = id[m]
    BY <2>2 DEF Types
  <2>8. ASSUME NEW k \in Slots, buf'[k] # Empty PROVE After(buf'[k]) /\ pc'[buf'[k].src] \in Pushed
    <3>1. CASE k = pos
      BY <2>3, <2>4, <2>7, <3>1 DEF After, Pushed
    <3>2. CASE k # pos
      <4>1. buf'[k] = buf[k] /\ After(buf[k]) /\ pc'[buf[k].src] \in Pushed
        BY <1>0, <2>4, <2>8, <3>2
      <4> QED BY <4>1
    <3> QED BY <3>1, <3>2
  <2>9. ASSUME NEW k \in Slots, NEW l \in Slots, buf'[k] # Empty, buf'[l] # Empty, buf'[k].src = buf'[l].src
        PROVE  k = l
    BY <1>0, <2>3, <2>4, <2>6, <2>9
  <2>10. Slots' = Slots /\ Empty' = Empty
    BY DEF Slots, Empty
  <2> QED BY <2>5, <2>8, <2>9, <2>10 DEF RingOK, EventOK, After
<1>3. CASE Restart
  <2>1. PICK n : Loaded(n)
    BY <1>3, RestartEffect
  <2> DEFINE o == Len(stored) - n
  <2>2. /\ n \in 0 .. Capacity /\ o \in Nat /\ n \in Nat /\ Len(stored) \in Nat
        /\ Capacity \in Nat \ {0} /\ Slots = 0 .. Capacity - 1
        /\ \A k \in Slots : buf'[k] = IF k < n THEN [src |-> stored[o + k + 1], id |-> o + k + 1] ELSE Empty
        /\ pos' = IF n = Capacity THEN 0 ELSE n
        /\ full' = (n = Capacity)
    BY <2>1, EventLogAssumption DEF Loaded, Types, Slots
  <2>3. ASSUME NEW k \in Slots, k < n
        PROVE  /\ buf'[k] # Empty /\ buf'[k].src = stored[o + k + 1] /\ buf'[k].id = o + k + 1
               /\ o + k + 1 \in 1 .. Len(stored) /\ stored[o + k + 1] \in Emits
               /\ id'[stored[o + k + 1]] = o + k + 1 /\ pc'[stored[o + k + 1]] \in Pushed
    <3>1. o + k + 1 \in 1 .. Len(stored)
      BY <2>2, <2>3
    <3>2. stored[o + k + 1] \in Emits /\ pc[stored[o + k + 1]] # "new" /\ id[stored[o + k + 1]] = o + k + 1
      BY <3>1 DEF StoredOK, Types
    <3>3. id' = id /\ pc' = [m \in Emits |-> IF m \in Emitting THEN "killed" ELSE pc[m]]
      BY <1>3, RestartEffect
    <3>4. pc'[stored[o + k + 1]] \in Pushed
      BY <3>2, <3>3 DEF Types, Emitting, Pushed
    <3>5. buf'[k] = [src |-> stored[o + k + 1], id |-> o + k + 1]
      BY <2>2, <2>3
    <3>6. buf'[k].src = stored[o + k + 1] /\ buf'[k].id = o + k + 1
      BY <3>5
    <3>7. stored[o + k + 1] # 0
      BY <3>2, Fields
    <3> HIDE DEF o
    <3>8. buf'[k] # Empty
      BY <3>6, <3>7 DEF Empty
    <3> QED BY <3>1, <3>2, <3>3, <3>4, <3>6, <3>8
  <2> HIDE DEF o
  <2>4. \A k \in Slots : buf'[k] # Empty <=> k < n
    BY <2>2, <2>3
  <2>5. Filled'
    <3> SUFFICES ASSUME NEW k \in Slots PROVE buf'[k] # Empty <=> full' \/ k < pos'
      BY DEF Filled, Slots
    <3>1. k \in 0 .. Capacity - 1 /\ (buf'[k] # Empty <=> k < n)
      BY <2>2, <2>4
    <3>2. CASE n = Capacity
      <4>1. full'
        BY <2>2, <3>2, Zenon
      <4>2. k < n
        BY <2>2, <3>1, <3>2
      <4> QED BY <3>1, <4>1, <4>2
    <3>3. CASE n # Capacity
      BY <2>2, <3>1, <3>3
    <3> QED BY <3>2, <3>3
  <2>6. ASSUME NEW k \in Slots, buf'[k] # Empty PROVE After(buf'[k]) /\ pc'[buf'[k].src] \in Pushed
    BY <2>3, <2>4, <2>6 DEF After, Pushed
  <2>7. ASSUME NEW k \in Slots, NEW l \in Slots, buf'[k] # Empty, buf'[l] # Empty, buf'[k].src = buf'[l].src
        PROVE  k = l
    <3>1. k < n /\ l < n
      BY <2>4, <2>7
    <3>2. stored[o + k + 1] = stored[o + l + 1] /\ o + k + 1 \in DOMAIN stored /\ o + l + 1 \in DOMAIN stored
      BY <2>3, <2>7, <3>1, RowIds
    <3>3. o + k + 1 = o + l + 1
      BY <3>2 DEF StoredOK
    <3> QED BY <2>2, <3>3
  <2>8. Slots' = Slots /\ Empty' = Empty
    BY DEF Slots, Empty
  <2> QED BY <2>5, <2>6, <2>7, <2>8 DEF RingOK, EventOK, After
<1> QED BY <1>1, <1>2, <1>3, RingFrame

(* What a replay holds comes from the ring, each event once. *)
LEMMA ReplaySound ==
    ASSUME Types, RingOK, NEW c \in Clients
    PROVE  /\ ReplayOf(c) \in Seq(Events)
           /\ \A i \in 1 .. Len(ReplayOf(c)) : EventOK(ReplayOf(c)[i]) /\ pc[ReplayOf(c)[i].src] \in Pushed
           /\ \A i, j \in 1 .. Len(ReplayOf(c)) : ReplayOf(c)[i].src = ReplayOf(c)[j].src => i = j
<1> DEFINE es == ReplayOf(c)
<1>0. Filled
  BY DEF RingOK
<1>1. es \in Seq(Events)
  BY <1>0, ReplayEvents
<1>2. CASE es = << >>
  BY <1>1, <1>2
<1>3. CASE \E w : Picks(es, w, Size, lastId[c])
  <2>1. PICK w : Picks(es, w, Size, lastId[c])
    BY <1>3
  <2> HIDE DEF es
  <2>2. /\ w \in [1 .. Len(es) -> 1 .. Size] /\ Len(es) \in Nat
        /\ \A i, j \in 1 .. Len(es) : i < j => w[i] < w[j]
        /\ \A i \in 1 .. Len(es) : es[i] = Entry(w[i])
    BY <1>1, <2>1 DEF Picks
  <2>3. ASSUME NEW k \in 1 .. Size
        PROVE  At(k) \in Slots /\ Entry(k) = buf[At(k)] /\ EventOK(Entry(k)) /\ pc[Entry(k).src] \in Pushed
               /\ buf[At(k)] # Empty
    <3>1. At(k) \in Slots /\ Entry(k) = buf[At(k)] /\ (full \/ At(k) < pos)
      BY Index
    <3>2. buf[At(k)] # Empty
      BY <1>0, <3>1 DEF Filled
    <3> QED BY <3>1, <3>2 DEF RingOK
  <2>4. ASSUME NEW i \in 1 .. Len(es), NEW j \in 1 .. Len(es), es[i].src = es[j].src PROVE i = j
    <3>1. w[i] \in 1 .. Size /\ w[j] \in 1 .. Size /\ es[i] = Entry(w[i]) /\ es[j] = Entry(w[j])
      BY <2>2
    <3>2. At(w[i]) = At(w[j])
      BY <2>3, <2>4, <3>1 DEF RingOK
    <3>3. w[i] = w[j]
      BY <3>1, <3>2, Index
    <3>4. w[i] \in Int /\ w[j] \in Int
      BY <3>1, Index
    <3> QED BY <2>2, <3>3, <3>4
  <2>5. ASSUME NEW i \in 1 .. Len(es) PROVE EventOK(es[i]) /\ pc[es[i].src] \in Pushed
    BY <2>2, <2>3
  <2> QED BY <1>1, <2>4, <2>5 DEF es
<1> QED BY <1>0, <1>2, <1>3, ReplayEvents

(* Channels and what was written, after any step. *)
LEMMA StreamStep ==
    ASSUME Types, StoredOK, RingOK, Streams, [Next]_vars, NEW c \in Clients
    PROVE  Chan(c)' /\ Got(c)'
<1>1. /\ ch[c] \in Seq(Events) /\ got[c] \in Seq(Events) /\ Len(ch[c]) \in Nat /\ Len(got[c]) \in Nat
  BY DEF Types
<1>2. /\ conn[c] = "off" => ch[c] = << >>
      /\ conn[c] = "subscribed" => got[c] = << >>
      /\ \A k, l \in 1 .. Len(ch[c]) : ch[c][k].src = ch[c][l].src => k = l
      /\ \A k, l \in 1 .. Len(got[c]) : got[c][k].src = got[c][l].src => k = l
      /\ conn[c] = "live" => \A k \in 1 .. Len(got[c]) :
            \/ got[c][k].id <= high[c]
            \/ \A l \in 1 .. Len(ch[c]) : ch[c][l].src # got[c][k].src
  BY DEF Streams, Chan, Got
<1>3. ASSUME NEW k \in 1 .. Len(ch[c])
      PROVE  /\ EventOK(ch[c][k]) /\ After(ch[c][k]) /\ pc[ch[c][k].src] \in {"hooks", "done"}
             /\ ~Restart => pc'[ch[c][k].src] \in {"hooks", "done"}
  <2> DEFINE e == ch[c][k]
  <2>1. EventOK(e) /\ pc[e.src] \in {"hooks", "done"}
    BY DEF Streams, Chan
  <2> HIDE DEF e
  <2>2. After(e) /\ e.src \in Emits
    BY <2>1, EventOKStep DEF EventOK
  <2>3. ~Restart => pc'[e.src] \in {"hooks", "done"}
    BY <2>1, <2>2, Aging
  <2> QED BY <2>1, <2>2, <2>3 DEF e
<1>4. ASSUME NEW k \in 1 .. Len(got[c])
      PROVE  /\ EventOK(got[c][k]) /\ After(got[c][k]) /\ pc[got[c][k].src] \in Pushed /\ pc'[got[c][k].src] \in Pushed
             /\ ~Restart /\ pc[got[c][k].src] \in {"hooks", "done"} => pc'[got[c][k].src] \in {"hooks", "done"}
  <2> DEFINE e == got[c][k]
  <2>1. EventOK(e) /\ pc[e.src] \in Pushed
    BY DEF Streams, Got
  <2> HIDE DEF e
  <2>2. After(e) /\ e.src \in Emits /\ pc'[e.src] \in Pushed
    BY <2>1, EventOKStep, Aging DEF EventOK
  <2>3. ~Restart /\ pc[e.src] \in {"hooks", "done"} => pc'[e.src] \in {"hooks", "done"}
    BY <2>1, <2>2, Aging
  <2> QED BY <2>1, <2>2, <2>3 DEF e
<1>5. CASE Restart
  <2>1. conn'[c] = "off" /\ ch'[c] = << >> /\ got'[c] = got[c]
    BY <1>5, RestartEffect
  <2>2. Chan(c)'
    BY <2>1 DEF Chan
  <2>3. Got(c)'
    BY <1>2, <1>4, <2>1 DEF Got, EventOK, After
  <2> QED BY <2>2, <2>3
<1>6. CASE Still(c) /\ ~Restart
  <2>1. conn'[c] = conn[c] /\ ch'[c] = ch[c] /\ got'[c] = got[c] /\ high'[c] = high[c]
    BY <1>6 DEF Still
  <2>2. Chan(c)'
    BY <1>2, <1>3, <1>6, <2>1 DEF Chan, EventOK, After
  <2>3. conn[c] = "live" => \A k \in 1 .. Len(got[c]) :
         \/ got[c][k].id <= high[c]
         \/ /\ pc'[got[c][k].src] \in {"hooks", "done"}
            /\ \A l \in 1 .. Len(ch[c]) : ch[c][l].src # got[c][k].src
    BY <1>4, <1>6 DEF Streams, Got
  <2>4. Got(c)'
    BY <1>2, <1>4, <2>1, <2>3 DEF Got, EventOK, After
  <2> QED BY <2>2, <2>4
<1>7. CASE (\E m \in Emits : FanOut(m)) /\ ~Restart
  <2>1. PICK m \in Emits : FanOut(m)
    BY <1>7
  <2>2. /\ pc[m] = "fanout" /\ pc'[m] = "hooks" /\ id'[m] = id[m]
        /\ conn'[c] = conn[c] /\ got'[c] = got[c] /\ high'[c] = high[c]
        /\ ch'[c] = ch[c] \/ (ch'[c] = Append(ch[c], Event(m)) /\ conn[c] # "off")
    BY <2>1 DEF FanOut, Goto, Types, Subscribed
  <2>3. Event(m) \in Events /\ Event(m).src = m /\ After(Event(m))
    <3>1. Event(m) \in Events /\ Event(m).src = m /\ Event(m).id = id[m]
      BY EventOf
    <3> QED BY <2>2, <3>1 DEF After
  <2>4. \A k \in 1 .. Len(ch[c]) : ch[c][k].src # m
    BY <1>3, <2>2
  <2>5. \A k \in 1 .. Len(got[c]) : got[c][k].id <= high[c] \/ pc[got[c][k].src] \in {"hooks", "done"}
        \/ conn[c] # "live"
    BY DEF Streams, Got
  <2>6. CASE ch'[c] = ch[c]
    <3>1. Chan(c)'
      BY <1>2, <1>3, <1>7, <2>2, <2>6 DEF Chan, EventOK, After
    <3>2. conn[c] = "live" => \A k \in 1 .. Len(got[c]) :
           \/ got[c][k].id <= high[c]
           \/ /\ pc'[got[c][k].src] \in {"hooks", "done"}
              /\ \A l \in 1 .. Len(ch[c]) : ch[c][l].src # got[c][k].src
      BY <1>4, <1>7 DEF Streams, Got
    <3>3. Got(c)'
      BY <1>2, <1>4, <2>2, <2>6, <3>2 DEF Got, EventOK, After
    <3> QED BY <3>1, <3>3
  <2>7. CASE ch'[c] = Append(ch[c], Event(m)) /\ conn[c] # "off"
    <3>1. /\ Len(ch'[c]) = Len(ch[c]) + 1
          /\ \A k \in 1 .. Len(ch[c]) : ch'[c][k] = ch[c][k]
          /\ ch'[c][Len(ch[c]) + 1] = Event(m)
      BY <1>1, <2>3, <2>7
    <3>2. \A k \in 1 .. Len(ch'[c]) : k \in 1 .. Len(ch[c]) \/ k = Len(ch[c]) + 1
      BY <1>1, <3>1
    <3>3. \A k \in 1 .. Len(ch'[c]) : After(ch'[c][k]) /\ pc'[ch'[c][k].src] \in {"hooks", "done"}
      BY <1>3, <1>7, <2>2, <2>3, <3>1, <3>2
    <3>4. \A k, l \in 1 .. Len(ch'[c]) : ch'[c][k].src = ch'[c][l].src => k = l
      <4> SUFFICES ASSUME NEW k \in 1 .. Len(ch'[c]), NEW l \in 1 .. Len(ch'[c]), ch'[c][k].src = ch'[c][l].src
                   PROVE  k = l
        OBVIOUS
      <4>1. CASE k \in 1 .. Len(ch[c]) /\ l \in 1 .. Len(ch[c])
        BY <1>2, <3>1, <4>1
      <4>2. CASE k = Len(ch[c]) + 1 /\ l \in 1 .. Len(ch[c])
        BY <2>3, <2>4, <3>1, <4>2
      <4>3. CASE l = Len(ch[c]) + 1 /\ k \in 1 .. Len(ch[c])
        BY <2>3, <2>4, <3>1, <4>3
      <4> QED BY <3>2, <4>1, <4>2, <4>3
    <3>5. Chan(c)'
      BY <2>2, <2>7, <3>3, <3>4 DEF Chan, EventOK, After
    <3>6. conn[c] = "live" => \A k \in 1 .. Len(got[c]) :
           \/ got[c][k].id <= high[c]
           \/ /\ pc'[got[c][k].src] \in {"hooks", "done"}
              /\ \A l \in 1 .. Len(ch'[c]) : ch'[c][l].src # got[c][k].src
      <4> SUFFICES ASSUME conn[c] = "live", NEW k \in 1 .. Len(got[c]), ~(got[c][k].id <= high[c])
                   PROVE  /\ pc'[got[c][k].src] \in {"hooks", "done"}
                          /\ \A l \in 1 .. Len(ch'[c]) : ch'[c][l].src # got[c][k].src
        OBVIOUS
      <4>1. pc[got[c][k].src] \in {"hooks", "done"} /\ \A l \in 1 .. Len(ch[c]) : ch[c][l].src # got[c][k].src
        BY DEF Streams, Got
      <4>2. got[c][k].src # m
        BY <2>2, <4>1
      <4> QED BY <1>4, <1>7, <2>3, <3>1, <3>2, <4>1, <4>2
    <3>7. Got(c)'
      BY <1>2, <1>4, <2>2, <3>6 DEF Got, EventOK, After
    <3> QED BY <3>5, <3>7
  <2> QED BY <2>2, <2>6, <2>7
<1>8. CASE Connect(c) /\ ~Restart
  <2>1. conn[c] = "off" /\ conn'[c] = "subscribed" /\ got'[c] = << >> /\ ch'[c] = ch[c]
    BY <1>8 DEF Connect, Types
  <2>2. Chan(c)'
    BY <1>2, <2>1 DEF Chan
  <2>3. Got(c)'
    BY <2>1 DEF Got
  <2> QED BY <2>2, <2>3
<1>9. CASE Replay(c) /\ ~Restart
  <2> DEFINE es == ReplayOf(c)
             h == Max({0} \cup {e.id : e \in Range(es)})
  <2>1. /\ es \in Seq(Events)
        /\ \A i \in 1 .. Len(es) : EventOK(es[i]) /\ pc[es[i].src] \in Pushed
        /\ \A i, j \in 1 .. Len(es) : es[i].src = es[j].src => i = j
    BY ReplaySound
  <2>2. \A k \in 1 .. Len(es) : es[k].id <= h
    BY <2>1, HighId
  <2>3. conn[c] = "subscribed" /\ conn'[c] = "live" /\ ch'[c] = ch[c] /\ high'[c] = h /\ Write(c, es)
        /\ pc' = pc /\ id' = id
    BY <1>9 DEF Replay, Types, emitVars
  <2> HIDE DEF es, h
  <2>4. got'[c] = got[c] \o es
    BY <2>1, <2>3, WriteEffect
  <2>5. got'[c] = es
    BY <1>2, <2>1, <2>3, <2>4
  <2>6. Chan(c)'
    BY <1>2, <1>3, <1>9, <2>3 DEF Chan, EventOK, After
  <2>7. Got(c)'
    BY <2>1, <2>2, <2>3, <2>5 DEF Got, EventOK
  <2> QED BY <2>6, <2>7
<1>10. CASE ReplayBreaks(c) /\ ~Restart
  <2> DEFINE es == ReplayOf(c)
  <2>1. /\ es \in Seq(Events)
        /\ \A i \in 1 .. Len(es) : EventOK(es[i]) /\ pc[es[i].src] \in Pushed
        /\ \A i, j \in 1 .. Len(es) : es[i].src = es[j].src => i = j
    BY ReplaySound
  <2>2. PICK n \in 0 .. Len(es) - 1 : Write(c, SubSeq(es, 1, n))
    BY <1>10 DEF ReplayBreaks
  <2>3. conn[c] = "subscribed" /\ conn'[c] = "off" /\ ch'[c] = << >> /\ pc' = pc /\ id' = id
    BY <1>10 DEF ReplayBreaks, Unsubscribe, Types, emitVars
  <2> HIDE DEF es
  <2>4. /\ SubSeq(es, 1, n) \in Seq(Events) /\ Len(SubSeq(es, 1, n)) = n
        /\ \A k \in 1 .. n : k \in 1 .. Len(es) /\ SubSeq(es, 1, n)[k] = es[k]
    <3>1. Len(es) \in Nat /\ n \in Int /\ 1 <= n + 1 /\ n <= Len(es) /\ n - 1 + 1 = n
      BY <2>1
    <3>2. /\ SubSeq(es, 1, n) \in Seq(Events) /\ Len(SubSeq(es, 1, n)) = n - 1 + 1
          /\ \A k \in 1 .. (n - 1 + 1) : SubSeq(es, 1, n)[k] = es[1 + k - 1]
      BY <2>1, <3>1, Part
    <3>3. \A k \in 1 .. n : k \in 1 .. Len(es) /\ 1 + k - 1 = k
      BY <3>1
    <3> QED BY <3>1, <3>2, <3>3
  <2>5. got'[c] = got[c] \o SubSeq(es, 1, n)
    BY <2>2, <2>4, WriteEffect
  <2>6. got'[c] = SubSeq(es, 1, n)
    BY <1>2, <2>3, <2>4, <2>5, ConcatEmptySeq
  <2>7. Chan(c)'
    BY <2>3 DEF Chan
  <2>8. Got(c)'
    <3>1. /\ Len(got'[c]) = n /\ \A k \in 1 .. n : k \in 1 .. Len(es) /\ got'[c][k] = es[k]
      BY <2>4, <2>6
    <3>2. \A k \in 1 .. n : EventOK(got'[c][k]) /\ pc[got'[c][k].src] \in Pushed
      BY <2>1, <3>1
    <3>3. \A k, l \in 1 .. n : got'[c][k].src = got'[c][l].src => k = l
      BY <2>1, <3>1
    <3> QED BY <2>3, <3>1, <3>2, <3>3 DEF Got, EventOK
  <2> QED BY <2>7, <2>8
<1>11. CASE Receive(c) /\ ~Restart
  <2> DEFINE e == Head(ch[c])
             es == IF AlreadySent(e, c) THEN << >> ELSE <<e>>
  <2>1. conn[c] = "live" /\ ch[c] # << >> /\ conn'[c] = "live" /\ ch'[c] = Tail(ch[c]) /\ Write(c, es)
        /\ high'[c] = high[c] /\ pc' = pc /\ id' = id
    BY <1>11 DEF Receive, Types, emitVars
  <2>2. /\ 1 \in 1 .. Len(ch[c]) /\ e = ch[c][1] /\ e \in Events
        /\ Len(ch'[c]) = Len(ch[c]) - 1
        /\ \A k \in 1 .. Len(ch'[c]) : k + 1 \in 1 .. Len(ch[c]) /\ ch'[c][k] = ch[c][k + 1]
    BY <1>1, <2>1
  <2>3. EventOK(e) /\ pc[e.src] \in {"hooks", "done"}
    BY <1>3, <2>2
  <2>4. \A k \in 1 .. Len(ch'[c]) : ch'[c][k].src # e.src
    BY <1>1, <1>2, <2>2
  <2> HIDE DEF e
  <2>5. Chan(c)'
    <3>1. \A k \in 1 .. Len(ch'[c]) : EventOK(ch'[c][k]) /\ pc[ch'[c][k].src] \in {"hooks", "done"}
      BY <1>3, <2>2
    <3>2. \A k, l \in 1 .. Len(ch'[c]) : ch'[c][k].src = ch'[c][l].src => k = l
      <4> SUFFICES ASSUME NEW k \in 1 .. Len(ch'[c]), NEW l \in 1 .. Len(ch'[c]), ch'[c][k].src = ch'[c][l].src
                   PROVE  k = l
        OBVIOUS
      <4>1. k + 1 \in 1 .. Len(ch[c]) /\ l + 1 \in 1 .. Len(ch[c]) /\ ch[c][k + 1].src = ch[c][l + 1].src
        BY <2>2
      <4>2. k + 1 = l + 1
        BY <1>2, <4>1
      <4> QED BY <1>1, <2>2, <4>2
    <3> QED BY <2>1, <3>1, <3>2 DEF Chan, EventOK
  <2>6. es \in Seq(Events)
    BY <2>2
  <2> HIDE DEF es
  <2>7. got'[c] = got[c] \o es
    BY <2>1, <2>6, WriteEffect
  <2>8. \A k \in 1 .. Len(got[c]) :
           \/ got[c][k].id <= high[c]
           \/ /\ pc[got[c][k].src] \in {"hooks", "done"}
              /\ \A l \in 1 .. Len(ch[c]) : ch[c][l].src # got[c][k].src
    BY <2>1 DEF Streams, Got
  <2>9. \A k \in 1 .. Len(got[c]) :
           \/ got[c][k].id <= high[c]
           \/ /\ pc[got[c][k].src] \in {"hooks", "done"}
              /\ \A l \in 1 .. Len(ch'[c]) : ch'[c][l].src # got[c][k].src
    <3>1. ASSUME NEW x, \A l \in 1 .. Len(ch[c]) : ch[c][l].src # x
          PROVE  \A l \in 1 .. Len(ch'[c]) : ch'[c][l].src # x
      BY <2>2, <3>1
    <3> QED BY <2>8, <3>1
  <2>10. CASE AlreadySent(e, c)
    <3>1. got'[c] = got[c]
      BY <1>1, <2>7, <2>10 DEF es
    <3> QED BY <1>2, <1>4, <2>1, <2>5, <2>9, <3>1, SMTT(30) DEF Got, EventOK
  <2>11. CASE ~AlreadySent(e, c)
    <3>1. got'[c] = got[c] \o <<e>>
      BY <2>7, <2>11 DEF es
    <3>2. /\ Len(got'[c]) = Len(got[c]) + 1
          /\ \A k \in 1 .. Len(got[c]) : got'[c][k] = got[c][k]
          /\ got'[c][Len(got[c]) + 1] = e
      BY <1>1, <2>2, <3>1
    <3>3. \A k \in 1 .. Len(got'[c]) : k \in 1 .. Len(got[c]) \/ k = Len(got[c]) + 1
      BY <1>1, <3>2
    <3>4. \A k \in 1 .. Len(got[c]) : got[c][k].src # e.src
      <4> SUFFICES ASSUME NEW k \in 1 .. Len(got[c]), got[c][k].src = e.src PROVE FALSE
        OBVIOUS
      <4>1. got[c][k].id = e.id
        BY <1>4, <2>3 DEF EventOK
      <4>2. ~(e.id <= high[c])
        BY <2>11 DEF AlreadySent
      <4>3. \A l \in 1 .. Len(ch[c]) : ch[c][l].src # e.src
        BY <2>8, <4>1, <4>2
      <4> QED BY <2>2, <4>3
    <3>5. \A k \in 1 .. Len(got'[c]) : EventOK(got'[c][k]) /\ pc[got'[c][k].src] \in Pushed
      BY <1>4, <2>3, <3>2, <3>3 DEF Pushed
    <3>6. \A k, l \in 1 .. Len(got'[c]) : got'[c][k].src = got'[c][l].src => k = l
      <4> SUFFICES ASSUME NEW k \in 1 .. Len(got'[c]), NEW l \in 1 .. Len(got'[c]), got'[c][k].src = got'[c][l].src
                   PROVE  k = l
        OBVIOUS
      <4>1. CASE k \in 1 .. Len(got[c]) /\ l \in 1 .. Len(got[c])
        BY <1>2, <3>2, <4>1
      <4>2. CASE k = Len(got[c]) + 1 /\ l \in 1 .. Len(got[c])
        BY <3>2, <3>4, <4>2
      <4>3. CASE l = Len(got[c]) + 1 /\ k \in 1 .. Len(got[c])
        BY <3>2, <3>4, <4>3
      <4> QED BY <3>3, <4>1, <4>2, <4>3
    <3>7. \A k \in 1 .. Len(got'[c]) :
           \/ got'[c][k].id <= high[c]
           \/ /\ pc[got'[c][k].src] \in {"hooks", "done"}
              /\ \A l \in 1 .. Len(ch'[c]) : ch'[c][l].src # got'[c][k].src
      BY <2>3, <2>4, <2>9, <3>2, <3>3
    <3> QED BY <2>1, <2>5, <3>5, <3>6, <3>7 DEF Got, EventOK
  <2> QED BY <2>10, <2>11
<1>12. CASE Disconnect(c) /\ ~Restart
  <2>1. conn'[c] = "off" /\ ch'[c] = << >> /\ got'[c] = got[c]
    BY <1>12 DEF Disconnect, Unsubscribe, Types
  <2>2. Chan(c)'
    BY <2>1 DEF Chan
  <2>3. Got(c)'
    BY <1>2, <1>4, <2>1 DEF Got, EventOK, After
  <2> QED BY <2>2, <2>3
<1> QED BY <1>5, <1>6, <1>7, <1>8, <1>9, <1>10, <1>11, <1>12, ClientFrame

-----------------------------------------------------------------------------
(* The invariant of the ring and the streams *)

InvA == Types /\ StoredOK /\ RingOK /\ Streams

(* It holds at the start. *)
LEMMA InitA == Init => InvA
<1> SUFFICES ASSUME Init PROVE InvA
  OBVIOUS
<1> USE DEF Init
<1>1. Types
  <2>1. << >> \in Seq(Emits) /\ << >> \in Seq(Events) /\ Len(<< >>) = 0
    OBVIOUS
  <2>2. 0 \in Slots /\ 0 \in Nat /\ 0 <= ChanCap /\ 0 \in 0 .. MaxDrops /\ Burst \in 0 .. Burst /\ 0 \in 0 .. MaxRestarts
    BY EventLogAssumption DEF Slots
  <2>3. /\ stored \in Seq(Emits) /\ seq \in Nat /\ buf \in [Slots -> Events \cup {Empty}]
        /\ pos \in Slots /\ full \in BOOLEAN
        /\ pc \in [Emits -> {"new", "seq", "ring", "fanout", "hooks", "done", "killed"}]
        /\ id \in [Emits -> Nat]
    BY <2>1, <2>2
  <2>4. /\ ch \in [Clients -> Seq(Events)] /\ \A c \in Clients : Len(ch[c]) <= ChanCap
        /\ got \in [Clients -> Seq(Events)]
    BY <2>1, <2>2
  <2> QED BY <2>2, <2>3, <2>4 DEF Types
<1>2. StoredOK
  BY DEF StoredOK
<1>3. \A k \in Slots : buf[k] = Empty /\ ~(k < pos)
  BY EventLogAssumption DEF Slots
<1>4. RingOK
  BY <1>3 DEF RingOK, Filled
<1>5. \A c \in Clients : ch[c] = << >> /\ got[c] = << >> /\ conn[c] = "off"
  OBVIOUS
<1>6. Streams
  BY <1>5 DEF Streams, Chan, Got
<1> QED BY <1>1, <1>2, <1>4, <1>6 DEF InvA

(* And every step keeps it. *)
LEMMA StepA == InvA /\ [Next]_vars => InvA'
<1> SUFFICES ASSUME InvA, [Next]_vars PROVE InvA'
  OBVIOUS
<1>1. Types /\ StoredOK /\ RingOK /\ Streams /\ Filled
  BY DEF InvA, RingOK
<1>2. Types' /\ StoredOK' /\ RingOK'
  BY <1>1, TypesStep, StoredStep, RingStep
<1>3. Streams'
  BY <1>1, StreamStep DEF Streams
<1> QED BY <1>2, <1>3 DEF InvA

(* It holds in every reachable state. *)
LEMMA InvariantA == Spec => []InvA
BY InitA, StepA, PTL DEF Spec

(* Every variable keeps its type, and no event is stored twice. *)
THEOREM TypeCorrect == Spec => []TypeOK
<1>1. InvA => TypeOK
  <2> SUFFICES ASSUME InvA PROVE TypeOK
    OBVIOUS
  <2>1. Types /\ IsInjective(stored)
    BY RowIds DEF InvA
  <2> QED BY <2>1 DEF Types, TypeOK
<1> QED BY <1>1, InvariantA, PTL

(* On one connection no event is written twice, for any number of events,     *)
(* clients and connections, however Emit calls race and whatever is both in   *)
(* the replay and in the channel: highID covers what was replayed, and what   *)
(* came through the channel has left it (handleEventsStream).                 *)
THEOREM NothingTwice == Spec => []NoDuplicate
<1>1. InvA => NoDuplicate
  <2> SUFFICES ASSUME InvA, NEW c \in Clients
               PROVE  IsInjective([k \in DOMAIN got[c] |-> got[c][k].src])
    BY DEF NoDuplicate
  <2>1. DOMAIN got[c] = 1 .. Len(got[c])
    BY DEF InvA, Types
  <2>2. \A k, l \in 1 .. Len(got[c]) : got[c][k].src = got[c][l].src => k = l
    BY DEF InvA, Streams, Got
  <2> QED BY <2>1, <2>2 DEF IsInjective
<1> QED BY <1>1, InvariantA, PTL

-----------------------------------------------------------------------------
(* The ring is the feed *)

FeedNow == [k \in 1 .. Size |-> Entry(k).src]

(* The feed is a sequence of events. *)
LEMMA FeedType ==
    ASSUME InvA
    PROVE  /\ FeedNow \in Seq(Emits) /\ Len(FeedNow) = Size /\ Size \in 0 .. Capacity
           /\ \A k \in 1 .. Size : FeedNow[k] = Entry(k).src
<1>1. Size \in 0 .. Capacity /\ Size \in Nat
  BY Index, EventLogAssumption DEF InvA
<1>2. \A k \in 1 .. Size : Entry(k).src \in Emits
  BY Entries, Fields DEF InvA, RingOK
<1> QED BY <1>1, <1>2 DEF FeedNow

(* After PushRing: the new event last, the others before it, less the oldest  *)
(* when the ring was full.                                                    *)
LEMMA PushEntries ==
    ASSUME InvA, InvA', NEW m \in Emits, PushRing(m)
    PROVE  /\ Size' = IF full THEN Capacity ELSE Size + 1
           /\ \A k \in 1 .. Size' : k = Size' => Entry(k)' = Event(m)
           /\ \A k \in 1 .. Size' - 1 :
                 LET l == IF full THEN k + 1 ELSE k IN l \in 1 .. Size /\ Entry(k)' = Entry(l)
<1>1. Types /\ Types'
  BY DEF InvA
<1>2. /\ Capacity \in Nat \ {0} /\ pos \in 0 .. Capacity - 1 /\ full \in BOOLEAN /\ Slots = 0 .. Capacity - 1
      /\ Size = IF full THEN Capacity ELSE pos
      /\ Size' = IF full' THEN Capacity ELSE pos'
  BY <1>1, EventLogAssumption DEF Types, Slots, Size
<1>3. /\ \A k \in Slots : buf'[k] = IF k = pos THEN Event(m) ELSE buf[k]
      /\ pos' = IF pos + 1 = Capacity THEN 0 ELSE pos + 1
      /\ full' <=> full \/ pos + 1 = Capacity
  <2>1. /\ buf' = [buf EXCEPT ![pos] = Event(m)]
        /\ pos' = IF pos + 1 = Capacity THEN 0 ELSE pos + 1
        /\ full' = (full \/ pos + 1 = Capacity)
    BY <1>1, PushEffect
  <2>2. buf \in [Slots -> Events \cup {Empty}] /\ full' \in BOOLEAN
    BY <1>1 DEF Types
  <2>3. \A k \in Slots : buf'[k] = IF k = pos THEN Event(m) ELSE buf[k]
    BY <2>1, <2>2
  <2> QED BY <2>1, <2>2, <2>3
<1>4. Size' = IF full THEN Capacity ELSE Size + 1
  BY <1>2, <1>3
<1>5. ASSUME NEW k \in 1 .. Size' PROVE Entry(k)' = buf'[Where(pos', full', k)]
  <2>1. pos' \in Slots /\ full' \in BOOLEAN /\ Size' = IF full' THEN Capacity ELSE pos'
    BY <1>1, <1>2 DEF Types, Slots
  <2>2. (pos' - Size' + k - 1 + Capacity) % Capacity = Where(pos', full', k)
    BY <2>1, SlotOf
  <2> QED BY <2>2 DEF Entry
<1>6. \A k \in 1 .. Size : Entry(k) = buf[Where(pos, full, k)] /\ Where(pos, full, k) \in Slots
  BY <1>1, Index DEF At
<1>7. ASSUME NEW k \in 1 .. Size', k = Size' PROVE Entry(k)' = Event(m)
  <2>1. Where(pos', full', k) = pos
    <3>1. CASE full
      BY <1>2, <1>3, <1>4, <1>7, <3>1 DEF Where
    <3>2. CASE ~full
      BY <1>2, <1>3, <1>4, <1>7, <3>2 DEF Where
    <3> QED BY <3>1, <3>2
  <2>2. Entry(k)' = buf'[Where(pos', full', k)]
    BY <1>5
  <2> QED BY <1>2, <1>3, <2>1, <2>2
<1>8. ASSUME NEW k \in 1 .. Size' - 1, full PROVE k + 1 \in 1 .. Size /\ Entry(k)' = Entry(k + 1)
  <2>1. k \in 1 .. Size' /\ k + 1 \in 1 .. Size
    BY <1>2, <1>4, <1>8
  <2>2. Where(pos', full', k) = Where(pos, full, k + 1) /\ Where(pos, full, k + 1) # pos
    BY <1>2, <1>3, <1>4, <1>8, <2>1 DEF Where
  <2> QED BY <1>3, <1>5, <1>6, <2>1, <2>2
<1>9. ASSUME NEW k \in 1 .. Size' - 1, ~full PROVE k \in 1 .. Size /\ Entry(k)' = Entry(k)
  <2>1. k \in 1 .. Size' /\ k \in 1 .. Size
    BY <1>2, <1>4, <1>9
  <2>2. Where(pos', full', k) = Where(pos, full, k) /\ Where(pos, full, k) # pos
    BY <1>2, <1>3, <1>4, <1>9, <2>1 DEF Where
  <2>3. Entry(k)' = buf'[Where(pos, full, k)]
    BY <1>5, <2>1, <2>2
  <2>4. Entry(k)' = buf[Where(pos, full, k)]
    BY <1>3, <1>6, <2>1, <2>2, <2>3
  <2> QED BY <1>6, <2>1, <2>4
<1> QED BY <1>4, <1>7, <1>8, <1>9

(* PushRing appends to the feed, and drops its oldest entry when it is full. *)
LEMMA PushSimulates ==
    ASSUME InvA, InvA', NEW m \in Emits, PushRing(m)
    PROVE  FeedNow' = Feed!LastOf(Append(FeedNow, m), Capacity)
<1>1. Capacity \in Nat \ {0} /\ full \in BOOLEAN /\ Size \in 0 .. Capacity /\ (full => Size = Capacity)
      /\ (~full => Size < Capacity)
  BY EventLogAssumption DEF InvA, Types, Size, Slots
<1>2. Size' = IF full THEN Capacity ELSE Size + 1
  BY PushEntries
<1>3. /\ FeedNow \in Seq(Emits) /\ Len(FeedNow) = Size /\ \A k \in 1 .. Size : FeedNow[k] = Entry(k).src
  BY FeedType
<1>4. FeedNow' = [k \in 1 .. Size' |-> Entry(k)'.src]
  BY DEF FeedNow
<1> DEFINE s == FeedNow
           t == Append(s, m)
<1>5. /\ t \in Seq(Emits) /\ Len(t) = Size + 1 /\ Size \in Nat
      /\ \A k \in 1 .. Size : t[k] = Entry(k).src
      /\ t[Size + 1] = m
  BY <1>1, <1>3
<1> HIDE DEF s, t
<1>6. Event(m).src = m
  BY EventOf DEF InvA
<1>7. CASE ~full
  <2>1. Size' = Size + 1 /\ ~(Len(t) > Capacity)
    BY <1>1, <1>2, <1>5, <1>7
  <2>2. Feed!LastOf(t, Capacity) = SubSeq(t, 1, Len(t))
    BY <2>1 DEF Feed!LastOf
  <2>3. /\ SubSeq(t, 1, Len(t)) \in Seq(Emits) /\ Len(SubSeq(t, 1, Len(t))) = Size + 1
        /\ \A k \in 1 .. Size + 1 : SubSeq(t, 1, Len(t))[k] = t[k]
    BY <1>1, <1>5
  <2>4. ASSUME NEW k \in 1 .. Size + 1 PROVE Entry(k)'.src = t[k]
    <3>1. CASE k = Size + 1
      BY <1>5, <1>6, <2>1, <3>1, PushEntries
    <3>2. CASE k # Size + 1
      <4>1. k \in 1 .. Size' - 1 /\ k \in 1 .. Size
        BY <1>1, <2>1, <3>2
      <4>2. Entry(k)' = Entry(k)
        BY <1>7, <4>1, PushEntries
      <4> QED BY <1>5, <4>1, <4>2
    <3> QED BY <3>1, <3>2
  <2>5. FeedNow' = SubSeq(t, 1, Len(t))
    <3>1. SubSeq(t, 1, Len(t)) = [k \in 1 .. Size + 1 |-> t[k]]
      BY <1>1, <2>3
    <3>2. FeedNow' = [k \in 1 .. Size + 1 |-> t[k]]
      BY <1>4, <2>1, <2>4
    <3> QED BY <3>1, <3>2
  <2> QED BY <2>2, <2>5 DEF t, s
<1>8. CASE full
  <2>1. Size = Capacity /\ Size' = Capacity /\ Len(t) = Capacity + 1 /\ Len(t) > Capacity
        /\ Len(t) - Capacity + 1 = 2
    BY <1>1, <1>2, <1>5, <1>8
  <2>2. Feed!LastOf(t, Capacity) = SubSeq(t, 2, Len(t))
    BY <2>1 DEF Feed!LastOf
  <2>3. /\ SubSeq(t, 2, Len(t)) \in Seq(Emits) /\ Len(SubSeq(t, 2, Len(t))) = Capacity
        /\ \A k \in 1 .. Capacity : SubSeq(t, 2, Len(t))[k] = t[k + 1]
    BY <1>1, <1>5, <2>1
  <2>4. ASSUME NEW k \in 1 .. Capacity PROVE Entry(k)'.src = t[k + 1]
    <3>1. CASE k = Capacity
      BY <1>5, <1>6, <2>1, <3>1, PushEntries
    <3>2. CASE k # Capacity
      <4>1. k \in 1 .. Size' - 1 /\ k + 1 \in 1 .. Size
        BY <1>1, <2>1, <3>2
      <4>2. Entry(k)' = Entry(k + 1)
        BY <1>8, <4>1, PushEntries
      <4> QED BY <1>5, <4>1, <4>2
    <3> QED BY <3>1, <3>2
  <2>5. FeedNow' = SubSeq(t, 2, Len(t))
    <3>1. SubSeq(t, 2, Len(t)) = [k \in 1 .. Capacity |-> t[k + 1]]
      BY <1>1, <2>3
    <3>2. FeedNow' = [k \in 1 .. Capacity |-> t[k + 1]]
      BY <1>4, <2>1, <2>4
    <3> QED BY <3>1, <3>2
  <2> QED BY <2>2, <2>5 DEF t, s
<1> QED BY <1>1, <1>7, <1>8

(* After a restart: the rows that were loaded, oldest first. *)
LEMMA RestartEntries ==
    ASSUME InvA, InvA', Restart, NEW n, Loaded(n)
    PROVE  /\ Size' = n /\ (full' <=> n = Capacity)
           /\ \A k \in 1 .. n : Entry(k)' = [src |-> stored[Len(stored) - n + k], id |-> Len(stored) - n + k]
<1>1. Types /\ Types' /\ StoredOK
  BY DEF InvA
<1>2. Loaded(n)
  OBVIOUS
<1> DEFINE o == Len(stored) - n
<1>3. /\ Capacity \in Nat \ {0} /\ stored \in Seq(Emits) /\ Len(stored) \in Nat
      /\ n \in 0 .. Capacity /\ n <= Len(stored) /\ n \in Nat /\ o \in Nat
      /\ \A k \in Slots : buf'[k] = IF k < n THEN [src |-> stored[o + k + 1], id |-> o + k + 1] ELSE Empty
      /\ pos' = IF n = Capacity THEN 0 ELSE n
      /\ (full' <=> n = Capacity) /\ full' \in BOOLEAN
      /\ Slots = 0 .. Capacity - 1
  <2>1. /\ Capacity \in Nat \ {0} /\ stored \in Seq(Emits) /\ Len(stored) \in Nat /\ full' \in BOOLEAN
        /\ Slots = 0 .. Capacity - 1
    BY <1>1, EventLogAssumption DEF Types, Slots
  <2>2. /\ n \in 0 .. Capacity /\ n <= Len(stored)
        /\ buf' = [k \in Slots |->
                      IF k < n THEN [src |-> stored[o + k + 1], id |-> o + k + 1] ELSE Empty]
        /\ pos' = IF n = Capacity THEN 0 ELSE n
        /\ full' = (n = Capacity)
    BY <1>2 DEF Loaded
  <2>3. n \in Nat /\ o \in Nat
    BY <2>1, <2>2
  <2> HIDE DEF o
  <2> QED BY <2>1, <2>2, <2>3
<1>4. Size' = n /\ pos' \in Slots /\ full' \in BOOLEAN /\ Size' = IF full' THEN Capacity ELSE pos'
  <2>1. Size' = IF full' THEN Capacity ELSE pos'
    BY DEF Size
  <2>2. CASE n = Capacity
    BY <1>3, <2>1, <2>2
  <2>3. CASE n # Capacity
    BY <1>3, <2>1, <2>3
  <2> QED BY <2>2, <2>3
<1>5. ASSUME NEW k \in 1 .. n PROVE Entry(k)' = [src |-> stored[o + k], id |-> o + k]
  <2>1. Where(pos', full', k) = k - 1 /\ k - 1 \in Slots /\ k - 1 < n /\ o + (k - 1) + 1 = o + k
    <3>1. o + (k - 1) + 1 = o + k /\ k - 1 \in Slots /\ k - 1 < n
      BY <1>3
    <3>2. Where(pos', full', k) = k - 1
      BY <1>3, <3>1 DEF Where
    <3> QED BY <3>1, <3>2
  <2>2. (pos' - Size' + k - 1 + Capacity) % Capacity = Where(pos', full', k)
    BY <1>4, SlotOf
  <2>3. Entry(k)' = buf'[k - 1]
    BY <2>1, <2>2 DEF Entry
  <2>4. buf'[k - 1] = [src |-> stored[o + (k - 1) + 1], id |-> o + (k - 1) + 1]
    BY <1>3, <2>1
  <2> HIDE DEF o
  <2> QED BY <2>1, <2>3, <2>4
<1> QED BY <1>3, <1>4, <1>5

(* A restart reads the end of the table, or nothing. *)
LEMMA RestartSimulates ==
    ASSUME InvA, InvA', Restart
    PROVE  FeedNow' \in {Feed!LastOf(stored, Capacity), << >>}
<1>1. Types /\ StoredOK
  BY DEF InvA
<1> DEFINE n0 == IF Len(stored) < Capacity THEN Len(stored) ELSE Capacity
<1>2. PICK n : Loaded(n) /\ (n = n0 \/ n = 0)
  BY <1>1, RestartEffect
<1> DEFINE o == Len(stored) - n
<1>3. /\ Capacity \in Nat \ {0} /\ stored \in Seq(Emits) /\ Len(stored) \in Nat
      /\ n \in 0 .. Capacity /\ n <= Len(stored) /\ n \in Nat /\ o \in Nat
  BY <1>1, <1>2, EventLogAssumption DEF Loaded, Types
<1>4. Size' = n /\ \A k \in 1 .. n : Entry(k)' = [src |-> stored[o + k], id |-> o + k]
  BY <1>2, RestartEntries
<1>5. \A k \in 1 .. n : Entry(k)'.src = stored[o + k]
  BY <1>4
<1>6. FeedNow' = [k \in 1 .. n |-> stored[o + k]]
  BY <1>4, <1>5 DEF FeedNow
<1>7. CASE n = 0
  <2>1. FeedNow' = << >>
    BY <1>6, <1>7
  <2> QED BY <2>1
<1>8. CASE n = n0
  <2> DEFINE a == IF Len(stored) > Capacity THEN Len(stored) - Capacity + 1 ELSE 1
  <2>1. a = o + 1 /\ a \in Int /\ 1 <= a /\ a <= Len(stored) + 1 /\ Len(stored) - a + 1 = n
    <3>1. CASE Len(stored) < Capacity
      BY <1>3, <1>8, <3>1
    <3>2. CASE ~(Len(stored) < Capacity)
      BY <1>3, <1>8, <3>2
    <3> QED BY <3>1, <3>2
  <2>2. Feed!LastOf(stored, Capacity) = SubSeq(stored, a, Len(stored))
    BY DEF Feed!LastOf
  <2> HIDE DEF a, n0, o
  <2>3. /\ SubSeq(stored, a, Len(stored)) \in Seq(Emits) /\ Len(SubSeq(stored, a, Len(stored))) = Len(stored) - a + 1
        /\ \A k \in 1 .. (Len(stored) - a + 1) : SubSeq(stored, a, Len(stored))[k] = stored[a + k - 1]
    BY <1>3, <2>1, Part
  <2>4. \A k \in 1 .. n : a + k - 1 = o + k
    BY <1>3, <2>1
  <2>5. SubSeq(stored, a, Len(stored)) = [k \in 1 .. n |-> stored[o + k]]
    BY <1>3, <2>1, <2>3, <2>4
  <2> QED BY <1>6, <2>2, <2>5
<1> QED BY <1>2, <1>7, <1>8

(* Every step of the log is a step of the feed or leaves it alone. *)
LEMMA FeedStep ==
    ASSUME InvA, InvA', [Next]_vars
    PROVE  [Feed!Next]_<<FeedNow, stored, restarts>>
<1>1. CASE \E m \in Emits : Insert(m)
  <2>1. PICK m \in Emits : Insert(m)
    BY <1>1
  <2>2. stored' = Append(stored, m) /\ UNCHANGED <<buf, pos, full, restarts>>
    BY <2>1 DEF Insert, ring
  <2>3. FeedNow' = FeedNow
    BY <2>2 DEF FeedNow, Size, Entry
  <2>4. Feed!Persist(m)
    BY <2>2, <2>3 DEF Feed!Persist, FeedNow
  <2> QED BY <2>4 DEF Feed!Next
<1>2. CASE \E m \in Emits : PushRing(m)
  <2>1. PICK m \in Emits : PushRing(m)
    BY <1>2
  <2>2. FeedNow' = Feed!LastOf(Append(FeedNow, m), Capacity)
    BY <2>1, PushSimulates
  <2>3. UNCHANGED <<stored, restarts>>
    BY <2>1 DEF PushRing, history
  <2>4. Feed!Push(m)
    BY <2>2, <2>3 DEF Feed!Push, FeedNow
  <2> QED BY <2>4 DEF Feed!Next
<1>3. CASE Restart
  <2>1. FeedNow' \in {Feed!LastOf(stored, Capacity), << >>}
    BY <1>3, RestartSimulates
  <2>2. stored' = stored /\ restarts' = restarts + 1
    BY <1>3 DEF Restart
  <2>3. Feed!Reload
    BY <2>1, <2>2 DEF Feed!Reload, FeedNow
  <2> QED BY <2>3 DEF Feed!Next
<1>4. CASE UNCHANGED <<buf, pos, full, stored, restarts>>
  <2>1. FeedNow' = FeedNow
    BY <1>4 DEF FeedNow, Size, Entry
  <2> QED BY <1>4, <2>1
<1>5. \/ \E m \in Emits : Insert(m) \/ PushRing(m)
      \/ Restart
      \/ UNCHANGED <<buf, pos, full, stored, restarts>>
  BY DEF Next, EmitStep, Stream, Drop, Refill, Connect, Replay, Receive, ReplayBreaks, Disconnect,
         InsertFails, SetSeq, FanOut, Dispatch, emitVars, ring, history, vars
<1> QED BY <1>1, <1>2, <1>3, <1>4, <1>5

(* Recent and SinceID read the same ring. *)
LEMMA RecentReversed ==
    ASSUME InvA, NEW n \in 1 .. Size
    PROVE  Reverse(Recent(n)) = SubSeq(Contents, Size - n + 1, Size)
<1>1. /\ Size \in Nat /\ Size \in 0 .. Capacity /\ Capacity \in Nat \ {0} /\ pos \in 0 .. Capacity - 1
      /\ n \in Nat /\ n <= Size /\ 1 <= n
  BY Index, EventLogAssumption DEF InvA, Types, Slots
<1> DEFINE r == [k \in 1 .. n |-> buf[(pos - k + Capacity) % Capacity]]
<1>2. Recent(n) = r
  BY <1>1 DEF Recent
<1>3. Len(r) = n
  BY <1>1
<1>4. Reverse(r) = [i \in 1 .. n |-> r[n - i + 1]]
  BY <1>3 DEF Reverse
<1>5. \A i \in 1 .. n : r[n - i + 1] = buf[(pos - (n - i + 1) + Capacity) % Capacity]
  BY <1>1
<1> HIDE DEF r
<1> DEFINE a == Size - n + 1
<1>6. /\ Contents \in Seq(Events) /\ Len(Contents) = Size
      /\ \A k \in 1 .. Size : Contents[k] = Entry(k)
  BY <1>1, Entries DEF InvA, RingOK, Contents
<1>7. a \in Int /\ 1 <= a /\ a <= Size + 1 /\ Size - a + 1 = n /\ Size \in Int
  BY <1>1
<1>8. \A i \in 1 .. n : a + i - 1 \in 1 .. Size /\ pos - Size + (a + i - 1) - 1 + Capacity = pos - (n - i + 1) + Capacity
  BY <1>1
<1> HIDE DEF a
<1>9. /\ SubSeq(Contents, a, Size) \in Seq(Events) /\ Len(SubSeq(Contents, a, Size)) = n
      /\ \A i \in 1 .. n : SubSeq(Contents, a, Size)[i] = Contents[a + i - 1]
  BY <1>6, <1>7, Part
<1>10. ASSUME NEW i \in 1 .. n PROVE SubSeq(Contents, a, Size)[i] = r[n - i + 1]
  <2>1. SubSeq(Contents, a, Size)[i] = Entry(a + i - 1)
    BY <1>6, <1>8, <1>9
  <2>2. Entry(a + i - 1) = buf[(pos - (n - i + 1) + Capacity) % Capacity]
    BY <1>8 DEF Entry
  <2> QED BY <1>5, <2>1, <2>2
<1>11. SubSeq(Contents, a, Size) = [i \in 1 .. n |-> r[n - i + 1]]
  <2> DEFINE u == SubSeq(Contents, a, Size)
  <2>1. u = [i \in 1 .. n |-> u[i]]
    <3>1. u \in Seq(Events) /\ Len(u) = n
      BY <1>9
    <3> HIDE DEF u
    <3> QED BY <3>1
  <2>2. \A i \in 1 .. n : u[i] = r[n - i + 1]
    BY <1>10
  <2> HIDE DEF u
  <2>3. u = [i \in 1 .. n |-> r[n - i + 1]]
    BY <2>1, <2>2
  <2> QED BY <2>3 DEF u
<1> QED BY <1>2, <1>4, <1>11 DEF a

(* The ring of internal/events is a feed of the newest Capacity events over a *)
(* table that only grows: every step of Emit, of a stream and of a restart is *)
(* a step of EventFeed or leaves it alone, wherever the ring wraps; and what  *)
(* GET /events reads backwards is what a replay reads forwards.               *)
THEOREM RingRefinesFeed == Spec => RingIsFeed
<1>1. Init => Feed!Init
  <2> SUFFICES ASSUME Init PROVE Feed!Init
    OBVIOUS
  <2>1. Size = 0 /\ stored = << >> /\ restarts = 0
    BY DEF Init, Size
  <2>2. FeedNow = << >>
    BY <2>1 DEF FeedNow
  <2> QED BY <2>1, <2>2 DEF Feed!Init, FeedNow
<1>2. InvA /\ InvA' /\ [Next]_vars => [Feed!Next]_<<[k \in 1 .. Size |-> Entry(k).src], stored, restarts>>
  BY FeedStep DEF FeedNow
<1>3. InvA => \A n \in 1 .. Size : Reverse(Recent(n)) = SubSeq(Contents, Size - n + 1, Size)
  BY RecentReversed
<1> QED BY <1>1, <1>2, <1>3, InvariantA, PTL DEF Spec, Feed!Spec, RingIsFeed

-----------------------------------------------------------------------------
(* The webhook's bucket *)

Done == {m \in Emits : pc[m] = "done"}

Handed == since \cap posted

(* Since the bucket was full: the tokens spent are no more than the events    *)
(* dispatched, an event is refused only when as many came before it as the    *)
(* bucket holds, and what was handed on was paid for.                         *)
Bucket ==
    /\ since \subseteq Done /\ posted \subseteq Done
    /\ tokens + Cardinality(since) >= Burst
    /\ since \subseteq posted \/ Cardinality(since) > Burst
    /\ Cardinality(Handed) + tokens <= Burst + credits

(* There are finitely many events. *)
LEMMA BucketFinite ==
    ASSUME Types
    PROVE  /\ IsFiniteSet(since) /\ Cardinality(since) \in Nat
           /\ IsFiniteSet(Handed) /\ Cardinality(Handed) \in Nat
           /\ tokens \in Nat /\ Burst \in Nat /\ credits \in Nat
<1>1. IsFiniteSet(Emits)
  BY EventLogAssumption, FS_Interval DEF Emits
<1>2. since \subseteq Emits /\ Handed \subseteq Emits
  BY DEF Types, Handed
<1>3. IsFiniteSet(since) /\ IsFiniteSet(Handed)
  BY <1>1, <1>2, FS_Subset
<1>4. tokens \in Nat /\ Burst \in Nat /\ credits \in Nat
  BY EventLogAssumption DEF Types
<1> QED BY <1>3, <1>4, FS_CardinalityType

(* A dispatched event takes a token, or finds the bucket empty. *)
LEMMA BucketDispatch ==
    ASSUME Types, Bucket, NEW m \in Emits, Dispatch(m)
    PROVE  Bucket'
<1>1. m \notin Done /\ Done' = Done \cup {m} /\ since' = since \cup {m} /\ credits' = credits
  BY DEF Dispatch, Goto, Done, Types
<1>2. m \notin since /\ m \notin posted /\ m \notin Handed
  BY <1>1 DEF Bucket, Handed
<1>3. Cardinality(since') = Cardinality(since) + 1 /\ Cardinality(since) \in Nat
  BY <1>1, <1>2, BucketFinite, FS_AddElement
<1>4. tokens \in Nat /\ Burst \in Nat /\ credits \in Nat /\ Cardinality(Handed) \in Nat
  BY BucketFinite
<1>5. CASE tokens >= 1
  <2>1. tokens' = tokens - 1 /\ posted' = posted \cup {m}
    BY <1>5 DEF Dispatch, rateLimitAllow
  <2>2. Handed' = Handed \cup {m}
    BY <1>1, <2>1 DEF Handed
  <2>3. Cardinality(Handed') = Cardinality(Handed) + 1
    BY <1>2, <2>2, BucketFinite, FS_AddElement
  <2>4. since' \subseteq Done' /\ posted' \subseteq Done'
    BY <1>1, <2>1 DEF Bucket
  <2>5. tokens' + Cardinality(since') >= Burst
    BY <1>3, <1>4, <2>1 DEF Bucket
  <2>6. since' \subseteq posted' \/ Cardinality(since') > Burst
    BY <1>1, <1>3, <1>4, <2>1 DEF Bucket
  <2>7. Cardinality(Handed') + tokens' <= Burst + credits'
    BY <1>1, <1>4, <2>1, <2>3 DEF Bucket
  <2> QED BY <2>4, <2>5, <2>6, <2>7 DEF Bucket
<1>6. CASE ~(tokens >= 1)
  <2>1. tokens' = tokens /\ posted' = posted /\ tokens = 0
    BY <1>4, <1>6 DEF Dispatch, rateLimitAllow
  <2>2. Handed' = Handed
    BY <1>1, <1>2, <2>1 DEF Handed
  <2>3. since' \subseteq Done' /\ posted' \subseteq Done'
    BY <1>1, <2>1 DEF Bucket
  <2>4. tokens' + Cardinality(since') >= Burst /\ Cardinality(since') > Burst
    BY <1>3, <1>4, <2>1 DEF Bucket
  <2>5. Cardinality(Handed') + tokens' <= Burst + credits'
    BY <1>1, <2>1, <2>2 DEF Bucket
  <2> QED BY <2>3, <2>4, <2>5 DEF Bucket
<1> QED BY <1>5, <1>6

(* A refill pays for one more, or starts the count again. *)
LEMMA BucketStep ==
    ASSUME Types, Bucket, [Next]_vars
    PROVE  Bucket'
<1>1. tokens \in Nat /\ Burst \in Nat /\ credits \in Nat
      /\ Cardinality(since) \in Nat /\ Cardinality(Handed) \in Nat
  BY BucketFinite
<1>2. ASSUME tokens' = Burst, since' = {}, credits' = 0, posted' = posted, Done' = Done PROVE Bucket'
  <2>1. Handed' = {}
    BY <1>2 DEF Handed
  <2>2. Cardinality(since') = 0 /\ Cardinality(Handed') = 0
    BY <1>2, <2>1, FS_EmptySet
  <2> QED BY <1>1, <1>2, <2>2 DEF Bucket
<1>3. ASSUME UNCHANGED hookVars, Done' = Done PROVE Bucket'
  <2>1. Handed' = Handed
    BY <1>3 DEF hookVars, Handed
  <2> QED BY <1>3, <2>1 DEF Bucket, hookVars
<1>4. ASSUME NEW m \in Emits, EmitStep(m), ~Dispatch(m) PROVE Bucket'
  <2>1. /\ pc[m] # "done" /\ \E l \in {"seq", "ring", "fanout", "hooks"} : Goto(m, l)
        /\ UNCHANGED hookVars
    BY <1>4 DEF EmitStep, Insert, InsertFails, SetSeq, PushRing, FanOut, Begins
  <2>2. Done' = Done
    BY <2>1 DEF Goto, Done, Types
  <2> QED BY <1>3, <2>1, <2>2
<1>5. CASE Refill
  <2>1. Done' = Done /\ posted' = posted
    BY <1>5 DEF Refill, emitVars, Done
  <2>2. CASE tokens' = tokens + 1 /\ tokens' < Burst /\ credits' = credits + 1 /\ since' = since
    <3>1. Handed' = Handed
      BY <2>1, <2>2 DEF Handed
    <3> QED BY <1>1, <2>1, <2>2, <3>1 DEF Bucket
  <2> QED BY <1>2, <1>5, <2>1, <2>2, RefillEffect
<1>6. CASE Restart
  <2>1. pc' = [m \in Emits |-> IF m \in Emitting THEN "killed" ELSE pc[m]] /\ posted' = posted
        /\ tokens' = Burst /\ since' = {} /\ credits' = 0
    BY <1>6 DEF Restart
  <2>2. Done' = Done
    BY <2>1 DEF Done, Emitting
  <2> QED BY <1>2, <2>1, <2>2
<1>7. ASSUME NEW c \in Clients, Stream(c) \/ Drop(c) PROVE Bucket'
  <2>1. UNCHANGED hookVars /\ Done' = Done
    BY <1>7 DEF Stream, Drop, Connect, Replay, Receive, ReplayBreaks, Disconnect, emitVars, Done
  <2> QED BY <1>3, <2>1
<1>8. CASE UNCHANGED vars
  <2>1. UNCHANGED hookVars /\ Done' = Done
    BY <1>8 DEF vars, emitVars, Done
  <2> QED BY <1>3, <2>1
<1> QED BY <1>4, <1>5, <1>6, <1>7, <1>8, BucketDispatch DEF Next

(* Between two moments at which the bucket is full, the first Burst events    *)
(* are handed to deliver, and no more than Burst and the tokens added: for    *)
(* every size of the bucket, however Emit calls and refills interleave.       *)
THEOREM BurstsAllowed == Spec => []BurstAllowed
<1>1. Init => Bucket
  <2> SUFFICES ASSUME Init PROVE Bucket
    OBVIOUS
  <2>1. since = {} /\ posted = {} /\ Handed = {} /\ tokens = Burst /\ credits = 0
    BY DEF Init, Handed
  <2>2. Cardinality(since) = 0 /\ Cardinality(Handed) = 0
    BY <2>1, FS_EmptySet
  <2> QED BY <2>1, <2>2, EventLogAssumption DEF Bucket
<1>2. InvA /\ Bucket /\ [Next]_vars => Bucket'
  BY BucketStep DEF InvA
<1>3. InvA /\ Bucket => BurstAllowed
  <2> SUFFICES ASSUME InvA, Bucket PROVE BurstAllowed
    OBVIOUS
  <2>1. /\ tokens \in Nat /\ Burst \in Nat /\ credits \in Nat
        /\ Cardinality(since) \in Nat /\ Cardinality(Handed) \in Nat
    BY BucketFinite DEF InvA
  <2>2. Cardinality(since) <= Burst => since \subseteq posted
    BY <2>1 DEF Bucket
  <2>3. Cardinality(since \cap posted) <= Burst + credits
    BY <2>1 DEF Bucket, Handed
  <2> QED BY <2>2, <2>3 DEF BurstAllowed
<1> QED BY <1>1, <1>2, <1>3, InvariantA, PTL DEF Spec

-----------------------------------------------------------------------------
(* Emit calls that follow each other *)

Old(m) == pc[m] # "new"
Fanned(m) == pc[m] \in {"hooks", "done", "killed"}
Unpushed == \E m \in Emits : pc[m] \in {"seq", "ring"}

(* The ids Low + 1 .. Top are in the ring. *)
Top == IF Unpushed THEN Len(stored) - 1 ELSE Len(stored)
Low == Top - Size

(* At most one call is under way and it has the last row; the ring holds the  *)
(* end of the table, all of it until the ring is full.                        *)
InTurn ==
    /\ \A m, n \in Emitting : m = n
    /\ \A m \in Emits : Old(m) => id[m] \in 1 .. Len(stored) /\ stored[id[m]] = m
    /\ \A m \in Emitting : id[m] = Len(stored)
    /\ Low >= 0 /\ (~full => Low = 0)
    /\ \A k \in 1 .. Size : Entry(k).id = Low + k

(* What the entries of the ring are. *)
LEMMA RingEntries ==
    ASSUME InvA
    PROVE  /\ Size \in Nat /\ Capacity \in Nat \ {0} /\ Size <= Capacity /\ Len(stored) \in Nat
           /\ full \in BOOLEAN /\ (full => Size = Capacity)
           /\ \A k \in 1 .. Size : /\ Entry(k) \in Events /\ EventOK(Entry(k))
                                   /\ pc[Entry(k).src] \in Pushed
<1>1. Types /\ Filled /\ RingOK
  BY DEF InvA, RingOK
<1>2. /\ Size \in Nat /\ Capacity \in Nat \ {0} /\ Size <= Capacity /\ Len(stored) \in Nat
      /\ full \in BOOLEAN /\ (full => Size = Capacity)
  BY <1>1, Index, EventLogAssumption DEF Types, Size
<1>3. ASSUME NEW k \in 1 .. Size
      PROVE  Entry(k) \in Events /\ EventOK(Entry(k)) /\ pc[Entry(k).src] \in Pushed
  <2>1. At(k) \in Slots /\ Entry(k) = buf[At(k)] /\ (full \/ At(k) < pos)
    BY <1>1, Index
  <2>2. buf[At(k)] # Empty
    BY <1>1, <2>1 DEF Filled
  <2> QED BY <1>1, <2>1, <2>2, Entries DEF RingOK
<1> QED BY <1>2, <1>3

(* Ids name calls, the ring has its part of them, and all but the newest have *)
(* been sent to the channels.                                                 *)
LEMMA TurnFacts ==
    ASSUME InvA, InTurn
    PROVE  /\ Top \in Nat /\ Low \in Nat /\ Low + Size = Top /\ Top <= Len(stored)
           /\ \A m, n \in Emits : Old(m) /\ Old(n) /\ id[m] = id[n] => m = n
           /\ \A m \in Emits : pc[m] \in Pushed => id[m] <= Top
           /\ \A m, x \in Emits : Old(m) /\ Old(x) /\ id[m] < id[x] => Fanned(m)
           /\ \A m \in Emits : Old(m) /\ Low < id[m] /\ id[m] <= Top =>
                 id[m] - Low \in 1 .. Size /\ Entry(id[m] - Low).src = m
<1>1. /\ Size \in Nat /\ Len(stored) \in Nat /\ id \in [Emits -> Nat]
      /\ pc \in [Emits -> {"new", "seq", "ring", "fanout", "hooks", "done", "killed"}]
  BY RingEntries DEF InvA, Types
<1>2. Top \in Int /\ Low \in Int /\ Low + Size = Top /\ Top <= Len(stored)
  BY <1>1 DEF Top, Low
<1>3. Top \in Nat /\ Low \in Nat
  BY <1>1, <1>2 DEF InTurn
<1>4. \A m, n \in Emits : Old(m) /\ Old(n) /\ id[m] = id[n] => m = n
  BY DEF InTurn
<1>5. ASSUME NEW m \in Emits, pc[m] \in Pushed PROVE id[m] <= Top
  <2>1. Old(m) /\ id[m] \in 1 .. Len(stored)
    BY <1>5 DEF InTurn, Old, Pushed
  <2>2. CASE Unpushed
    <3>1. PICK u \in Emits : pc[u] \in {"seq", "ring"}
      BY <2>2 DEF Unpushed
    <3>2. id[u] = Len(stored) /\ Old(u) /\ u # m
      BY <1>5, <3>1 DEF InTurn, Old, Emitting, Pushed
    <3>3. id[m] # Len(stored)
      BY <1>4, <2>1, <3>2
    <3> QED BY <1>1, <2>1, <2>2, <3>3 DEF Top
  <2>3. CASE ~Unpushed
    BY <2>1, <2>3 DEF Top
  <2> QED BY <2>2, <2>3
<1>6. ASSUME NEW m \in Emits, NEW x \in Emits, Old(m), Old(x), id[m] < id[x] PROVE Fanned(m)
  <2> SUFFICES ASSUME ~Fanned(m) PROVE FALSE
    OBVIOUS
  <2>1. m \in Emitting
    BY <1>1, <1>6 DEF Fanned, Old, Emitting
  <2>2. id[m] = Len(stored) /\ id[x] \in 1 .. Len(stored)
    BY <1>6, <2>1 DEF InTurn
  <2> QED BY <1>1, <1>6, <2>2
<1>7. ASSUME NEW m \in Emits, Old(m), Low < id[m], id[m] <= Top
      PROVE  id[m] - Low \in 1 .. Size /\ Entry(id[m] - Low).src = m
  <2> DEFINE k == id[m] - Low
  <2>1. k \in 1 .. Size /\ Low + k = id[m]
    BY <1>1, <1>2, <1>3, <1>7
  <2> HIDE DEF k
  <2>2. Entry(k).id = id[m]
    BY <2>1 DEF InTurn
  <2>3. Entry(k).src \in Emits /\ Entry(k).id = id[Entry(k).src] /\ Old(Entry(k).src)
    BY <2>1, RingEntries DEF EventOK, Old
  <2>4. Entry(k).src = m
    BY <1>4, <1>7, <2>2, <2>3
  <2> QED BY <2>1, <2>4 DEF k
<1> QED BY <1>2, <1>3, <1>4, <1>5, <1>6, <1>7

(* What a step leaves of the ids: begun calls keep theirs, new ones come on   *)
(* top, and the ring moves up.                                                *)
Onward ==
    /\ InTurn' /\ Top' >= Top /\ Low' >= Low
    /\ \A m \in Emits : Old(m) => pc'[m] # "new" /\ id'[m] = id[m]
    /\ \A m \in Emits : pc'[m] # "new" /\ ~Old(m) => id'[m] > Top'

(* Steps that leave table and ring alone and keep who has to push. *)
LEMMA TurnKept ==
    ASSUME InvA, InvA', InTurn, Unpushed' <=> Unpushed, stored' = stored,
           buf' = buf, pos' = pos, full' = full, id' = id,
           \A m \in Emits : pc'[m] = "new" <=> pc[m] = "new",
           Emitting' \subseteq Emitting
    PROVE  Onward
<1>1. Size' = Size /\ \A k \in 1 .. Size : Entry(k)' = Entry(k)
  BY DEF Size, Entry
<1>2. Top' = Top /\ Low' = Low
  BY <1>1 DEF Top, Low
<1>3. Low \in Nat /\ Top \in Nat
  BY TurnFacts
<1>4. InTurn'
  BY <1>1, <1>2 DEF InTurn, Old
<1> QED BY <1>2, <1>3, <1>4 DEF Onward, Old

(* A row is added: the call is the only one, and it has not pushed. *)
LEMMA TurnInsert ==
    ASSUME InvA, InvA', InTurn, NEW m \in Emits, Insert(m), Emitting = {}
    PROVE  Onward
<1>1. /\ pc[m] = "new" /\ stored' = Append(stored, m)
      /\ id' = [id EXCEPT ![m] = Len(stored) + 1] /\ pc' = [pc EXCEPT ![m] = "seq"]
      /\ buf' = buf /\ pos' = pos /\ full' = full
  BY DEF Insert, Begins, Goto, ring
<1>2. /\ stored \in Seq(Emits) /\ id \in [Emits -> Nat] /\ Size \in Nat /\ Len(stored) \in Nat
      /\ pc \in [Emits -> {"new", "seq", "ring", "fanout", "hooks", "done", "killed"}]
  BY RingEntries DEF InvA, Types
<1>3. /\ Len(stored') = Len(stored) + 1 /\ stored'[Len(stored) + 1] = m
      /\ \A k \in 1 .. Len(stored) : stored'[k] = stored[k]
  BY <1>1, <1>2
<1>4. /\ pc'[m] = "seq" /\ id'[m] = Len(stored) + 1
      /\ \A n \in Emits \ {m} : pc'[n] = pc[n] /\ id'[n] = id[n]
  BY <1>1, <1>2
<1>5. Size' = Size /\ \A k \in 1 .. Size : Entry(k)' = Entry(k)
  BY <1>1 DEF Size, Entry
<1>6. Top' = Top /\ Low' = Low
  <2>1. ~Unpushed
    BY DEF Unpushed, Emitting
  <2>2. Unpushed'
    BY <1>4 DEF Unpushed
  <2>3. Top = Len(stored) /\ Top' = Len(stored') - 1
    BY <2>1, <2>2 DEF Top
  <2> QED BY <1>2, <1>3, <1>5, <2>3 DEF Low
<1>7. Low \in Nat /\ Top \in Nat /\ Top <= Len(stored)
  BY TurnFacts
<1>8. \A n \in Emits : n \in Emitting' => n = m
  BY <1>4 DEF Emitting
<1>9. ASSUME NEW n \in Emits, pc'[n] # "new" PROVE id'[n] \in 1 .. Len(stored') /\ stored'[id'[n]] = n
  <2>1. CASE n = m
    BY <1>2, <1>3, <1>4, <2>1
  <2>2. CASE n # m
    <3>1. id'[n] = id[n] /\ id[n] \in 1 .. Len(stored) /\ stored[id[n]] = n
      BY <1>4, <1>9, <2>2 DEF InTurn, Old
    <3> QED BY <1>2, <1>3, <3>1
  <2> QED BY <2>1, <2>2
<1>10. InTurn'
  <2>1. \A x, n \in Emitting' : x = n
    BY <1>8 DEF Emitting
  <2>2. \A n \in Emitting' : id'[n] = Len(stored')
    BY <1>3, <1>4, <1>8 DEF Emitting
  <2>3. Low' >= 0 /\ (~full' => Low' = 0)
    BY <1>1, <1>6 DEF InTurn
  <2>4. \A k \in 1 .. Size' : Entry(k)'.id = Low' + k
    BY <1>5, <1>6 DEF InTurn
  <2> QED BY <1>9, <2>1, <2>2, <2>3, <2>4 DEF InTurn, Old
<1>11. \A n \in Emits : Old(n) => pc'[n] # "new" /\ id'[n] = id[n]
  BY <1>1, <1>4 DEF Old
<1>12. \A n \in Emits : pc'[n] # "new" /\ ~Old(n) => id'[n] > Top'
  <2>1. \A n \in Emits : pc'[n] # "new" /\ ~Old(n) => n = m
    BY <1>4 DEF Old
  <2>2. id'[m] > Top'
    BY <1>2, <1>4, <1>6, <1>7
  <2> QED BY <2>1, <2>2
<1> QED BY <1>6, <1>7, <1>10, <1>11, <1>12 DEF Onward

(* The only call that is under way pushes the last row. *)
LEMMA TurnPush ==
    ASSUME InvA, InvA', InTurn, NEW m \in Emits, PushRing(m)
    PROVE  Onward
<1>1. /\ pc[m] = "ring" /\ stored' = stored /\ id' = id /\ pc' = [pc EXCEPT ![m] = "fanout"]
  BY PushEffect DEF InvA
<1>2. /\ id \in [Emits -> Nat] /\ Size \in Nat /\ Len(stored) \in Nat /\ Capacity \in Nat \ {0}
      /\ pc \in [Emits -> {"new", "seq", "ring", "fanout", "hooks", "done", "killed"}]
      /\ full \in BOOLEAN /\ (full => Size = Capacity) /\ full' \in BOOLEAN /\ (full' => Size' = Capacity)
  BY RingEntries DEF InvA, Types, Size
<1>3. /\ pc'[m] = "fanout" /\ \A n \in Emits \ {m} : pc'[n] = pc[n]
  BY <1>1, <1>2
<1>4. m \in Emitting /\ Old(m) /\ id[m] = Len(stored) /\ \A n \in Emitting : n = m
  BY <1>1 DEF InTurn, Emitting, Old
<1>5. Top = Len(stored) - 1 /\ Top' = Len(stored)
  <2>1. Unpushed
    BY <1>1 DEF Unpushed
  <2>2. ~Unpushed'
    BY <1>3, <1>4 DEF Unpushed, Emitting
  <2> QED BY <1>1, <2>1, <2>2 DEF Top
<1>6. /\ Size' = IF full THEN Capacity ELSE Size + 1
      /\ \A k \in 1 .. Size' : k = Size' => Entry(k)' = Event(m)
      /\ \A k \in 1 .. Size' - 1 :
            LET l == IF full THEN k + 1 ELSE k IN l \in 1 .. Size /\ Entry(k)' = Entry(l)
  BY PushEntries
<1>7. /\ Low \in Nat /\ Top \in Nat /\ Low + Size = Top
      /\ (~full => Low = 0) /\ \A k \in 1 .. Size : Entry(k).id = Low + k
  BY TurnFacts DEF InTurn
<1>8. Low' = (IF full THEN Low + 1 ELSE Low) /\ Low' \in Nat /\ Low' + Size' = Top' /\ Size' \in Nat
  <2>1. Low' = Top' - Size'
    BY DEF Low
  <2>2. CASE full
    BY <1>2, <1>5, <1>6, <1>7, <2>1, <2>2
  <2>3. CASE ~full
    BY <1>2, <1>5, <1>6, <1>7, <2>1, <2>3
  <2> QED BY <1>2, <2>2, <2>3
<1>9. ~full' => ~full
  BY PushEffect DEF InvA
<1>10. ASSUME NEW k \in 1 .. Size' PROVE Entry(k)'.id = Low' + k
  <2>1. CASE k = Size'
    <3>1. Entry(k)' = Event(m) /\ Event(m).id = id[m]
      BY <1>6, <2>1, EventOf DEF InvA
    <3> QED BY <1>4, <1>5, <1>8, <2>1, <3>1
  <2>2. CASE k # Size'
    <3>1. k \in 1 .. Size' - 1
      <4>1. Size' \in Nat
        BY <1>8
      <4>2. \A z \in Nat : \A y \in 1 .. z : y # z => y \in 1 .. z - 1
        OBVIOUS
      <4> QED BY <2>2, <4>1, <4>2
    <3>2. CASE full
      <4>1. k + 1 \in 1 .. Size /\ Entry(k)' = Entry(k + 1)
        BY <1>6, <3>1, <3>2
      <4>2. Entry(k + 1).id = Low + (k + 1)
        BY <1>7, <4>1
      <4> QED BY <1>7, <1>8, <3>2, <4>1, <4>2
    <3>3. CASE ~full
      <4>1. k \in 1 .. Size /\ Entry(k)' = Entry(k)
        BY <1>6, <3>1, <3>3
      <4> QED BY <1>7, <1>8, <3>3, <4>1
    <3> QED BY <1>2, <3>2, <3>3
  <2> QED BY <2>1, <2>2
<1>11. Emitting' \subseteq Emitting /\ \A n \in Emits : pc'[n] = "new" <=> pc[n] = "new"
  BY <1>1, <1>3, <1>4 DEF Emitting
<1>12. InTurn'
  <2>1. Low' >= 0 /\ (~full' => Low' = 0)
    BY <1>7, <1>8, <1>9
  <2>2. \A x, n \in Emitting' : x = n
    BY <1>4, <1>11
  <2>3. \A n \in Emits : pc'[n] # "new" => id'[n] \in 1 .. Len(stored') /\ stored'[id'[n]] = n
    BY <1>1, <1>11 DEF InTurn, Old
  <2>4. \A n \in Emitting' : id'[n] = Len(stored')
    BY <1>1, <1>4, <1>11
  <2> QED BY <1>10, <2>1, <2>2, <2>3, <2>4 DEF InTurn, Old
<1>13. Top' >= Top /\ Low' >= Low
  BY <1>2, <1>5, <1>7, <1>8
<1> QED BY <1>1, <1>11, <1>12, <1>13 DEF Onward, Old

(* The end of the table is loaded. *)
LEMMA TurnRestart ==
    ASSUME InvA, InvA', InTurn, Restart, ~raced'
    PROVE  Onward
<1> DEFINE n == IF Len(stored) < Capacity THEN Len(stored) ELSE Capacity
<1>1. Types /\ StoredOK
  BY DEF InvA
<1>2. /\ Loaded(n) /\ stored' = stored /\ id' = id
      /\ pc' = [m \in Emits |-> IF m \in Emitting THEN "killed" ELSE pc[m]]
  BY <1>1, RestartEffect
<1>3. /\ Size' = n /\ (full' <=> n = Capacity)
      /\ \A k \in 1 .. n : Entry(k)' = [src |-> stored[Len(stored) - n + k], id |-> Len(stored) - n + k]
  BY <1>2, RestartEntries
<1>4. /\ Size \in Nat /\ Len(stored) \in Nat /\ Capacity \in Nat \ {0} /\ Size <= Capacity
      /\ full \in BOOLEAN /\ (full => Size = Capacity)
      /\ Low \in Nat /\ Top \in Nat /\ Low + Size = Top /\ Top <= Len(stored) /\ (~full => Low = 0)
  BY RingEntries, TurnFacts DEF InTurn
<1>5. n \in Nat /\ n <= Len(stored) /\ n <= Capacity /\ (n # Capacity => n = Len(stored))
      /\ Len(stored) - n >= Len(stored) - Capacity
  BY <1>4
<1>6. \A m \in Emits : pc'[m] \notin {"seq", "ring", "fanout", "hooks"} /\ (pc'[m] = "new" <=> pc[m] = "new")
  BY <1>1, <1>2 DEF Types, Emitting
<1>7. Top' = Len(stored) /\ Low' = Len(stored) - n
  <2>1. ~Unpushed'
    BY <1>6 DEF Unpushed
  <2> QED BY <1>2, <1>3, <2>1 DEF Top, Low
<1> HIDE DEF n
<1>8. Top' >= Top /\ Low' >= Low
  <2>1. CASE full
    BY <1>4, <1>5, <1>7, <2>1
  <2>2. CASE ~full
    BY <1>4, <1>5, <1>7, <2>2
  <2> QED BY <1>4, <2>1, <2>2
<1>9. Emitting' = {}
  BY <1>6 DEF Emitting
<1>10. \A k \in 1 .. Size' : Entry(k)'.id = Low' + k
  BY <1>3, <1>7
<1>11. InTurn'
  <2>1. Low' >= 0 /\ (~full' => Low' = 0)
    BY <1>3, <1>4, <1>5, <1>7
  <2>2. \A m \in Emits : pc'[m] # "new" => id'[m] \in 1 .. Len(stored') /\ stored'[id'[m]] = m
    BY <1>2, <1>6 DEF InTurn, Old
  <2> QED BY <1>9, <1>10, <2>1, <2>2 DEF InTurn, Old
<1> QED BY <1>2, <1>6, <1>8, <1>11 DEF Onward, Old

(* Calls stay in turn as long as none begins while another is under way. *)
LEMMA TurnStep ==
    ASSUME InvA, InvA', ~raced => InTurn, [Next]_vars, ~raced'
    PROVE  ~raced /\ InTurn /\ Onward
<1>1. raced \in BOOLEAN /\ raced' \in BOOLEAN /\ pc \in [Emits -> {"new", "seq", "ring", "fanout", "hooks", "done", "killed"}]
  BY DEF InvA, Types
<1>2. ~raced
  BY <1>1 DEF Next, EmitStep, Stream, Drop, Refill, Connect, Replay, Receive, ReplayBreaks, Disconnect,
       Insert, InsertFails, SetSeq, PushRing, FanOut, Dispatch, Restart, history, vars
<1>3. ASSUME NEW m \in Emits, NEW l, pc[m] \in {"seq", "fanout", "hooks"}, Moves(m, l),
             l \in (IF pc[m] = "seq" THEN {"ring"} ELSE {"hooks", "done"}),
             UNCHANGED <<stored, buf, pos, full, id>>
      PROVE  Onward
  <2>1. pc'[m] = l /\ \A n \in Emits \ {m} : pc'[n] = pc[n]
    BY <1>1, <1>3 DEF Moves
  <2>2. /\ \A n \in Emits : pc'[n] \in {"seq", "ring"} => pc[n] \in {"seq", "ring"}
        /\ \A n \in Emits : pc[n] \in {"seq", "ring"} => pc'[n] \in {"seq", "ring"}
    BY <1>3, <2>1
  <2>3. Unpushed' <=> Unpushed
    BY <2>2 DEF Unpushed
  <2>4. Emitting' \subseteq Emitting /\ \A n \in Emits : pc'[n] = "new" <=> pc[n] = "new"
    BY <1>3, <2>1 DEF Emitting
  <2> QED BY <1>2, <1>3, <2>3, <2>4, TurnKept
<1>4. ASSUME NEW m \in Emits, EmitStep(m) PROVE Onward
  <2>1. CASE Insert(m)
    <3>1. Emitting = {}
      BY <1>1, <2>1 DEF Insert
    <3> QED BY <1>2, <2>1, <3>1, TurnInsert
  <2>2. CASE InsertFails(m)
    BY <2>2 DEF InsertFails
  <2>3. CASE SetSeq(m)
    <3>1. pc[m] = "seq" /\ Moves(m, "ring") /\ UNCHANGED <<stored, buf, pos, full, id>>
      BY <2>3 DEF SetSeq, Goto, Moves, ring
    <3>2. "ring" \in (IF pc[m] = "seq" THEN {"ring"} ELSE {"hooks", "done"})
      BY <3>1
    <3> QED BY <1>3, <3>1, <3>2
  <2>4. CASE PushRing(m)
    BY <1>2, <2>4, TurnPush
  <2>5. CASE FanOut(m)
    <3>1. pc[m] = "fanout" /\ Moves(m, "hooks") /\ UNCHANGED <<stored, buf, pos, full, id>>
      BY <2>5 DEF FanOut, Goto, Moves, ring
    <3>2. "hooks" \in (IF pc[m] = "seq" THEN {"ring"} ELSE {"hooks", "done"})
      BY <3>1
    <3> QED BY <1>3, <3>1, <3>2
  <2>6. CASE Dispatch(m)
    <3>1. pc[m] = "hooks" /\ Moves(m, "done") /\ UNCHANGED <<stored, buf, pos, full, id>>
      BY <2>6 DEF Dispatch, Goto, Moves, ring
    <3>2. "done" \in (IF pc[m] = "seq" THEN {"ring"} ELSE {"hooks", "done"})
      BY <3>1
    <3> QED BY <1>3, <3>1, <3>2
  <2> QED BY <1>4, <2>1, <2>2, <2>3, <2>4, <2>5, <2>6 DEF EmitStep
<1>5. CASE Restart
  BY <1>2, <1>5, TurnRestart
<1>6. CASE UNCHANGED <<stored, buf, pos, full, pc, id>>
  <2>1. (Unpushed' <=> Unpushed) /\ Emitting' \subseteq Emitting
    BY <1>6 DEF Unpushed, Emitting
  <2> QED BY <1>2, <1>6, <2>1, TurnKept
<1>7. \/ \E m \in Emits : EmitStep(m)
      \/ Restart
      \/ UNCHANGED <<stored, buf, pos, full, pc, id>>
  BY DEF Next, Stream, Drop, Refill, Connect, Replay, Receive, ReplayBreaks, Disconnect, emitVars, ring, vars
<1>8. Onward
  BY <1>4, <1>5, <1>6, <1>7
<1> QED BY <1>2, <1>8

-----------------------------------------------------------------------------
(* A stream omits nothing *)

Before(c, m) == \E s \in seen[c] : id[s] < id[m]
InChan(c, m) == \E k \in 1 .. Len(ch[c]) : ch[c][k].src = m

(* What a client has seen, up to its last id: all that the ring still has and *)
(* that follows its first event, less what its channel had no room for.       *)
Kept(c) ==
    /\ lastId[c] <= Top
    /\ lastId[c] = 0 <=> seen[c] = {}
    /\ \A s \in seen[c] : Old(s) /\ id[s] <= lastId[c]
    /\ \A m \in Emits : Old(m) /\ Low < id[m] /\ id[m] <= lastId[c] /\ Before(c, m)
          => m \in seen[c] \cup missed[c]

(* Its channel: in id order, past the last id or already replayed, and whole  *)
(* from its first entry on; on a live stream whole from the last id on.       *)
Open(c) ==
    /\ conn[c] = "live" => high[c] <= lastId[c]
    /\ \A k, l \in 1 .. Len(ch[c]) : k < l => ch[c][k].id < ch[c][l].id
    /\ \A k \in 1 .. Len(ch[c]) :
          ch[c][k].id >= lastId[c] \/ (conn[c] = "live" /\ ch[c][k].id <= high[c])
    /\ \A k \in 1 .. Len(ch[c]) : \A m \in Emits :
          Fanned(m) /\ id[m] > ch[c][k].id => InChan(c, m) \/ m \in missed[c]
    /\ conn[c] = "live" /\ lastId[c] > 0 => \A m \in Emits :
          Fanned(m) /\ Low < id[m] /\ lastId[c] < id[m] => InChan(c, m) \/ m \in missed[c]

InvB == ~raced => InTurn /\ \A c \in Clients : Kept(c) /\ Open(c)

(* What the client has seen, after a step that writes nothing to it. *)
LEMMA KeptStill ==
    ASSUME InvA, InvA', InTurn, Onward, NEW c \in Clients, Kept(c),
           lastId'[c] = lastId[c], seen'[c] = seen[c], missed[c] \subseteq missed'[c]
    PROVE  Kept(c)'
<1>1. /\ lastId[c] \in Nat /\ seen[c] \subseteq Emits /\ id \in [Emits -> Nat] /\ id' \in [Emits -> Nat]
      /\ Top \in Nat /\ Top' \in Nat /\ Low \in Nat /\ Low' \in Nat
  <2>1. Low' \in Int /\ Top' \in Int
    <3>1. Len(stored') \in Nat /\ pos' \in Nat /\ Capacity \in Nat
      BY EventLogAssumption DEF InvA, Types, Slots
    <3> QED BY <3>1 DEF Low, Top, Size
  <2>2. Top \in Nat /\ Low \in Nat
    BY TurnFacts
  <2>3. Low' \in Nat /\ Top' \in Nat
    BY <2>1, <2>2 DEF Onward
  <2>4. Types /\ id' \in [Emits -> Nat]
    BY DEF InvA, Types
  <2> QED BY <2>2, <2>3, <2>4, ClientTypes, CallTypes
<1>2. /\ Top' >= Top /\ Low' >= Low
      /\ \A m \in Emits : Old(m) => pc'[m] # "new" /\ id'[m] = id[m]
      /\ \A m \in Emits : pc'[m] # "new" /\ ~Old(m) => id'[m] > Top'
  BY DEF Onward
<1>3. \A s \in seen[c] : s \in Emits /\ Old(s) /\ id[s] <= lastId[c] /\ id'[s] = id[s] /\ pc'[s] # "new"
  BY <1>1, <1>2 DEF Kept
<1>4. lastId'[c] <= Top'
  BY <1>1, <1>2 DEF Kept
<1>5. ASSUME NEW m \in Emits, pc'[m] # "new", Low' < id'[m], id'[m] <= lastId[c],
             \E s \in seen[c] : id'[s] < id'[m]
      PROVE  m \in seen'[c] \cup missed'[c]
  <2>1. Old(m) /\ id'[m] = id[m]
    BY <1>1, <1>2, <1>4, <1>5
  <2>2. Low < id[m] /\ id[m] <= lastId[c]
    BY <1>1, <1>2, <1>5, <2>1
  <2>3. Before(c, m)
    BY <1>3, <1>5, <2>1 DEF Before
  <2> QED BY <2>1, <2>2, <2>3 DEF Kept
<1> QED BY <1>3, <1>4, <1>5 DEF Kept, Old, Before

(* A stream that is not live, with nothing in its channel. *)
LEMMA OpenEmpty ==
    ASSUME NEW c \in Clients, conn'[c] # "live", ch'[c] = << >>
    PROVE  Open(c)'
<1>1. Len(ch'[c]) = 0
  OBVIOUS
<1>2. \A k \in 1 .. Len(ch'[c]) : FALSE
  BY <1>1
<1> QED BY <1>2 DEF Open

(* What is known of a channel's events. *)
LEMMA InChannel ==
    ASSUME InvA, InTurn, NEW c \in Clients, NEW k \in 1 .. Len(ch[c])
    PROVE  /\ ch[c][k].src \in Emits /\ ch[c][k].id \in Nat /\ ch[c][k].id = id[ch[c][k].src]
           /\ Old(ch[c][k].src) /\ Fanned(ch[c][k].src) /\ pc[ch[c][k].src] \in {"hooks", "done"}
           /\ ch[c][k].id <= Top /\ ch[c][k].id >= 1
<1>1. EventOK(ch[c][k]) /\ pc[ch[c][k].src] \in {"hooks", "done"} /\ id \in [Emits -> Nat]
  BY DEF InvA, Streams, Chan, Types
<1> DEFINE e == ch[c][k]
<1>2. e.src \in Emits /\ e.id = id[e.src] /\ Old(e.src) /\ Fanned(e.src) /\ pc[e.src] \in Pushed /\ e.id \in Nat
      /\ pc[e.src] \in {"hooks", "done"}
  BY <1>1 DEF EventOK, Old, Fanned, Pushed
<1> HIDE DEF e
<1>3. e.id <= Top
  BY <1>2, TurnFacts
<1>4. e.id >= 1
  BY <1>2 DEF InTurn
<1> QED BY <1>2, <1>3, <1>4 DEF e

(* The channel, after a step that does not touch the stream. *)
LEMMA OpenStill ==
    ASSUME InvA, InvA', InTurn, Onward, NEW c \in Clients, Open(c), Still(c),
           \A m \in Emits : pc'[m] \in {"hooks", "done", "killed"} => Fanned(m)
    PROVE  Open(c)'
<1>1. /\ lastId[c] \in Nat /\ id \in [Emits -> Nat] /\ id' \in [Emits -> Nat]
      /\ Low \in Nat /\ Low' \in Int /\ Low' >= Low
  <2>1. Low' \in Int
    <3>1. Len(stored') \in Nat /\ pos' \in Nat /\ Capacity \in Nat
      BY EventLogAssumption DEF InvA, Types, Slots
    <3> QED BY <3>1 DEF Low, Top, Size
  <2>2. Types /\ id' \in [Emits -> Nat]
    BY DEF InvA, Types
  <2>3. Low \in Nat /\ Low' >= Low
    BY TurnFacts DEF Onward
  <2> QED BY <2>1, <2>2, <2>3, ClientTypes, CallTypes
<1>2. \A m \in Emits : pc'[m] \in {"hooks", "done", "killed"} => Fanned(m) /\ id'[m] = id[m]
  BY DEF Onward, Old, Fanned
<1>3. /\ conn'[c] = conn[c] /\ lastId'[c] = lastId[c] /\ high'[c] = high[c] /\ ch'[c] = ch[c]
      /\ missed'[c] = missed[c]
  BY DEF Still
<1>4. ASSUME NEW k \in 1 .. Len(ch[c]), NEW m \in Emits, pc'[m] \in {"hooks", "done", "killed"}, id'[m] > ch[c][k].id
      PROVE  InChan(c, m) \/ m \in missed[c]
  BY <1>2, <1>4 DEF Open
<1>5. ASSUME conn[c] = "live", lastId[c] > 0, NEW m \in Emits, pc'[m] \in {"hooks", "done", "killed"},
             Low' < id'[m], lastId[c] < id'[m]
      PROVE  InChan(c, m) \/ m \in missed[c]
  <2>1. Fanned(m) /\ id'[m] = id[m]
    BY <1>2, <1>5
  <2>2. Low < id[m]
    BY <1>1, <1>5, <2>1
  <2> QED BY <1>5, <2>1, <2>2 DEF Open
<1>6. /\ conn[c] = "live" => high[c] <= lastId[c]
      /\ \A k, l \in 1 .. Len(ch[c]) : k < l => ch[c][k].id < ch[c][l].id
      /\ \A k \in 1 .. Len(ch[c]) :
            ch[c][k].id >= lastId[c] \/ (conn[c] = "live" /\ ch[c][k].id <= high[c])
  BY DEF Open
<1>7. \A m \in Emits : InChan(c, m)' <=> InChan(c, m)
  BY <1>3 DEF InChan
<1> QED BY <1>3, <1>4, <1>5, <1>6, <1>7 DEF Open, Fanned

(* The event of the call under way is the newest: it goes to the end. *)
LEMMA OpenFanOut ==
    ASSUME InvA, InvA', InTurn, Onward, NEW c \in Clients, Kept(c), Open(c), NEW x \in Emits, FanOut(x)
    PROVE  Open(c)' /\ Kept(c)'
<1>1. /\ pc[x] = "fanout" /\ pc' = [pc EXCEPT ![x] = "hooks"] /\ id' = id /\ conn' = conn
      /\ lastId' = lastId /\ high' = high /\ seen' = seen /\ stored' = stored
      /\ ch'[c] = (IF conn[c] # "off" /\ HasRoom(c) THEN Append(ch[c], Event(x)) ELSE ch[c])
      /\ missed'[c] = (IF conn[c] # "off" /\ ~HasRoom(c) THEN missed[c] \cup {x} ELSE missed[c])
  BY DEF FanOut, Goto, Subscribed
<1>2. /\ ch[c] \in Seq(Events) /\ Len(ch[c]) \in Nat /\ id \in [Emits -> Nat] /\ lastId[c] \in Nat
      /\ pc \in [Emits -> {"new", "seq", "ring", "fanout", "hooks", "done", "killed"}]
      /\ Event(x) \in Events /\ Event(x).src = x /\ Event(x).id = id[x]
  <2>1. Types
    BY DEF InvA
  <2>2. Event(x) \in Events /\ Event(x).src = x /\ Event(x).id = id[x]
    BY <2>1, EventOf
  <2> QED BY <2>1, <2>2, ClientTypes, CallTypes
<1>3. /\ Low \in Nat /\ Top \in Nat /\ Top <= Len(stored) /\ Low' >= Low /\ Low' \in Int
  <2>1. Low' \in Int
    <3>1. Len(stored') \in Nat /\ pos' \in Nat /\ Capacity \in Nat
      BY EventLogAssumption DEF InvA, Types, Slots
    <3> QED BY <3>1 DEF Low, Top, Size
  <2> QED BY <2>1, TurnFacts DEF Onward
<1>4. id[x] = Len(stored) /\ Old(x) /\ \A m \in Emits : Old(m) => id[m] <= Len(stored)
  <2>1. x \in Emitting /\ Old(x)
    BY <1>1 DEF Emitting, Old
  <2>2. \A m \in Emits : Old(m) => id[m] \in 1 .. Len(stored)
    BY DEF InTurn
  <2> QED BY <1>2, <2>1, <2>2 DEF InTurn
<1>5. \A m \in Emits : pc'[m] \in {"hooks", "done", "killed"} => Fanned(m) \/ m = x
  BY <1>1, <1>2 DEF Fanned
<1>6. Kept(c)'
  <2>1. missed[c] \subseteq missed'[c]
    BY <1>1
  <2> QED BY <1>1, <2>1, KeptStill
<1>7. \A m \in Emits : InChan(c, m) => InChan(c, m)'
  <2>1. /\ Len(ch'[c]) \in {Len(ch[c]), Len(ch[c]) + 1}
        /\ \A k \in 1 .. Len(ch[c]) : ch'[c][k] = ch[c][k]
    BY <1>1, <1>2
  <2>2. \A k \in 1 .. Len(ch[c]) : k \in 1 .. Len(ch'[c]) /\ ch'[c][k] = ch[c][k]
    BY <1>2, <2>1
  <2> QED BY <2>2 DEF InChan
<1>8. conn[c] # "off" => InChan(c, x)' \/ x \in missed'[c]
  <2> SUFFICES ASSUME conn[c] # "off" PROVE InChan(c, x)' \/ x \in missed'[c]
    OBVIOUS
  <2>1. CASE HasRoom(c)
    <3>1. Len(ch'[c]) = Len(ch[c]) + 1 /\ ch'[c][Len(ch[c]) + 1] = Event(x)
      BY <1>1, <1>2, <2>1
    <3>2. Len(ch[c]) + 1 \in 1 .. Len(ch'[c])
      BY <1>2, <3>1
    <3> QED BY <1>2, <3>1, <3>2 DEF InChan
  <2>2. CASE ~HasRoom(c)
    BY <1>1, <2>2
  <2> QED BY <2>1, <2>2
<1>9. ASSUME NEW k \in 1 .. Len(ch[c])
      PROVE  ch[c][k].id \in Nat /\ ch[c][k].id < id[x] /\ conn[c] # "off"
  <2>1. /\ ch[c][k].src \in Emits /\ ch[c][k].id \in Nat /\ ch[c][k].id = id[ch[c][k].src]
        /\ Old(ch[c][k].src) /\ pc[ch[c][k].src] \in {"hooks", "done"}
    BY InChannel
  <2>2. ch[c][k].id <= id[x] /\ ch[c][k].id # id[x]
    BY <1>1, <1>4, <2>1, TurnFacts
  <2>3. conn[c] # "off"
    BY DEF InvA, Streams, Chan
  <2> QED BY <1>2, <2>1, <2>2, <2>3
<1>10. ASSUME NEW m \in Emits, pc'[m] \in {"hooks", "done", "killed"}, conn[c] # "off",
              Fanned(m) => InChan(c, m) \/ m \in missed[c]
       PROVE  InChan(c, m)' \/ m \in missed'[c]
  BY <1>1, <1>5, <1>7, <1>8, <1>10
<1>11. conn[c] = "live" /\ lastId[c] > 0 => \A m \in Emits :
          pc'[m] \in {"hooks", "done", "killed"} /\ Low' < id[m] /\ lastId[c] < id[m]
          => InChan(c, m)' \/ m \in missed'[c]
  <2> SUFFICES ASSUME conn[c] = "live", lastId[c] > 0, NEW m \in Emits,
                      pc'[m] \in {"hooks", "done", "killed"}, Low' < id[m], lastId[c] < id[m]
               PROVE  InChan(c, m)' \/ m \in missed'[c]
    OBVIOUS
  <2>1. Low < id[m]
    BY <1>2, <1>3
  <2>2. Fanned(m) => InChan(c, m) \/ m \in missed[c]
    BY <2>1 DEF Open
  <2> QED BY <1>10, <2>2
<1>12. \A k \in 1 .. Len(ch[c]) : \A m \in Emits :
          pc'[m] \in {"hooks", "done", "killed"} /\ id[m] > ch[c][k].id => InChan(c, m)' \/ m \in missed'[c]
  BY <1>9, <1>10 DEF Open
<1>13. CASE ch'[c] = ch[c]
  <2>1. /\ \A k, l \in 1 .. Len(ch'[c]) : k < l => ch'[c][k].id < ch'[c][l].id
        /\ \A k \in 1 .. Len(ch'[c]) :
              ch'[c][k].id >= lastId'[c] \/ (conn'[c] = "live" /\ ch'[c][k].id <= high'[c])
        /\ conn'[c] = "live" => high'[c] <= lastId'[c]
    BY <1>1, <1>13 DEF Open
  <2>2. \A k \in 1 .. Len(ch'[c]) : \A m \in Emits :
          pc'[m] \in {"hooks", "done", "killed"} /\ id'[m] > ch'[c][k].id => InChan(c, m)' \/ m \in missed'[c]
    BY <1>1, <1>12, <1>13
  <2>3. Open(c)'
    BY <1>1, <1>11, <2>1, <2>2 DEF Open, Fanned
  <2> QED BY <1>6, <2>3
<1>14. CASE ch'[c] = Append(ch[c], Event(x))
  <2>1. /\ Len(ch'[c]) = Len(ch[c]) + 1
        /\ \A k \in 1 .. Len(ch[c]) : ch'[c][k] = ch[c][k]
        /\ ch'[c][Len(ch[c]) + 1] = Event(x)
    BY <1>2, <1>14
  <2>2. \A k \in 1 .. Len(ch'[c]) : k \in 1 .. Len(ch[c]) \/ (k = Len(ch[c]) + 1 /\ ch'[c][k].id = id[x])
    BY <1>2, <2>1
  <2>3. ASSUME NEW k \in 1 .. Len(ch'[c]), NEW l \in 1 .. Len(ch'[c]), k < l
        PROVE  ch'[c][k].id < ch'[c][l].id
    <3>1. k \in 1 .. Len(ch[c])
      BY <1>2, <2>1, <2>3
    <3>2. CASE l \in 1 .. Len(ch[c])
      BY <2>1, <2>3, <3>1, <3>2 DEF Open
    <3>3. CASE ch'[c][l].id = id[x]
      BY <1>9, <2>1, <3>1, <3>3
    <3> QED BY <2>2, <3>2, <3>3
  <2>4. ASSUME NEW k \in 1 .. Len(ch'[c])
        PROVE  ch'[c][k].id >= lastId'[c] \/ (conn'[c] = "live" /\ ch'[c][k].id <= high'[c])
    <3>1. CASE k \in 1 .. Len(ch[c])
      BY <1>1, <2>1, <3>1 DEF Open
    <3>2. CASE ch'[c][k].id = id[x]
      <4>1. lastId[c] <= Top
        BY DEF Kept
      <4> QED BY <1>1, <1>2, <1>3, <1>4, <3>2, <4>1, SMTT(30)
    <3> QED BY <2>2, <3>1, <3>2
  <2>5. ASSUME NEW k \in 1 .. Len(ch'[c]), NEW m \in Emits,
               pc'[m] \in {"hooks", "done", "killed"}, id'[m] > ch'[c][k].id
        PROVE  InChan(c, m)' \/ m \in missed'[c]
    <3>1. CASE k \in 1 .. Len(ch[c])
      BY <1>1, <1>12, <2>1, <2>5, <3>1
    <3>2. CASE ch'[c][k].id = id[x]
      <4>1. Old(m)
        BY <1>4, <1>5, <2>5 DEF Old, Fanned
      <4>2. id[m] <= Len(stored) /\ id[m] > Len(stored)
        BY <1>1, <1>4, <2>5, <3>2, <4>1
      <4>3. id[m] \in Nat /\ Len(stored) \in Nat
        BY <1>2, RingEntries
      <4> QED BY <4>2, <4>3
    <3> QED BY <2>2, <3>1, <3>2
  <2>6. conn'[c] = "live" => high'[c] <= lastId'[c]
    BY <1>1 DEF Open
  <2>7. Open(c)'
    BY <1>1, <1>11, <2>3, <2>4, <2>5, <2>6 DEF Open, Fanned
  <2> QED BY <1>6, <2>7
<1> QED BY <1>1, <1>13, <1>14

(* What a replay holds, when calls are in turn: everything in the ring past   *)
(* the last id, in id order.                                                  *)
LEMMA ReplayInTurn ==
    ASSUME InvA, InTurn, NEW c \in Clients
    PROVE  LET es == ReplayOf(c)
           IN  /\ es \in Seq(Events) /\ Len(es) \in Nat
               /\ lastId[c] = 0 => Len(es) = 0
               /\ \A i \in 1 .. Len(es) : /\ es[i].src \in Emits /\ Old(es[i].src) /\ es[i].id = id[es[i].src]
                                          /\ es[i].id \in Nat /\ es[i].id > lastId[c] /\ es[i].id <= Top
               /\ \A i, j \in 1 .. Len(es) : i < j => es[i].id < es[j].id
               /\ lastId[c] # 0 => \A m \in Emits :
                     Old(m) /\ Low < id[m] /\ lastId[c] < id[m] /\ id[m] <= Top
                     => \E i \in 1 .. Len(es) : es[i].src = m
<1> DEFINE es == ReplayOf(c)
<1>1. Types /\ Filled
  BY DEF InvA, RingOK
<1>2. /\ es \in Seq(Events)
      /\ \/ lastId[c] = 0 /\ es = << >>
         \/ lastId[c] # 0 /\ \E w : Picks(es, w, Size, lastId[c])
  BY <1>1, ReplayEvents
<1>3. /\ Top \in Nat /\ Low \in Nat /\ Low + Size = Top /\ Size \in Nat /\ lastId[c] \in Nat
      /\ \A k \in 1 .. Size : Entry(k).id = Low + k
  BY <1>1, TurnFacts, RingEntries DEF Types, InTurn
<1>4. CASE lastId[c] = 0
  BY <1>2, <1>4
<1>5. CASE lastId[c] # 0
  <2>1. PICK w : Picks(es, w, Size, lastId[c])
    BY <1>2, <1>5
  <2> HIDE DEF es
  <2>2. /\ w \in [1 .. Len(es) -> 1 .. Size] /\ Len(es) \in Nat
        /\ \A i, j \in 1 .. Len(es) : i < j => w[i] < w[j]
        /\ \A i \in 1 .. Len(es) : es[i] = Entry(w[i]) /\ Entry(w[i]).id > lastId[c]
        /\ \A q \in 1 .. Size : Entry(q).id > lastId[c] => \E i \in 1 .. Len(es) : w[i] = q
    BY <1>2, <2>1 DEF Picks
  <2>3. \A i \in 1 .. Len(es) : w[i] \in 1 .. Size /\ es[i].id = Low + w[i]
    BY <1>3, <2>2
  <2>4. ASSUME NEW i \in 1 .. Len(es)
        PROVE  /\ es[i].src \in Emits /\ Old(es[i].src) /\ es[i].id = id[es[i].src]
               /\ es[i].id \in Nat /\ es[i].id > lastId[c] /\ es[i].id <= Top
    <3>1. EventOK(Entry(w[i])) /\ es[i] = Entry(w[i])
      BY <2>2, <2>3, RingEntries
    <3>2. es[i].src \in Emits /\ Old(es[i].src) /\ es[i].id = id[es[i].src]
      BY <3>1 DEF EventOK, Old
    <3>3. es[i].id \in Nat /\ es[i].id <= Top
      BY <1>3, <2>3
    <3> QED BY <2>2, <3>2, <3>3
  <2>5. ASSUME NEW i \in 1 .. Len(es), NEW j \in 1 .. Len(es), i < j PROVE es[i].id < es[j].id
    <3>1. w[i] < w[j] /\ w[i] \in Nat /\ w[j] \in Nat /\ es[i].id = Low + w[i] /\ es[j].id = Low + w[j]
      BY <1>3, <2>2, <2>3, <2>5
    <3> QED BY <1>3, <3>1
  <2>6. ASSUME NEW m \in Emits, Old(m), Low < id[m], lastId[c] < id[m], id[m] <= Top
        PROVE  \E i \in 1 .. Len(es) : es[i].src = m
    <3> DEFINE q == id[m] - Low
    <3>1. q \in 1 .. Size /\ Entry(q).src = m
      BY <2>6, TurnFacts
    <3>2. Low + q = id[m]
      BY <1>1, <1>3 DEF Types
    <3> HIDE DEF q
    <3>3. Entry(q).id > lastId[c]
      BY <1>3, <2>6, <3>1, <3>2
    <3>4. PICK i \in 1 .. Len(es) : w[i] = q
      BY <2>2, <3>1, <3>3
    <3> QED BY <2>2, <3>1, <3>4
  <2>7. es \in Seq(Events)
    BY <1>2
  <2> QED BY <1>5, <2>2, <2>4, <2>5, <2>6, <2>7 DEF es
<1> QED BY <1>4, <1>5

(* What the client has seen after some or all of a replay. *)
LEMMA KeptReplay ==
    ASSUME InvA, InvA', InTurn, NEW c \in Clients, Kept(c), NEW t \in Seq(Events), Write(c, t),
           Len(t) <= Len(ReplayOf(c)), \A k \in 1 .. Len(t) : t[k] = ReplayOf(c)[k],
           UNCHANGED <<stored, buf, pos, full, pc, id, missed>>
    PROVE  Kept(c)'
<1> DEFINE es == ReplayOf(c)
<1>1. /\ es \in Seq(Events) /\ Len(es) \in Nat
      /\ lastId[c] = 0 => Len(es) = 0
      /\ \A i \in 1 .. Len(es) : /\ es[i].src \in Emits /\ Old(es[i].src) /\ es[i].id = id[es[i].src]
                                 /\ es[i].id \in Nat /\ es[i].id > lastId[c] /\ es[i].id <= Top
      /\ \A i, j \in 1 .. Len(es) : i < j => es[i].id < es[j].id
      /\ lastId[c] # 0 => \A m \in Emits :
            Old(m) /\ Low < id[m] /\ lastId[c] < id[m] /\ id[m] <= Top
            => \E i \in 1 .. Len(es) : es[i].src = m
  BY ReplayInTurn
<1>2. Len(t) \in Nat /\ Len(t) <= Len(es) /\ \A k \in 1 .. Len(t) : k \in 1 .. Len(es) /\ t[k] = es[k]
  <2>1. Len(t) \in Nat
    OBVIOUS
  <2>2. \A k \in 1 .. Len(t) : k \in 1 .. Len(es)
    BY <1>1, <2>1
  <2> QED BY <2>1, <2>2
<1> HIDE DEF es
<1>3. /\ \A m : m \in seen'[c] <=> m \in seen[c] \/ \E k \in 1 .. Len(t) : t[k].src = m
      /\ lastId'[c] = IF Len(t) = 0 THEN lastId[c] ELSE t[Len(t)].id
  BY WriteEffect DEF InvA
<1>4. Top' = Top /\ Low' = Low
  BY DEF Top, Low, Unpushed, Size
<1>5. /\ lastId[c] \in Nat /\ seen[c] \subseteq Emits /\ seen'[c] \subseteq Emits /\ id \in [Emits -> Nat] /\ Top \in Nat
  <2>1. Types /\ seen'[c] \subseteq Emits
    BY DEF InvA, Types
  <2>2. Top \in Nat
    BY TurnFacts
  <2> QED BY <2>1, <2>2, ClientTypes, CallTypes
<1>6. /\ lastId[c] <= Top /\ (lastId[c] = 0 <=> seen[c] = {})
      /\ \A s \in seen[c] : Old(s) /\ id[s] <= lastId[c]
      /\ \A m \in Emits : Old(m) /\ Low < id[m] /\ id[m] <= lastId[c] /\ Before(c, m)
            => m \in seen[c] \cup missed[c]
  BY DEF Kept
<1>7. CASE Len(t) = 0
  <2>1. lastId'[c] = lastId[c] /\ seen'[c] = seen[c]
    <3>1. \A k \in 1 .. Len(t) : FALSE
      BY <1>7
    <3>2. \A m : m \in seen'[c] <=> m \in seen[c]
      BY <1>3, <3>1
    <3> QED BY <1>3, <1>7, <3>2
  <2> QED BY <1>4, <1>6, <2>1 DEF Kept, Old, Before
<1>8. CASE Len(t) # 0
  <2> DEFINE n == Len(t)
  <2>1. n \in 1 .. Len(es) /\ n \in 1 .. n /\ t[n] = es[n]
    BY <1>1, <1>2, <1>8
  <2>2. /\ lastId'[c] = es[n].id /\ es[n].id \in Nat /\ es[n].id > lastId[c] /\ es[n].id <= Top /\ lastId[c] # 0
        /\ es[n].id = id[es[n].src]
    BY <1>1, <1>3, <1>8, <2>1
  <2>3. \A k \in 1 .. n : k \in 1 .. Len(es) /\ t[k] = es[k]
    BY <1>2
  <2>4. \A k \in 1 .. n : es[k].id <= es[n].id
    <3> SUFFICES ASSUME NEW k \in 1 .. n PROVE es[k].id <= es[n].id
      OBVIOUS
    <3>1. k \in 1 .. Len(es) /\ (k = n \/ k < n)
      BY <1>2, <2>3
    <3>2. es[k].id \in Nat
      BY <1>1, <3>1
    <3> QED BY <1>1, <2>1, <2>2, <3>1, <3>2
  <2>5. \A s : s \in seen'[c] <=> s \in seen[c] \/ \E k \in 1 .. n : es[k].src = s
    BY <1>3, <2>3
  <2> HIDE DEF n
  <2>6. ASSUME NEW s \in seen'[c], s \notin seen[c]
        PROVE  s \in Emits /\ Old(s) /\ id[s] <= es[n].id /\ id[s] > lastId[c]
    <3>1. PICK k \in 1 .. n : es[k].src = s
      BY <2>5, <2>6
    <3> QED BY <1>1, <2>3, <2>4, <3>1
  <2>7. \A s \in seen'[c] : Old(s) /\ id[s] <= es[n].id
    <3> SUFFICES ASSUME NEW s \in seen'[c] PROVE Old(s) /\ id[s] <= es[n].id
      OBVIOUS
    <3>1. CASE s \in seen[c]
      <4>1. Old(s) /\ id[s] <= lastId[c] /\ id[s] \in Nat
        BY <1>5, <1>6, <3>1
      <4> QED BY <1>5, <2>2, <4>1
    <3> QED BY <2>6, <3>1
  <2>8. seen'[c] # {} /\ lastId'[c] # 0
    <3>1. es[n].src \in seen'[c]
      BY <2>1, <2>5
    <3> QED BY <1>5, <2>2, <3>1
  <2>9. ASSUME NEW m \in Emits, Old(m), Low < id[m], id[m] <= es[n].id, \E s \in seen'[c] : id[s] < id[m]
        PROVE  m \in seen'[c] \cup missed[c]
    <3>1. id[m] \in Nat
      BY <1>5
    <3>2. CASE id[m] <= lastId[c]
      <4>1. PICK s \in seen'[c] : id[s] < id[m]
        BY <2>9
      <4>2. id[s] \in Nat
        BY <1>5
      <4>3. s \in seen[c]
        BY <1>5, <2>6, <3>1, <3>2, <4>1, <4>2
      <4>4. Before(c, m)
        BY <4>1, <4>3 DEF Before
      <4> QED BY <1>6, <2>5, <2>9, <3>2, <4>4
    <3>3. CASE lastId[c] < id[m]
      <4>1. id[m] <= Top
        BY <1>5, <2>2, <2>9, <3>1
      <4>2. PICK i \in 1 .. Len(es) : es[i].src = m
        BY <1>1, <2>2, <2>9, <3>3, <4>1
      <4>3. es[i].id = id[m] /\ ~(n < i)
        BY <1>1, <2>1, <2>2, <2>9, <3>1, <4>2
      <4>4. i \in 1 .. n
        BY <1>1, <2>1, <4>3
      <4> QED BY <2>5, <4>2, <4>4
    <3> QED BY <1>5, <3>1, <3>2, <3>3
  <2>10. lastId'[c] <= Top'
    BY <1>4, <2>2
  <2> QED BY <1>4, <2>2, <2>7, <2>8, <2>9, <2>10 DEF Kept, Old, Before
<1> QED BY <1>7, <1>8

(* The channel, once the replay has been written. *)
LEMMA OpenReplay ==
    ASSUME InvA, InvA', InTurn, NEW c \in Clients, Kept(c), Open(c), Replay(c)
    PROVE  Open(c)' /\ Kept(c)'
<1> DEFINE es == ReplayOf(c)
           h == Max({0} \cup {e.id : e \in Range(es)})
<1>1. /\ es \in Seq(Events) /\ Len(es) \in Nat
      /\ lastId[c] = 0 => Len(es) = 0
      /\ \A i \in 1 .. Len(es) : /\ es[i].src \in Emits /\ Old(es[i].src) /\ es[i].id = id[es[i].src]
                                 /\ es[i].id \in Nat /\ es[i].id > lastId[c] /\ es[i].id <= Top
      /\ \A i, j \in 1 .. Len(es) : i < j => es[i].id < es[j].id
      /\ lastId[c] # 0 => \A m \in Emits :
            Old(m) /\ Low < id[m] /\ lastId[c] < id[m] /\ id[m] <= Top
            => \E i \in 1 .. Len(es) : es[i].src = m
  BY ReplayInTurn
<1>2. /\ h \in Nat /\ \A k \in 1 .. Len(es) : es[k].id <= h
      /\ h = 0 \/ \E k \in 1 .. Len(es) : es[k].id = h
  BY <1>1, HighId
<1>3. /\ conn[c] = "subscribed" /\ conn'[c] = "live" /\ ch' = ch /\ high'[c] = h /\ Write(c, es)
      /\ UNCHANGED <<stored, buf, pos, full, pc, id, missed>>
  BY DEF Replay, InvA, Types, emitVars, ring
<1>4. Kept(c)'
  <2>1. Len(es) <= Len(ReplayOf(c)) /\ \A k \in 1 .. Len(es) : es[k] = ReplayOf(c)[k]
    BY <1>1
  <2> QED BY <1>1, <1>3, <2>1, KeptReplay
<1> HIDE DEF es, h
<1>5. lastId'[c] = IF Len(es) = 0 THEN lastId[c] ELSE es[Len(es)].id
  BY <1>1, <1>3, WriteEffect DEF InvA
<1>6. Top' = Top /\ Low' = Low
  BY <1>3 DEF Top, Low, Unpushed, Size
<1>7. lastId[c] \in Nat /\ Top \in Nat /\ Low \in Nat /\ Len(ch[c]) \in Nat /\ id \in [Emits -> Nat] /\ Size \in Nat
      /\ Low + Size = Top
  <2>1. Top \in Nat /\ Low \in Nat /\ Low + Size = Top /\ Size \in Nat
    BY TurnFacts, RingEntries
  <2>2. Types
    BY DEF InvA
  <2> QED BY <2>1, <2>2, ClientTypes, CallTypes
<1>8. /\ \A k, l \in 1 .. Len(ch[c]) : k < l => ch[c][k].id < ch[c][l].id
      /\ \A k \in 1 .. Len(ch[c]) : ch[c][k].id >= lastId[c]
      /\ \A k \in 1 .. Len(ch[c]) : \A m \in Emits :
            Fanned(m) /\ id[m] > ch[c][k].id => InChan(c, m) \/ m \in missed[c]
  BY <1>3 DEF Open
<1>9. \A m \in Emits : Fanned(m) => Old(m) /\ id[m] <= Top
  <2>1. \A m \in Emits : Fanned(m) => Old(m) /\ pc[m] \in Pushed
    BY DEF Fanned, Old, Pushed
  <2> QED BY <2>1, TurnFacts
<1>10. CASE Len(es) = 0
  <2>1. lastId'[c] = lastId[c] /\ h = 0
    BY <1>2, <1>5, <1>10
  <2>2. lastId[c] > 0 => \A m \in Emits : ~(Fanned(m) /\ Low < id[m] /\ lastId[c] < id[m])
    BY <1>1, <1>7, <1>9, <1>10
  <2>3. \A m \in Emits : InChan(c, m)' <=> InChan(c, m)
    BY <1>3 DEF InChan
  <2>4. high'[c] <= lastId'[c]
    BY <1>3, <1>7, <2>1
  <2>5. Open(c)'
    BY <1>3, <1>6, <1>8, <2>1, <2>2, <2>3, <2>4 DEF Open, Fanned
  <2> QED BY <1>4, <2>5
<1>11. CASE Len(es) # 0
  <2> DEFINE n == Len(es)
  <2>1. n \in 1 .. n /\ lastId'[c] = es[n].id
    BY <1>1, <1>5, <1>11
  <2>2. \A k \in 1 .. n : es[k].id <= es[n].id
    <3> SUFFICES ASSUME NEW k \in 1 .. n PROVE es[k].id <= es[n].id
      OBVIOUS
    <3>1. k = n \/ k < n
      BY <1>1
    <3>2. es[k].id \in Nat
      BY <1>1
    <3> QED BY <1>1, <2>1, <3>1, <3>2
  <2>3. h = es[n].id /\ es[n].id \in Nat /\ es[n].id > lastId[c] /\ es[n].id <= Top /\ lastId[c] # 0
    <3>1. es[n].id \in Nat /\ es[n].id > lastId[c] /\ es[n].id <= Top /\ es[n].id <= h /\ lastId[c] # 0
      BY <1>1, <1>2, <1>11, <2>1
    <3>2. h # 0
      BY <1>2, <1>7, <3>1
    <3>3. h <= es[n].id
      BY <1>2, <2>2, <3>2
    <3> QED BY <1>2, <3>1, <3>3
  <2> HIDE DEF n
  <2>4. \A m \in Emits : Fanned(m) /\ Low < id[m] => id[m] <= es[n].id
    <3> SUFFICES ASSUME NEW m \in Emits, Fanned(m), Low < id[m], ~(id[m] <= es[n].id) PROVE FALSE
      OBVIOUS
    <3>1. id[m] \in Nat /\ Old(m) /\ id[m] <= Top /\ lastId[c] < id[m]
      BY <1>7, <1>9, <2>3
    <3>2. PICK i \in 1 .. Len(es) : es[i].src = m
      BY <1>1, <2>3, <3>1
    <3>3. es[i].id = id[m] /\ es[i].id <= es[n].id
      BY <1>1, <2>2, <3>2 DEF n
    <3> QED BY <3>3
  <2>5. ASSUME NEW k \in 1 .. Len(ch[c]) PROVE ch[c][k].id <= h \/ ch[c][k].id >= es[n].id
    <3>1. ch[c][k].id \in Nat
      BY InChannel
    <3> QED BY <2>3, <3>1
  <2>6. \A m \in Emits : InChan(c, m)' <=> InChan(c, m)
    BY <1>3 DEF InChan
  <2>7. \A m \in Emits : ~(Fanned(m) /\ Low < id[m] /\ es[n].id < id[m])
    BY <1>7, <2>3, <2>4
  <2>8. high'[c] <= lastId'[c]
    BY <1>3, <2>1, <2>3 DEF n
  <2>9. \A k \in 1 .. Len(ch'[c]) :
            ch'[c][k].id >= lastId'[c] \/ (conn'[c] = "live" /\ ch'[c][k].id <= high'[c])
    BY <1>3, <2>1, <2>5 DEF n
  <2>10. \A m \in Emits : ~(Fanned(m)' /\ Low' < id'[m] /\ lastId'[c] < id'[m])
    BY <1>3, <1>6, <2>1, <2>7 DEF Fanned, n
  <2>11. Open(c)'
    BY <1>3, <1>8, <2>6, <2>8, <2>9, <2>10 DEF Open, Fanned
  <2> QED BY <1>4, <2>11
<1> QED BY <1>10, <1>11

(* The head of the channel is written, or was already. *)
LEMMA OpenReceive ==
    ASSUME InvA, InvA', InTurn, NEW c \in Clients, Kept(c), Open(c), Receive(c)
    PROVE  Open(c)' /\ Kept(c)'
<1> DEFINE e == Head(ch[c])
           t == IF AlreadySent(e, c) THEN << >> ELSE <<e>>
<1>1. /\ conn[c] = "live" /\ ch[c] # << >> /\ conn' = conn /\ high' = high /\ ch'[c] = Tail(ch[c]) /\ Write(c, t)
      /\ UNCHANGED <<stored, buf, pos, full, pc, id, missed>>
  BY DEF Receive, InvA, Types, emitVars, ring
<1>2. /\ ch[c] \in Seq(Events) /\ Len(ch[c]) \in Nat /\ lastId[c] \in Nat /\ id \in [Emits -> Nat] /\ high[c] \in Nat
      /\ seen[c] \subseteq Emits
  <2>1. Types
    BY DEF InvA
  <2> QED BY <2>1, ClientTypes, CallTypes
<1>3. /\ 1 \in 1 .. Len(ch[c]) /\ e = ch[c][1] /\ e \in Events
      /\ Len(ch'[c]) = Len(ch[c]) - 1
      /\ \A k \in 1 .. Len(ch'[c]) : k + 1 \in 1 .. Len(ch[c]) /\ ch'[c][k] = ch[c][k + 1]
  BY <1>1, <1>2
<1>4. t \in Seq(Events)
  BY <1>3
<1>5. Top' = Top /\ Low' = Low /\ Top \in Nat /\ Low \in Nat
  <2>1. Top' = Top /\ Low' = Low
    BY <1>1 DEF Top, Low, Unpushed, Size
  <2> QED BY <2>1, TurnFacts
<1>6. /\ e.src \in Emits /\ e.id \in Nat /\ e.id = id[e.src] /\ Old(e.src) /\ e.id <= Top /\ e.id >= 1
  BY <1>3, InChannel
<1> HIDE DEF e, t
<1>7. /\ high[c] <= lastId[c]
      /\ \A k, l \in 1 .. Len(ch[c]) : k < l => ch[c][k].id < ch[c][l].id
      /\ \A k \in 1 .. Len(ch[c]) : ch[c][k].id >= lastId[c] \/ ch[c][k].id <= high[c]
      /\ \A k \in 1 .. Len(ch[c]) : \A m \in Emits :
            Fanned(m) /\ id[m] > ch[c][k].id => InChan(c, m) \/ m \in missed[c]
      /\ lastId[c] > 0 => \A m \in Emits :
            Fanned(m) /\ Low < id[m] /\ lastId[c] < id[m] => InChan(c, m) \/ m \in missed[c]
  BY <1>1 DEF Open
<1>8. /\ lastId[c] <= Top /\ (lastId[c] = 0 <=> seen[c] = {})
      /\ \A s \in seen[c] : Old(s) /\ id[s] <= lastId[c]
      /\ \A m \in Emits : Old(m) /\ Low < id[m] /\ id[m] <= lastId[c] /\ Before(c, m)
            => m \in seen[c] \cup missed[c]
  BY DEF Kept
<1>9. \A k \in 1 .. Len(ch[c]) : ch[c][k].id \in Nat /\ ch[c][k].id >= e.id /\ ch[c][k].id = id[ch[c][k].src]
  <2> SUFFICES ASSUME NEW k \in 1 .. Len(ch[c])
               PROVE  ch[c][k].id \in Nat /\ ch[c][k].id >= e.id /\ ch[c][k].id = id[ch[c][k].src]
    OBVIOUS
  <2>1. ch[c][k].id \in Nat /\ ch[c][k].id = id[ch[c][k].src]
    BY InChannel
  <2>2. k = 1 \/ 1 < k
    BY <1>2
  <2> QED BY <1>3, <1>6, <1>7, <2>1, <2>2
<1>10. ASSUME NEW m \in Emits, InChan(c, m), id[m] > e.id PROVE InChan(c, m)'
  <2>1. PICK k \in 1 .. Len(ch[c]) : ch[c][k].src = m
    BY <1>10 DEF InChan
  <2>2. k # 1
    BY <1>2, <1>3, <1>6, <1>10, <2>1
  <2>3. k - 1 \in 1 .. Len(ch'[c]) /\ k - 1 + 1 = k
    BY <1>2, <1>3, <2>2
  <2>4. ch'[c][k - 1] = ch[c][k]
    BY <1>3, <2>3
  <2> QED BY <2>1, <2>3, <2>4 DEF InChan
<1>11. /\ \A k, l \in 1 .. Len(ch'[c]) : k < l => ch'[c][k].id < ch'[c][l].id
       /\ \A k \in 1 .. Len(ch'[c]) : ch'[c][k].id > e.id /\ ch'[c][k].id \in Nat
  <2>1. ASSUME NEW k \in 1 .. Len(ch'[c]), NEW l \in 1 .. Len(ch'[c]), k < l
        PROVE  ch'[c][k].id < ch'[c][l].id
    <3>1. k + 1 \in 1 .. Len(ch[c]) /\ l + 1 \in 1 .. Len(ch[c]) /\ k + 1 < l + 1
      BY <1>3, <2>1
    <3> QED BY <1>3, <1>7, <3>1
  <2>2. ASSUME NEW k \in 1 .. Len(ch'[c]) PROVE ch'[c][k].id > e.id /\ ch'[c][k].id \in Nat
    <3>1. k + 1 \in 1 .. Len(ch[c]) /\ 1 < k + 1
      BY <1>3
    <3>2. ch[c][1].id < ch[c][k + 1].id /\ ch[c][k + 1].id \in Nat
      BY <1>3, <1>7, <1>9, <3>1
    <3> QED BY <1>3, <1>6, <3>2
  <2> QED BY <2>1, <2>2
<1>12. ASSUME NEW k \in 1 .. Len(ch'[c]), NEW m \in Emits, Fanned(m), id[m] > ch'[c][k].id
       PROVE  InChan(c, m)' \/ m \in missed[c]
  <2>1. k + 1 \in 1 .. Len(ch[c]) /\ id[m] > ch[c][k + 1].id
    BY <1>3, <1>12
  <2>2. InChan(c, m) \/ m \in missed[c]
    BY <1>7, <1>12, <2>1
  <2>3. id[m] > e.id
    BY <1>2, <1>6, <1>11, <1>12
  <2> QED BY <1>10, <2>2, <2>3
<1>13. /\ \A m : m \in seen'[c] <=> m \in seen[c] \/ \E k \in 1 .. Len(t) : t[k].src = m
       /\ lastId'[c] = IF Len(t) = 0 THEN lastId[c] ELSE t[Len(t)].id
  BY <1>1, <1>4, WriteEffect DEF InvA
<1>14. CASE AlreadySent(e, c)
  <2>1. e.id <= high[c]
    BY <1>14 DEF AlreadySent
  <2>2. lastId'[c] = lastId[c] /\ seen'[c] = seen[c]
    <3>1. Len(t) = 0
      BY <1>14 DEF t
    <3>2. \A k \in 1 .. Len(t) : FALSE
      BY <3>1
    <3>3. \A m : m \in seen'[c] <=> m \in seen[c]
      BY <1>13, <3>2
    <3> QED BY <1>13, <3>1, <3>3
  <2>3. Kept(c)'
    BY <1>1, <1>5, <1>8, <2>2 DEF Kept, Old, Before
  <2>4. \A k \in 1 .. Len(ch'[c]) : ch'[c][k].id >= lastId[c] \/ ch'[c][k].id <= high[c]
    BY <1>3, <1>7
  <2>5. ASSUME lastId[c] > 0, NEW m \in Emits, Fanned(m), Low < id[m], lastId[c] < id[m]
        PROVE  InChan(c, m)' \/ m \in missed[c]
    <3>1. id[m] > e.id
      BY <1>2, <1>6, <1>7, <2>1, <2>5
    <3> QED BY <1>7, <1>10, <2>5, <3>1
  <2>6. Open(c)'
    BY <1>1, <1>5, <1>7, <1>11, <1>12, <2>2, <2>4, <2>5 DEF Open, Fanned
  <2> QED BY <2>3, <2>6
<1>15. CASE ~AlreadySent(e, c)
  <2>1. e.id > high[c] /\ e.id >= lastId[c]
    <3>1. ~(e.id <= high[c])
      BY <1>15 DEF AlreadySent
    <3>2. e.id >= lastId[c] \/ e.id <= high[c]
      BY <1>3, <1>7
    <3> QED BY <1>2, <1>6, <3>1, <3>2
  <2>2. t = <<e>> /\ Len(t) = 1 /\ t[1] = e
    BY <1>15 DEF t
  <2>3. lastId'[c] = e.id /\ \A m : m \in seen'[c] <=> m \in seen[c] \/ m = e.src
    <3>1. 1 \in 1 .. Len(t) /\ \A k \in 1 .. Len(t) : k = 1
      BY <2>2
    <3> QED BY <1>13, <2>2, <3>1
  <2>4. \A s \in seen'[c] : Old(s) /\ id[s] <= e.id
    <3> SUFFICES ASSUME NEW s \in seen[c] PROVE Old(s) /\ id[s] <= e.id
      BY <1>6, <2>3
    <3>1. Old(s) /\ id[s] <= lastId[c] /\ id[s] \in Nat
      BY <1>2, <1>8
    <3> QED BY <1>2, <1>6, <2>1, <3>1
  <2>5. ASSUME NEW m \in Emits, Old(m), Low < id[m], id[m] <= e.id, \E s \in seen'[c] : id[s] < id[m]
        PROVE  m \in seen'[c] \cup missed[c]
    <3>0. id[m] \in Nat
      BY <1>2
    <3>1. PICK s \in seen'[c] : id[s] < id[m]
      BY <2>5
    <3>2. s # e.src
      BY <1>6, <2>5, <3>0, <3>1
    <3>3. s \in seen[c]
      BY <2>3, <3>2
    <3>4. lastId[c] > 0
      BY <1>2, <1>8, <3>3
    <3>5. CASE id[m] <= lastId[c]
      <4>1. Before(c, m)
        BY <3>1, <3>3 DEF Before
      <4> QED BY <1>8, <2>3, <2>5, <3>5, <4>1
    <3>6. CASE id[m] = e.id
      BY <1>6, <2>3, <2>5, <3>6, TurnFacts
    <3>7. CASE lastId[c] < id[m] /\ id[m] < e.id
      <4>1. Fanned(m)
        BY <1>6, <2>5, <3>7, TurnFacts
      <4>2. InChan(c, m) \/ m \in missed[c]
        BY <1>7, <2>5, <3>4, <3>7, <4>1
      <4>3. ~InChan(c, m)
        <5> SUFFICES ASSUME NEW k \in 1 .. Len(ch[c]), ch[c][k].src = m PROVE FALSE
          BY DEF InChan
        <5>1. id[m] >= e.id
          BY <1>9
        <5> QED BY <1>6, <3>0, <3>7, <5>1
      <4> QED BY <4>2, <4>3
    <3> QED BY <1>2, <1>6, <2>5, <3>0, <3>5, <3>6, <3>7
  <2>6. Kept(c)'
    <3>1. lastId'[c] <= Top'
      BY <1>5, <1>6, <2>3
    <3>2. lastId'[c] # 0 /\ seen'[c] # {}
      BY <1>6, <2>3
    <3> QED BY <1>1, <1>5, <2>3, <2>4, <2>5, <3>1, <3>2 DEF Kept, Old, Before
  <2>7. ASSUME NEW m \in Emits, Fanned(m), e.id < id[m] PROVE InChan(c, m)' \/ m \in missed[c]
    <3>1. id[m] > ch[c][1].id /\ id[m] > e.id
      BY <1>2, <1>3, <1>6, <2>7
    <3>2. InChan(c, m) \/ m \in missed[c]
      BY <1>3, <1>7, <2>7, <3>1
    <3> QED BY <1>10, <3>1, <3>2
  <2>8. high'[c] <= lastId'[c]
    BY <1>1, <1>2, <1>6, <2>1, <2>3
  <2>9. \A k \in 1 .. Len(ch'[c]) : ch'[c][k].id >= lastId'[c]
    BY <1>6, <1>11, <2>3
  <2>10. Open(c)'
    BY <1>1, <1>11, <1>12, <2>3, <2>7, <2>8, <2>9 DEF Open, Fanned
  <2> QED BY <2>6, <2>10
<1> QED BY <1>14, <1>15

(* Every step keeps it, for every client. *)
LEMMA StepB == InvA /\ InvA' /\ InvB /\ [Next]_vars => InvB'
<1> SUFFICES ASSUME InvA, InvA', InvB, [Next]_vars, ~raced', NEW c \in Clients
             PROVE  InTurn' /\ Kept(c)' /\ Open(c)'
  <2>1. (\A c \in Clients : InTurn' /\ Kept(c)' /\ Open(c)') => (~raced' => \A c \in Clients : Kept(c)' /\ Open(c)')
    OBVIOUS
  <2>2. InvA /\ InvA' /\ InvB /\ [Next]_vars /\ ~raced' => InTurn'
    BY TurnStep DEF InvB, Onward
  <2> QED BY <2>1, <2>2 DEF InvB
<1>1. ~raced /\ InTurn /\ Onward
  BY TurnStep DEF InvB
<1>2. Kept(c) /\ Open(c) /\ InTurn' /\ Types /\ StoredOK /\ Chan(c)
  BY <1>1 DEF InvB, Onward, InvA, Streams
<1>3. CASE \E m \in Emits : FanOut(m)
  BY <1>1, <1>2, <1>3, OpenFanOut
<1>4. CASE Connect(c)
  <2>1. /\ conn'[c] = "subscribed" /\ ch'[c] = << >>
        /\ lastId' = lastId /\ seen' = seen /\ missed' = missed
    BY <1>2, <1>4 DEF Connect, Types, Chan
  <2> QED BY <1>1, <1>2, <2>1, OpenEmpty, KeptStill
<1>5. CASE Replay(c)
  BY <1>1, <1>2, <1>5, OpenReplay
<1>6. CASE ReplayBreaks(c)
  <2> DEFINE es == ReplayOf(c)
  <2>1. PICK n \in 0 .. Len(es) - 1 : Write(c, SubSeq(es, 1, n))
    BY <1>6 DEF ReplayBreaks
  <2>2. /\ conn'[c] = "off" /\ ch'[c] = << >>
        /\ UNCHANGED <<stored, buf, pos, full, pc, id, missed>>
    BY <1>2, <1>6 DEF ReplayBreaks, Unsubscribe, Types, emitVars, ring
  <2>3. es \in Seq(Events) /\ Len(es) \in Nat
    BY <1>1, ReplayInTurn
  <2> HIDE DEF es
  <2>4. /\ SubSeq(es, 1, n) \in Seq(Events) /\ Len(SubSeq(es, 1, n)) = n
        /\ \A k \in 1 .. n : SubSeq(es, 1, n)[k] = es[k]
    <3>1. n \in Int /\ 1 <= n + 1 /\ n <= Len(es) /\ n - 1 + 1 = n
      BY <2>3
    <3>2. /\ SubSeq(es, 1, n) \in Seq(Events) /\ Len(SubSeq(es, 1, n)) = n - 1 + 1
          /\ \A k \in 1 .. (n - 1 + 1) : SubSeq(es, 1, n)[k] = es[1 + k - 1]
      BY <2>3, <3>1, Part
    <3>3. \A k \in 1 .. n : 1 + k - 1 = k
      BY <3>1
    <3> QED BY <3>1, <3>2, <3>3
  <2> DEFINE t == SubSeq(es, 1, n)
  <2>5. /\ t \in Seq(Events) /\ Write(c, t) /\ Len(t) <= Len(ReplayOf(c))
        /\ \A k \in 1 .. Len(t) : t[k] = ReplayOf(c)[k]
    BY <2>1, <2>3, <2>4 DEF es
  <2> HIDE DEF t
  <2>6. Kept(c)'
    BY <1>1, <1>2, <2>2, <2>5, KeptReplay
  <2> QED BY <1>2, <2>2, <2>6, OpenEmpty
<1>7. CASE Receive(c)
  BY <1>1, <1>2, <1>7, OpenReceive
<1>8. CASE Disconnect(c)
  <2>1. /\ conn'[c] = "off" /\ ch'[c] = << >>
        /\ lastId' = lastId /\ seen' = seen /\ missed' = missed
    BY <1>2, <1>8 DEF Disconnect, Unsubscribe, Types
  <2> QED BY <1>1, <1>2, <2>1, OpenEmpty, KeptStill
<1>9. CASE Restart
  <2>1. /\ conn'[c] = "off" /\ ch'[c] = << >>
        /\ lastId' = lastId /\ seen' = seen /\ missed' = missed
    BY <1>2, <1>9, RestartEffect
  <2> QED BY <1>1, <1>2, <2>1, OpenEmpty, KeptStill
<1>10. CASE Still(c) /\ ~Restart /\ ~\E m \in Emits : FanOut(m)
  <2>1. \A m \in Emits : pc'[m] \in {"hooks", "done", "killed"} => Fanned(m)
    <3>1. ASSUME NEW m \in Emits, EmitStep(m), ~FanOut(m)
          PROVE  \/ Moves(m, "seq") \/ Moves(m, "ring") \/ Moves(m, "fanout")
                 \/ pc[m] = "hooks" /\ Moves(m, "done")
      BY <3>1 DEF EmitStep, Insert, InsertFails, SetSeq, PushRing, Dispatch, Goto, Moves
    <3>2. ASSUME NEW m \in Emits, EmitStep(m), ~FanOut(m)
          PROVE  \A x \in Emits : pc'[x] \in {"hooks", "done", "killed"} => Fanned(x)
      BY <1>2, <3>1, <3>2 DEF Moves, Fanned, Types
    <3>3. (\E m \in Emits : EmitStep(m)) \/ pc' = pc
      BY <1>10 DEF Next, Stream, Drop, Refill, Connect, Replay, Receive, ReplayBreaks, Disconnect, emitVars, vars
    <3> QED BY <1>10, <3>2, <3>3 DEF Fanned
  <2>2. lastId'[c] = lastId[c] /\ seen'[c] = seen[c] /\ missed'[c] = missed[c]
    BY <1>10 DEF Still
  <2> QED BY <1>1, <1>2, <1>10, <2>1, <2>2, OpenStill, KeptStill
<1> QED BY <1>2, <1>3, <1>4, <1>5, <1>6, <1>7, <1>8, <1>9, <1>10, ClientFrame

(* And it holds at the start. *)
LEMMA InitB == Init => InvB
<1> SUFFICES ASSUME Init PROVE InvB
  OBVIOUS
<1>1. /\ stored = << >> /\ pos = 0 /\ full = FALSE /\ \A m \in Emits : pc[m] = "new"
      /\ \A c \in Clients : conn[c] = "off" /\ lastId[c] = 0 /\ ch[c] = << >> /\ seen[c] = {}
  BY DEF Init
<1>2. Size = 0 /\ Len(stored) = 0
  BY <1>1 DEF Size
<1>3. ~Unpushed /\ Emitting = {} /\ \A m \in Emits : ~Old(m)
  BY <1>1 DEF Unpushed, Emitting, Old
<1>4. Top = 0 /\ Low = 0
  BY <1>2, <1>3 DEF Top, Low
<1>5. InTurn
  BY <1>2, <1>3, <1>4 DEF InTurn
<1>6. ASSUME NEW c \in Clients PROVE Kept(c) /\ Open(c)
  <2>1. Kept(c)
    BY <1>1, <1>3, <1>4 DEF Kept
  <2>2. \A k \in 1 .. Len(ch[c]) : FALSE
    BY <1>1
  <2> QED BY <1>1, <2>1, <2>2 DEF Open
<1> QED BY <1>5, <1>6 DEF InvB

(* With Emit calls that follow each other a live stream has no gap, for any   *)
(* number of events, clients and connections, whatever the sizes of ring and  *)
(* channel, and across restarts: an event past one that the client has seen   *)
(* was written, waits in the channel, or found the channel full.              *)
THEOREM NothingOmitted == Spec => []NoGap
<1>1. InvA /\ InvB => NoGap
  <2> SUFFICES ASSUME InvA, InvB, NEW c \in Clients, ~raced, conn[c] = "live", NEW e \in Range(Contents),
                      pc[e.src] \in {"done", "killed"}, \E m \in seen[c] : id[m] < e.id
               PROVE  e.src \in seen[c] \cup missed[c] \cup {q.src : q \in Range(ch[c])}
    BY DEF NoGap
  <2>1. InTurn /\ Kept(c) /\ Open(c)
    BY DEF InvB
  <2>2. PICK k \in 1 .. Size : e = Entry(k)
    BY DEF Range, Contents
  <2>3. /\ e.src \in Emits /\ e.id = id[e.src] /\ Old(e.src) /\ Fanned(e.src) /\ e.id = Low + k
    <3>1. EventOK(Entry(k)) /\ Entry(k).id = Low + k
      BY <2>1, RingEntries DEF InTurn
    <3> QED BY <2>2, <3>1 DEF EventOK, Old, Fanned
  <2>4. /\ Low \in Nat /\ id[e.src] \in Nat /\ lastId[c] \in Nat /\ Low < id[e.src] /\ k \in Nat
    <3>1. Low \in Nat /\ k \in Nat /\ k >= 1
      BY <2>1, TurnFacts, RingEntries
    <3> QED BY <2>3, <3>1 DEF InvA, Types
  <2>5. Before(c, e.src)
    BY <2>3 DEF Before
  <2>6. CASE id[e.src] <= lastId[c]
    BY <2>1, <2>3, <2>4, <2>5, <2>6 DEF Kept
  <2>7. CASE lastId[c] < id[e.src]
    <3>1. lastId[c] > 0
      BY <2>1, <2>4 DEF Kept
    <3>2. InChan(c, e.src) \/ e.src \in missed[c]
      BY <2>1, <2>3, <2>4, <2>7, <3>1 DEF Open
    <3>3. DOMAIN ch[c] = 1 .. Len(ch[c])
      BY DEF InvA, Types
    <3>4. InChan(c, e.src) => e.src \in {q.src : q \in Range(ch[c])}
      BY <3>3 DEF InChan, Range
    <3> QED BY <3>2, <3>4
  <2> QED BY <2>4, <2>6, <2>7
<1> QED BY <1>1, InitB, StepB, InvariantA, PTL DEF Spec
=============================================================================
