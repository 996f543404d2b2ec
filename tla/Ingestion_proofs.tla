------------------------- MODULE Ingestion_proofs --------------------------
(***************************************************************************)
(* Theorems about Ingestion: its types, and what a source's points and its *)
(* tracking rows say of each other while requests end one after another.   *)
(***************************************************************************)
EXTENDS Ingestion, FiniteSetTheorems, SequenceTheorems, WellFoundedInduction, TLAPS

-----------------------------------------------------------------------------
(* Numbers *)

Below == {xy \in Nat \X Nat : xy[1] < xy[2]}

(* A nonempty set of natural numbers has a least element: what replaces       *)
(* induction below.                                                           *)
LEMMA Least ==
    ASSUME NEW T, T \subseteq Nat, T # {}
    PROVE  \E x \in T : \A y \in T : x <= y
<1>1. IsWellFoundedOn(Below, Nat)
  BY NatLessThanWellFounded DEF OpToRel, Below
<1>2. PICK x \in T : \A y \in T : ~ (<<y, x>> \in Below)
  BY <1>1, WFMin
<1>3. ASSUME NEW y \in T PROVE x <= y
  <2>1. x \in Nat /\ y \in Nat
    OBVIOUS
  <2>2. y < x => <<y, x>> \in Below
    BY <2>1 DEF Below
  <2> QED BY <1>2, <2>1, <2>2
<1> QED BY <1>3

(* A bounded set of numbers has a greatest element. *)
LEMMA Greatest ==
    ASSUME NEW S, S \subseteq Nat, S # {}, NEW b \in Nat, \A x \in S : x <= b
    PROVE  Max(S) \in S /\ \A x \in S : x <= Max(S)
<1> DEFINE T == {n \in Nat : \A x \in S : x <= n}
<1>1. PICK g \in T : \A n \in T : g <= n
  <2>1. T \subseteq Nat /\ b \in T
    OBVIOUS
  <2> HIDE DEF T
  <2> QED BY <2>1, Least
<1>2. g \in S
  <2> SUFFICES ASSUME g \notin S PROVE FALSE
    OBVIOUS
  <2>1. g \in Nat /\ \A x \in S : x \in Nat /\ x < g
    OBVIOUS
  <2>2. PICK x \in S : TRUE
    OBVIOUS
  <2>3. g - 1 \in Nat /\ \A y \in S : y <= g - 1
    BY <2>1, <2>2
  <2>4. g - 1 \in T
    BY <2>3
  <2> QED BY <1>1, <2>1, <2>4
<1>3. \E x \in S : \A y \in S : x >= y
  BY <1>2
<1> QED BY <1>3 DEF Max

(* The entries of a sequence of numbers are bounded. *)
LEMMA Bounded ==
    ASSUME NEW s \in Seq(Nat)
    PROVE  \E b \in Nat : \A k \in 1 .. Len(s) : s[k] <= b
<1> DEFINE Free(n) == \A b \in Nat : \E k \in 1 .. n : ~ s[k] <= b
           T == {n \in 0 .. Len(s) : Free(n)}
<1>s. Len(s) \in Nat /\ \A k \in 1 .. Len(s) : s[k] \in Nat
  OBVIOUS
<1>1. SUFFICES ASSUME T # {} PROVE FALSE
  <2>1. Len(s) \in 0 .. Len(s)
    BY <1>s
  <2> QED BY <2>1
<1>2. PICK m \in T : \A n \in T : m <= n
  <2>1. T \subseteq Nat
    BY <1>s
  <2> HIDE DEF T
  <2> QED BY <1>1, <2>1, Least
<1>3. m \in Nat /\ m <= Len(s) /\ m # 0
  <2>1. m \in Nat /\ m <= Len(s) /\ Free(m)
    BY <1>s
  <2>2. PICK k \in 1 .. m : ~ s[k] <= 0
    BY <2>1
  <2> QED BY <2>1, <2>2
<1>4. PICK b \in Nat : \A k \in 1 .. (m - 1) : s[k] <= b
  <2>1. m - 1 \in 0 .. Len(s) /\ ~ m <= m - 1
    BY <1>3, <1>s
  <2>2. m - 1 \notin T
    <3> HIDE DEF T
    <3> QED BY <1>2, <2>1
  <2> QED BY <2>1, <2>2
<1>5. s[m] \in Nat
  BY <1>3, <1>s
<1>6. PICK c \in Nat : b <= c /\ s[m] <= c
  <2>1. \A x \in Nat : b <= b + x /\ x <= b + x /\ b + x \in Nat
    OBVIOUS
  <2> QED BY <1>5, <2>1
<1>7. ASSUME NEW k \in 1 .. m PROVE s[k] <= c
  <2>1. CASE k = m
    BY <1>6, <2>1
  <2>2. CASE k # m
    <3>1. k \in 1 .. (m - 1) /\ k \in 1 .. Len(s)
      BY <1>3, <1>s, <2>2
    <3>2. s[k] <= b /\ s[k] \in Nat
      BY <1>4, <1>s, <3>1
    <3>3. \A x \in Nat : x <= b => x <= c
      BY <1>6
    <3> QED BY <3>2, <3>3
  <2> QED BY <2>1, <2>2
<1> QED BY <1>2, <1>7

(* Quotients *)
LEMMA Quotient ==
    ASSUME NEW B \in Nat \ {0}, NEW a \in Nat
    PROVE  \E q \in Nat : q = a \div B /\ B * q <= a /\ a < B * q + B
OBVIOUS

LEMMA Times ==
    ASSUME NEW B \in Nat \ {0}, NEW a \in Nat, NEW b \in Nat
    PROVE  B * a \in Nat /\ (a <= b <=> B * a <= B * b)
OBVIOUS

(* Batches of B entries cover L of them, and begin within them. *)
LEMMA Cut ==
    ASSUME NEW B \in Nat \ {0}, NEW L \in Nat, NEW n, n = (L + B - 1) \div B
    PROVE  /\ n \in Nat
           /\ \A k \in 1 .. n : /\ (k - 1) * B \in Nat /\ (k - 1) * B + 1 <= L
                                /\ k * B = (k - 1) * B + B
           /\ \A i \in 1 .. L : \E k \in 1 .. n : (k - 1) * B + 1 <= i /\ i <= k * B
<1>1. n \in Nat /\ B * n <= L + B - 1 /\ L + B - 1 < B * n + B
  <2>1. L + B - 1 \in Nat
    OBVIOUS
  <2> QED BY <2>1, Quotient
<1>2. ASSUME NEW k \in Nat, 1 <= k
      PROVE  (k - 1) * B = B * k - B /\ k * B = B * k /\ (k - 1) * B \in Nat
  <2>1. (k - 1) * B = B * (k - 1) /\ B * (k - 1) = B * k - B /\ k * B = B * k
    OBVIOUS
  <2>2. k - 1 \in Nat
    BY <1>2
  <2> QED BY <2>1, <2>2, Times
<1>3. ASSUME NEW k \in 1 .. n
      PROVE  (k - 1) * B \in Nat /\ (k - 1) * B + 1 <= L /\ k * B = (k - 1) * B + B
  <2>1. k \in Nat /\ 1 <= k /\ k <= n
    BY <1>1
  <2>2. B * k <= B * n /\ B * k \in Nat /\ B * n \in Nat
    BY <1>1, <2>1, Times
  <2> QED BY <1>1, <1>2, <2>1, <2>2
<1>4. ASSUME NEW i \in 1 .. L
      PROVE  \E k \in 1 .. n : (k - 1) * B + 1 <= i /\ i <= k * B
  <2>1. i - 1 \in Nat /\ i <= L
    OBVIOUS
  <2>2. PICK q \in Nat : B * q <= i - 1 /\ i - 1 < B * q + B
    BY <2>1, Quotient
  <2>3. B * n \in Nat /\ B * q \in Nat /\ ~ B * n <= B * q
    BY <1>1, <2>1, <2>2, Times
  <2>4. q + 1 \in 1 .. n
    BY <1>1, <2>3, Times
  <2>5. (q + 1) * B = B * q + B /\ ((q + 1) - 1) * B = B * q
    OBVIOUS
  <2> QED BY <2>2, <2>3, <2>4, <2>5
<1> QED BY <1>1, <1>3, <1>4

-----------------------------------------------------------------------------
(* Sequences *)

(* The entries of a function on an initial part of the numbers. *)
LEMMA Tabulated ==
    ASSUME NEW T, NEW n \in Nat, NEW f \in [1 .. n -> T]
    PROVE  f \in Seq(T) /\ Len(f) = n /\ Range(f) = {f[k] : k \in 1 .. n}
BY DEF Range

LEMMA RangeSeq ==
    ASSUME NEW T, NEW s \in Seq(T)
    PROVE  /\ Len(s) \in Nat /\ DOMAIN s = 1 .. Len(s) /\ \A k \in 1 .. Len(s) : s[k] \in T
           /\ Range(s) = {s[k] : k \in 1 .. Len(s)} /\ Range(s) \subseteq T
BY DEF Range

LEMMA RangeConcat ==
    ASSUME NEW T, NEW s \in Seq(T), NEW t \in Seq(T)
    PROVE  s \o t \in Seq(T) /\ Range(s \o t) = Range(s) \cup Range(t)
<1>1. /\ s \o t \in Seq(T) /\ Len(s \o t) = Len(s) + Len(t)
      /\ \A i \in 1 .. Len(s) + Len(t) :
            (s \o t)[i] = IF i <= Len(s) THEN s[i] ELSE t[i - Len(s)]
  BY ConcatProperties
<1>2. Len(s) \in Nat /\ Len(t) \in Nat
  OBVIOUS
<1>3. ASSUME NEW x \in Range(s \o t) PROVE x \in Range(s) \cup Range(t)
  <2>1. PICK i \in 1 .. Len(s) + Len(t) : x = (s \o t)[i]
    <3>1. Range(s \o t) = {(s \o t)[k] : k \in 1 .. Len(s \o t)}
      BY <1>1, RangeSeq
    <3> QED BY <1>1, <1>3, <3>1
  <2>2. CASE i <= Len(s)
    <3>1. x = s[i] /\ i \in 1 .. Len(s)
      BY <1>1, <1>2, <2>1, <2>2
    <3> QED BY <3>1, RangeSeq
  <2>3. CASE ~ i <= Len(s)
    <3>1. x = t[i - Len(s)] /\ i - Len(s) \in 1 .. Len(t)
      BY <1>1, <1>2, <2>1, <2>3
    <3> QED BY <3>1, RangeSeq
  <2> QED BY <2>2, <2>3
<1>4. ASSUME NEW x \in Range(s) PROVE x \in Range(s \o t)
  <2>1. PICK i \in 1 .. Len(s) : x = s[i]
    BY <1>4, RangeSeq
  <2>2. i \in 1 .. Len(s \o t) /\ x = (s \o t)[i]
    BY <1>1, <1>2, <2>1
  <2>3. Range(s \o t) = {(s \o t)[k] : k \in 1 .. Len(s \o t)}
    BY <1>1, RangeSeq
  <2> QED BY <2>2, <2>3
<1>5. ASSUME NEW x \in Range(t) PROVE x \in Range(s \o t)
  <2>1. PICK i \in 1 .. Len(t) : x = t[i]
    BY <1>5, RangeSeq
  <2>2. i + Len(s) \in 1 .. Len(s \o t) /\ x = (s \o t)[i + Len(s)]
    BY <1>1, <1>2, <2>1
  <2>3. Range(s \o t) = {(s \o t)[k] : k \in 1 .. Len(s \o t)}
    BY <1>1, RangeSeq
  <2> QED BY <2>2, <2>3
<1> QED BY <1>1, <1>3, <1>4, <1>5

(* f is the running concatenation of the first n entries of s. *)
Running(f, s, n) ==
    f = [i \in 1 .. n |-> IF i = 1 THEN s[i] ELSE f[i - 1] \o s[i]]

LEMMA RunningExists ==
    ASSUME NEW T, NEW s \in Seq(Seq(T)), s # << >>
    PROVE  \E f : Running(f, s, Len(s))
<1> DEFINE Bad == {n \in 1 .. Len(s) : ~ \E f : Running(f, s, n)}
<1>s. Len(s) \in Nat \ {0}
  OBVIOUS
<1>1. SUFFICES ASSUME Bad # {} PROVE FALSE
  <2>1. Len(s) \in 1 .. Len(s)
    BY <1>s
  <2> QED BY <2>1
<1>2. PICK m \in Bad : \A n \in Bad : m <= n
  <2>1. Bad \subseteq Nat
    BY <1>s
  <2> HIDE DEF Bad
  <2> QED BY <1>1, <2>1, Least
<1>3. m \in 1 .. Len(s) /\ ~ \E f : Running(f, s, m)
  BY <1>2
<1>4. m # 1
  <2>1. Running([i \in 1 .. 1 |-> s[1]], s, 1)
    BY DEF Running
  <2> QED BY <1>3, <2>1
<1>5. PICK f : Running(f, s, m - 1)
  <2>1. m - 1 \in 1 .. Len(s) /\ ~ m <= m - 1
    BY <1>3, <1>4, <1>s
  <2>2. m - 1 \notin Bad
    <3> HIDE DEF Bad
    <3> QED BY <1>2, <2>1
  <2> QED BY <2>1, <2>2
<1> DEFINE g == [i \in 1 .. m |-> IF i = m THEN f[m - 1] \o s[m] ELSE f[i]]
<1>6. ASSUME NEW i \in 1 .. m
      PROVE  g[i] = IF i = 1 THEN s[i] ELSE g[i - 1] \o s[i]
  <2>m. m \in Nat /\ m > 1
    BY <1>3, <1>4, <1>s
  <2>1. CASE i = m
    <3>1. i # 1 /\ i - 1 \in 1 .. m /\ i - 1 # m
      BY <2>1, <2>m
    <3>2. g[i] = f[m - 1] \o s[m] /\ g[i - 1] = f[m - 1]
      BY <2>1, <3>1
    <3> QED BY <2>1, <3>1, <3>2
  <2>2. CASE i # m
    <3>1. i \in 1 .. (m - 1)
      BY <2>2, <2>m
    <3>2. g[i] = f[i] /\ f[i] = IF i = 1 THEN s[i] ELSE f[i - 1] \o s[i]
      BY <1>5, <2>2, <3>1 DEF Running
    <3>3. i # 1 => g[i - 1] = f[i - 1]
      BY <2>m, <3>1
    <3> QED BY <3>2, <3>3
  <2> QED BY <2>1, <2>2
<1>7. g = [i \in 1 .. m |-> IF i = 1 THEN s[i] ELSE g[i - 1] \o s[i]]
  <2>1. g = [i \in 1 .. m |-> g[i]]
    OBVIOUS
  <2> HIDE DEF g
  <2> QED BY <1>6, <2>1
<1> HIDE DEF g
<1>8. Running(g, s, m)
  BY <1>7 DEF Running
<1> QED BY <1>3, <1>8

LEMMA RunningRange ==
    ASSUME NEW T, NEW s \in Seq(Seq(T)), s # << >>, NEW f, Running(f, s, Len(s)),
           NEW n \in 1 .. Len(s)
    PROVE  /\ f[n] \in Seq(T)
           /\ \A x : x \in Range(f[n]) <=> \E i \in 1 .. n : x \in Range(s[i])
<1> DEFINE Good(m) == /\ f[m] \in Seq(T)
                      /\ \A x : x \in Range(f[m]) <=> \E i \in 1 .. m : x \in Range(s[i])
           Bad == {m \in 1 .. Len(s) : ~ Good(m)}
<1>s. Len(s) \in Nat \ {0} /\ \A i \in 1 .. Len(s) : s[i] \in Seq(T)
  OBVIOUS
<1>1. SUFFICES ASSUME Bad # {} PROVE FALSE
  OBVIOUS
<1>2. PICK m \in Bad : \A k \in Bad : m <= k
  <2>1. Bad \subseteq Nat
    BY <1>s
  <2> HIDE DEF Bad
  <2> QED BY <1>1, <2>1, Least
<1>3. m \in 1 .. Len(s) /\ ~ Good(m)
  BY <1>2
<1>4. f[m] = IF m = 1 THEN s[m] ELSE f[m - 1] \o s[m]
  BY <1>3 DEF Running
<1>5. m # 1
  <2> SUFFICES ASSUME m = 1 PROVE Good(m)
    BY <1>3
  <2>1. f[m] = s[1] /\ s[1] \in Seq(T)
    BY <1>4, <1>s
  <2> QED BY <2>1
<1>6. m - 1 \in 1 .. Len(s) /\ Good(m - 1)
  <2>1. m - 1 \in 1 .. Len(s) /\ ~ m <= m - 1
    BY <1>3, <1>5, <1>s
  <2>2. m - 1 \notin Bad
    <3> HIDE DEF Bad
    <3> QED BY <1>2, <2>1
  <2> QED BY <2>1, <2>2
<1>7. f[m] = f[m - 1] \o s[m] /\ s[m] \in Seq(T) /\ f[m - 1] \in Seq(T)
  BY <1>3, <1>4, <1>5, <1>6, <1>s
<1>8. f[m] \in Seq(T) /\ Range(f[m]) = Range(f[m - 1]) \cup Range(s[m])
  BY <1>7, RangeConcat
<1>9. \A i : i \in 1 .. m <=> i \in 1 .. (m - 1) \/ i = m
  BY <1>3, <1>s
<1> QED BY <1>3, <1>6, <1>8, <1>9

(* FlattenSeq keeps what its argument holds, and nothing else. *)
LEMMA Flattened ==
    ASSUME NEW T, NEW s \in Seq(Seq(T))
    PROVE  /\ FlattenSeq(s) \in Seq(T)
           /\ \A x : x \in Range(FlattenSeq(s)) <=> \E i \in 1 .. Len(s) : x \in Range(s[i])
<1>1. CASE s = << >>
  <2>1. FlattenSeq(s) = << >> /\ Len(s) = 0
    BY <1>1 DEF FlattenSeq
  <2>2. << >> \in Seq(T) /\ Range(<< >>) = {}
    BY RangeSeq DEF Range
  <2> QED BY <2>1, <2>2
<1>2. CASE s # << >>
  <2> DEFINE F == CHOOSE f : f = [i \in 1 .. Len(s) |-> IF i = 1 THEN s[i] ELSE f[i - 1] \o s[i]]
  <2>1. Len(s) # 0 /\ Len(s) \in 1 .. Len(s)
    BY <1>2
  <2>2. FlattenSeq(s) = F[Len(s)]
    BY <2>1 DEF FlattenSeq
  <2>3. Running(F, s, Len(s))
    BY <1>2, RunningExists DEF Running
  <2> HIDE DEF F
  <2>4. /\ F[Len(s)] \in Seq(T)
        /\ \A x : x \in Range(F[Len(s)]) <=> \E i \in 1 .. Len(s) : x \in Range(s[i])
    BY <1>2, <2>1, <2>3, RunningRange, ZenonT(30)
  <2> QED BY <2>2, <2>4
<1> QED BY <1>1, <1>2

(* The batches of a list hold its entries, and nothing else. *)
LEMMA Batched ==
    ASSUME NEW T, NEW s \in Seq(T)
    PROVE  /\ Batches(s) \in Seq(Seq(T))
           /\ \A x : x \in Range(s) <=>
                    \E b \in 1 .. Len(Batches(s)) : x \in Range(Batches(s)[b])
<1> DEFINE L == Len(s)
           n == (L + BatchSize - 1) \div BatchSize
           lo(k) == (k - 1) * BatchSize + 1
           hi(k) == IF k * BatchSize < L THEN k * BatchSize ELSE L
<1>s. L \in Nat /\ BatchSize \in Nat \ {0} /\ \A i \in 1 .. L : s[i] \in T
  BY IngestionAssumption
<1>1. /\ n \in Nat
      /\ \A k \in 1 .. n : /\ (k - 1) * BatchSize \in Nat /\ (k - 1) * BatchSize + 1 <= L
                           /\ k * BatchSize = (k - 1) * BatchSize + BatchSize
      /\ \A i \in 1 .. L : \E k \in 1 .. n : (k - 1) * BatchSize + 1 <= i /\ i <= k * BatchSize
  <2> HIDE DEF L
  <2> QED BY <1>s, Cut
<1>2. Batches(s) = [k \in 1 .. n |-> SubSeq(s, lo(k), hi(k))]
  BY DEF Batches
<1> HIDE DEF n, L
<1>3. ASSUME NEW k \in 1 .. n
      PROVE  /\ lo(k) \in Int /\ hi(k) \in Int /\ 1 <= lo(k) /\ lo(k) <= hi(k) /\ hi(k) <= L
             /\ \A i \in 1 .. L : lo(k) <= i /\ i <= k * BatchSize => i <= hi(k)
  BY <1>1, <1>s
<1> HIDE DEF lo, hi
<1>4. ASSUME NEW k \in 1 .. n
      PROVE  /\ SubSeq(s, lo(k), hi(k)) \in Seq(T)
             /\ \A x : x \in Range(SubSeq(s, lo(k), hi(k))) <=>
                      \E i \in lo(k) .. hi(k) : x = s[i]
  <2> DEFINE c == SubSeq(s, lo(k), hi(k))
  <2>1. \A i \in lo(k) .. hi(k) : s[i] \in T
    BY <1>3, <1>s
  <2>2. /\ c \in Seq(T) /\ Len(c) = hi(k) - lo(k) + 1
        /\ \A i \in 1 .. hi(k) - lo(k) + 1 : c[i] = s[lo(k) + i - 1]
    BY <1>3, <2>1, SubSeqProperties
  <2> HIDE DEF c
  <2>3. \A x : x \in Range(c) <=> \E i \in 1 .. hi(k) - lo(k) + 1 : x = c[i]
    BY <2>2, RangeSeq
  <2>4. ASSUME NEW i \in lo(k) .. hi(k)
        PROVE  i - lo(k) + 1 \in 1 .. hi(k) - lo(k) + 1 /\ c[i - lo(k) + 1] = s[i]
    <3>1. i - lo(k) + 1 \in 1 .. hi(k) - lo(k) + 1 /\ lo(k) + (i - lo(k) + 1) - 1 = i
      BY <1>3
    <3> QED BY <2>2, <3>1
  <2>5. ASSUME NEW i \in 1 .. hi(k) - lo(k) + 1
        PROVE  lo(k) + i - 1 \in lo(k) .. hi(k) /\ c[i] = s[lo(k) + i - 1]
    BY <1>3, <2>2
  <2>6. \A x : x \in Range(c) <=> \E i \in lo(k) .. hi(k) : x = s[i]
    <3>1. ASSUME NEW x, x \in Range(c) PROVE \E i \in lo(k) .. hi(k) : x = s[i]
      <4>1. PICK i \in 1 .. hi(k) - lo(k) + 1 : x = c[i]
        BY <2>3, <3>1
      <4> QED BY <2>5, <4>1
    <3>2. ASSUME NEW i \in lo(k) .. hi(k) PROVE s[i] \in Range(c)
      <4>1. i - lo(k) + 1 \in 1 .. hi(k) - lo(k) + 1 /\ c[i - lo(k) + 1] = s[i]
        BY <2>4
      <4> QED BY <2>3, <4>1
    <3> QED BY <3>1, <3>2
  <2> QED BY <2>2, <2>6 DEF c
<1>5. Batches(s) \in [1 .. n -> Seq(T)] /\ \A k \in 1 .. n : Batches(s)[k] = SubSeq(s, lo(k), hi(k))
  BY <1>2, <1>4
<1>6. Batches(s) \in Seq(Seq(T)) /\ Len(Batches(s)) = n
  BY <1>1, <1>5, Tabulated
<1>7. ASSUME NEW x, x \in Range(s)
      PROVE  \E b \in 1 .. n : x \in Range(Batches(s)[b])
  <2>1. PICK i \in 1 .. L : x = s[i]
    BY <1>7, RangeSeq DEF L
  <2>2. PICK k \in 1 .. n : lo(k) <= i /\ i <= k * BatchSize
    BY <1>1 DEF lo
  <2>3. i \in lo(k) .. hi(k)
    BY <1>3, <1>s, <2>2
  <2> QED BY <1>4, <1>5, <2>1, <2>3
<1>8. ASSUME NEW x, NEW b \in 1 .. n, x \in Range(Batches(s)[b])
      PROVE  x \in Range(s)
  <2>1. PICK i \in lo(b) .. hi(b) : x = s[i]
    BY <1>4, <1>5, <1>8
  <2>2. i \in 1 .. L
    BY <1>3, <1>s
  <2> QED BY <2>1, <2>2, RangeSeq DEF L
<1> QED BY <1>6, <1>7, <1>8

-----------------------------------------------------------------------------
(* Documents and their chunks *)

LEMMA Basics ==
    /\ Jobs \subseteq Nat
    /\ Versions = 1 .. Len(Length) /\ 0 \notin Versions /\ Versions \subseteq Nat
    /\ \A v \in Versions : Length[v] \in Nat
    /\ Docs = {DocOrder[n] : n \in DOMAIN DocOrder}
    /\ Len(DocOrder) \in Nat /\ DOMAIN DocOrder = 1 .. Len(DocOrder)
    /\ \A n \in DOMAIN DocOrder : DocOrder[n] \in Docs
BY IngestionAssumption DEF Jobs, Versions, Docs, Range

(* Every chunk of a document has its place. *)
LEMMA PlaceOf ==
    ASSUME NEW t \in {"file", "rest"}, NEW d \in Docs, NEW v \in Versions, NEW k \in 1 .. Length[v]
    PROVE  <<t, d, k>> \in Places
<1>1. Length \in Seq(Nat) /\ v \in 1 .. Len(Length) /\ Length[v] \in Nat
  BY Basics, IngestionAssumption
<1>2. PICK b \in Nat : \A i \in 1 .. Len(Length) : Length[i] <= b
  BY <1>1, Bounded
<1>3. Range(Length) = {Length[i] : i \in 1 .. Len(Length)} /\ Range(Length) \subseteq Nat
  BY <1>1, RangeSeq
<1>4. Length[v] \in Range(Length) /\ \A x \in Range(Length) : x <= b
  BY <1>1, <1>2, <1>3
<1>5. Max(Range(Length)) \in Nat /\ Length[v] <= Max(Range(Length))
  BY <1>3, <1>4, Greatest
<1>6. k \in 1 .. Max(Range(Length))
  BY <1>1, <1>5
<1> QED BY <1>6 DEF Places

(* What Chunks makes of a document *)
LEMMA ChunksOf ==
    ASSUME TypeOK, NEW t \in {"file", "rest"}, NEW d \in Docs
    PROVE  /\ Chunks(t, d) \in Seq(Chunk)
           /\ \A c \in Range(Chunks(t, d)) : c \in Chunk /\ c.place[1] = t /\ c.place[2] = d /\ c.version = files[d]
           /\ files[d] # 0 => \A k \in 1 .. Length[files[d]] :
                                 \E c \in Range(Chunks(t, d)) : c.place = <<t, d, k>>
<1> DEFINE n == IF files[d] = 0 THEN 0 ELSE Length[files[d]]
<1>1. files[d] = 0 \/ files[d] \in Versions
  BY DEF TypeOK, Content
<1>2. n \in Nat
  BY <1>1, Basics
<1>3. Chunks(t, d) = [k \in 1 .. n |-> [place |-> <<t, d, k>>, version |-> files[d]]]
  BY DEF Chunks
<1>4. ASSUME NEW k \in 1 .. n
      PROVE  [place |-> <<t, d, k>>, version |-> files[d]] \in Chunk
  <2>1. files[d] \in Versions /\ k \in 1 .. Length[files[d]]
    BY <1>1, <1>4
  <2>2. <<t, d, k>> \in Places
    BY <2>1, PlaceOf
  <2> QED BY <2>1, <2>2 DEF Chunk
<1>5. files[d] # 0 => n = Length[files[d]]
  OBVIOUS
<1> HIDE DEF n
<1>6. Chunks(t, d) \in [1 .. n -> Chunk]
  BY <1>3, <1>4
<1>7. Chunks(t, d) \in Seq(Chunk) /\ Range(Chunks(t, d)) = {Chunks(t, d)[k] : k \in 1 .. n}
  BY <1>2, <1>6, Tabulated
<1>8. ASSUME NEW k \in 1 .. n
      PROVE  /\ Chunks(t, d)[k] \in Range(Chunks(t, d)) /\ Chunks(t, d)[k] \in Chunk
             /\ Chunks(t, d)[k].place = <<t, d, k>> /\ Chunks(t, d)[k].version = files[d]
  <2>1. Chunks(t, d)[k] = [place |-> <<t, d, k>>, version |-> files[d]]
    BY <1>3
  <2>2. Chunks(t, d)[k] \in Range(Chunks(t, d)) /\ Chunks(t, d)[k] \in Chunk
    BY <1>6, <1>7
  <2> QED BY <2>1, <2>2
<1>9. ASSUME NEW c \in Range(Chunks(t, d))
      PROVE  c \in Chunk /\ c.place[1] = t /\ c.place[2] = d /\ c.version = files[d]
  <2>1. PICK k \in 1 .. n : c = Chunks(t, d)[k]
    BY <1>7
  <2> QED BY <1>8, <2>1
<1> QED BY <1>5, <1>7, <1>8, <1>9

(* The chunks of a list of batches *)
Queued(q) == UNION {Range(q[b]) : b \in DOMAIN q}

(* A directory scan: the hashes to record are those of the documents whose    *)
(* chunks are queued, and all their chunks are.                               *)
LEMMA Scanned ==
    ASSUME TypeOK, NEW j \in Jobs, NEW readable \in SUBSET Listed, NEW known,
           ScanFiles(j, readable, known)
    PROVE  \E q \in Seq(Seq(Chunk)), h \in [Docs -> Content] :
              /\ pending' = [pending EXCEPT ![j] = q] /\ newHash' = [newHash EXCEPT ![j] = h]
              /\ seen' = [seen EXCEPT ![j] = Listed]
              /\ \A c \in Queued(q) : c.place[1] = "file" /\ h[c.place[2]] = c.version
              /\ \A d \in Docs : h[d] # 0 => \A k \in 1 .. Length[h[d]] :
                                                  \E c \in Queued(q) : c.place = <<"file", d, k>>
<1> DEFINE fresh(d) == d \in readable /\ Length[files[d]] > 0 /\ ~(d \in known /\ Unchanged(d))
           h == [d \in Docs |-> IF fresh(d) THEN files[d] ELSE 0]
           s == [n \in DOMAIN DocOrder |-> IF fresh(DocOrder[n]) THEN Chunks("file", DocOrder[n]) ELSE << >>]
           q == Batches(FlattenSeq(s))
<1>1. /\ pending' = [pending EXCEPT ![j] = q] /\ newHash' = [newHash EXCEPT ![j] = h]
      /\ seen' = [seen EXCEPT ![j] = Listed]
  BY DEF ScanFiles, SeenDocs
<1>2. \A d \in Docs : fresh(d) => files[d] # 0
  BY DEF Listed
<1> HIDE DEF fresh
<1>3. h \in [Docs -> Content] /\ \A d \in Docs : h[d] = IF fresh(d) THEN files[d] ELSE 0
  BY DEF TypeOK, Content
<1>4. s \in Seq(Seq(Chunk)) /\ Len(s) = Len(DocOrder)
  <2>1. \A n \in 1 .. Len(DocOrder) : s[n] \in Seq(Chunk)
    BY Basics, ChunksOf
  <2>2. s \in [1 .. Len(DocOrder) -> Seq(Chunk)]
    BY <2>1, Basics
  <2> HIDE DEF s
  <2> QED BY <2>2, Basics, Tabulated
<1>5. \A n \in 1 .. Len(DocOrder) :
         s[n] = IF fresh(DocOrder[n]) THEN Chunks("file", DocOrder[n]) ELSE << >>
  BY Basics
<1> HIDE DEF h, s
<1>6. FlattenSeq(s) \in Seq(Chunk)
      /\ \A c : c \in Range(FlattenSeq(s)) <=> \E n \in 1 .. Len(DocOrder) : c \in Range(s[n])
  BY <1>4, Flattened
<1>7. q \in Seq(Seq(Chunk))
      /\ \A c : c \in Range(FlattenSeq(s)) <=> \E b \in 1 .. Len(q) : c \in Range(q[b])
  BY <1>6, Batched
<1> HIDE DEF q
<1>8. \A c : c \in Queued(q) <=> \E n \in 1 .. Len(DocOrder) : c \in Range(s[n])
  <2>1. DOMAIN q = 1 .. Len(q)
    BY <1>7
  <2> QED BY <1>6, <1>7, <2>1 DEF Queued
<1>9. ASSUME NEW c \in Queued(q) PROVE c.place[1] = "file" /\ h[c.place[2]] = c.version
  <2>1. PICK n \in 1 .. Len(DocOrder) : c \in Range(s[n])
    BY <1>8
  <2>2. DocOrder[n] \in Docs
    BY Basics
  <2>3. fresh(DocOrder[n]) /\ c \in Range(Chunks("file", DocOrder[n]))
    <3>1. Range(<< >>) = {}
      BY DEF Range
    <3> QED BY <1>5, <2>1, <3>1
  <2>4. c.place[1] = "file" /\ c.place[2] = DocOrder[n] /\ c.version = files[DocOrder[n]]
    BY <2>2, <2>3, ChunksOf
  <2> QED BY <1>3, <2>2, <2>3, <2>4
<1>10. ASSUME NEW d \in Docs, h[d] # 0, NEW k \in 1 .. Length[h[d]]
       PROVE  \E c \in Queued(q) : c.place = <<"file", d, k>>
  <2>1. fresh(d) /\ h[d] = files[d] /\ files[d] # 0
    BY <1>2, <1>3, <1>10
  <2>2. PICK n \in 1 .. Len(DocOrder) : d = DocOrder[n]
    BY Basics
  <2>3. PICK c \in Range(Chunks("file", d)) : c.place = <<"file", d, k>>
    <3>1. "file" \in {"file", "rest"} /\ k \in 1 .. Length[files[d]]
      BY <2>1
    <3>2. \A i \in 1 .. Length[files[d]] : \E c \in Range(Chunks("file", d)) : c.place = <<"file", d, i>>
      BY <2>1, <3>1, ChunksOf
    <3> QED BY <3>1, <3>2
  <2>4. c \in Range(s[n])
    BY <1>5, <2>1, <2>2, <2>3
  <2> QED BY <1>8, <2>3, <2>4
<1> QED BY <1>1, <1>3, <1>7, <1>9, <1>10

(* Pages of a REST source *)
LEMMA Fetched ==
    ASSUME TypeOK, NEW j \in Jobs, NEW fetched, FetchPages(j, fetched)
    PROVE  /\ \E q \in Seq(Seq(Chunk)) : /\ pending' = [pending EXCEPT ![j] = q]
                                          /\ \A c \in Queued(q) : c.place[1] = "rest"
           /\ newHash' = newHash /\ seen' = seen
<1> DEFINE s == [n \in DOMAIN DocOrder |->
                   IF DocOrder[n] \in fetched /\ Chunks("rest", DocOrder[n]) # << >>
                   THEN <<Chunks("rest", DocOrder[n])>> ELSE << >>]
<1>1. pending' = [pending EXCEPT ![j] = FlattenSeq(s)] /\ newHash' = newHash /\ seen' = seen
  BY DEF FetchPages
<1>2. s \in Seq(Seq(Seq(Chunk)))
  <2>1. \A n \in 1 .. Len(DocOrder) : s[n] \in Seq(Seq(Chunk))
    <3>1. \A n \in 1 .. Len(DocOrder) : <<Chunks("rest", DocOrder[n])>> \in Seq(Seq(Chunk))
      <4>1. \A x \in Seq(Chunk) : <<x>> \in Seq(Seq(Chunk))
        OBVIOUS
      <4>2. \A n \in 1 .. Len(DocOrder) : Chunks("rest", DocOrder[n]) \in Seq(Chunk)
        BY Basics, ChunksOf
      <4> QED BY <4>1, <4>2
    <3>2. << >> \in Seq(Seq(Chunk))
      OBVIOUS
    <3> QED BY <3>1, <3>2, Basics
  <2>2. s \in [1 .. Len(DocOrder) -> Seq(Seq(Chunk))]
    BY <2>1, Basics
  <2> HIDE DEF s
  <2> QED BY <2>2, Basics, Tabulated
<1>3. /\ DOMAIN s = 1 .. Len(DocOrder) /\ Len(s) = Len(DocOrder)
      /\ \A n \in 1 .. Len(DocOrder) : \A b : b \in Range(s[n]) => b = Chunks("rest", DocOrder[n])
  BY Basics DEF Range
<1> HIDE DEF s
<1> DEFINE q == FlattenSeq(s)
<1>4. q \in Seq(Seq(Chunk)) /\ \A b : b \in Range(q) <=> \E n \in 1 .. Len(s) : b \in Range(s[n])
  BY <1>2, Flattened
<1> HIDE DEF q
<1>5. ASSUME NEW c \in Queued(q) PROVE c.place[1] = "rest"
  <2>1. PICK b \in DOMAIN q : c \in Range(q[b])
    BY DEF Queued
  <2>2. q[b] \in Range(q)
    BY DEF Range
  <2>3. PICK n \in 1 .. Len(DocOrder) : q[b] = Chunks("rest", DocOrder[n])
    BY <1>3, <1>4, <2>2
  <2>4. DocOrder[n] \in Docs
    BY Basics
  <2> QED BY <2>1, <2>3, <2>4, ChunksOf
<1> QED BY <1>1, <1>4, <1>5 DEF q

(* What storing the first n chunks of a batch leaves at a place *)
LEMMA UpsertedAt ==
    ASSUME TypeOK, NEW batch \in Seq(Chunk), NEW n \in 0 .. Len(batch)
    PROVE  /\ Upserted(batch, n) \in [Places -> Content]
           /\ \A p \in Places :
                 \/ /\ Upserted(batch, n)[p] = points[p]
                    /\ ~ \E k \in 1 .. n : batch[k].place = p
                 \/ \E c \in Range(batch) : c.place = p /\ Upserted(batch, n)[p] = c.version
<1>1. ASSUME NEW p \in Places
      PROVE  /\ Upserted(batch, n)[p] \in Content
             /\ \/ /\ Upserted(batch, n)[p] = points[p]
                   /\ ~ \E k \in 1 .. n : batch[k].place = p
                \/ \E c \in Range(batch) : c.place = p /\ Upserted(batch, n)[p] = c.version
  <2>1. CASE \E k \in 1 .. n : batch[k].place = p
    <3> DEFINE c == CHOOSE c \in Range(batch) : c.place = p
    <3>1. PICK k \in 1 .. n : batch[k].place = p
      BY <2>1
    <3>2. batch[k] \in Range(batch) /\ Range(batch) \subseteq Chunk
      <4>1. k \in 1 .. Len(batch)
        OBVIOUS
      <4> QED BY <4>1, RangeSeq
    <3>3. c \in Range(batch) /\ c.place = p
      BY <3>1, <3>2
    <3>4. Upserted(batch, n)[p] = c.version
      BY <2>1 DEF Upserted
    <3> HIDE DEF c
    <3>5. c.version \in Content
      BY <3>2, <3>3 DEF Chunk, Content
    <3> QED BY <3>3, <3>4, <3>5
  <2>2. CASE ~ \E k \in 1 .. n : batch[k].place = p
    BY <2>2 DEF Upserted, TypeOK
  <2> QED BY <2>1, <2>2
<1>2. Upserted(batch, n) = [p \in Places |-> Upserted(batch, n)[p]]
  BY DEF Upserted
<1> QED BY <1>1, <1>2

-----------------------------------------------------------------------------
(* Types *)

LEMMA TypesInit == ASSUME Init PROVE TypeOK
BY IngestionAssumption DEF Init, TypeOK, NoPoints, NoHashes, Content

(* The head and the tail of what a storing request has left *)
LEMMA FirstBatch ==
    ASSUME TypeOK, NEW j \in Jobs, pending[j] # << >>
    PROVE  /\ Head(pending[j]) \in Seq(Chunk) /\ Tail(pending[j]) \in Seq(Seq(Chunk))
           /\ Len(Head(pending[j])) \in Nat
           /\ \A c : c \in Queued(pending[j]) <=>
                    c \in Range(Head(pending[j])) \/ c \in Queued(Tail(pending[j]))
<1> DEFINE q == pending[j]
<1>1. q \in Seq(Seq(Chunk)) /\ q # << >>
  BY DEF TypeOK
<1> HIDE DEF q
<1>2. /\ Head(q) \in Seq(Chunk) /\ Tail(q) \in Seq(Seq(Chunk)) /\ Len(Tail(q)) = Len(q) - 1
      /\ \A i \in 1 .. Len(Tail(q)) : Tail(q)[i] = q[i + 1]
  BY <1>1, HeadTailProperties
<1>3. Head(q) = q[1] /\ Len(q) \in Nat \ {0} /\ DOMAIN q = 1 .. Len(q)
      /\ DOMAIN Tail(q) = 1 .. (Len(q) - 1)
  BY <1>1, <1>2
<1>4. ASSUME NEW c, c \in Queued(q)
      PROVE  c \in Range(Head(q)) \/ c \in Queued(Tail(q))
  <2>1. PICK b \in 1 .. Len(q) : c \in Range(q[b])
    BY <1>3, <1>4 DEF Queued
  <2>2. CASE b = 1
    BY <1>3, <2>1, <2>2
  <2>3. CASE b # 1
    <3>1. b - 1 \in 1 .. (Len(q) - 1) /\ (b - 1) + 1 = b
      BY <1>3, <2>3
    <3>2. c \in Range(Tail(q)[b - 1])
      BY <1>2, <1>3, <2>1, <3>1
    <3> QED BY <1>3, <3>1, <3>2 DEF Queued
  <2> QED BY <2>2, <2>3
<1>5. ASSUME NEW c, c \in Range(Head(q)) PROVE c \in Queued(q)
  <2>1. 1 \in DOMAIN q
    BY <1>3
  <2> QED BY <1>3, <1>5, <2>1 DEF Queued
<1>6. ASSUME NEW c, c \in Queued(Tail(q)) PROVE c \in Queued(q)
  <2>1. PICK b \in 1 .. (Len(q) - 1) : c \in Range(Tail(q)[b])
    BY <1>3, <1>6 DEF Queued
  <2>2. b + 1 \in DOMAIN q /\ c \in Range(q[b + 1])
    BY <1>2, <1>3, <2>1
  <2> QED BY <2>2 DEF Queued
<1>7. Len(Head(q)) \in Nat
  BY <1>2
<1>8. /\ Head(q) \in Seq(Chunk) /\ Tail(q) \in Seq(Seq(Chunk)) /\ Len(Head(q)) \in Nat
      /\ \A c : c \in Queued(q) <=> c \in Range(Head(q)) \/ c \in Queued(Tail(q))
  BY <1>2, <1>4, <1>5, <1>6, <1>7
<1> QED BY <1>8 DEF q

LEMMA TypesStoreBatch == ASSUME TypeOK, NEW j \in Jobs, StoreBatch(j) PROVE TypeOK'
<1> DEFINE b == Head(pending[j])
<1>1. pending[j] # << >> /\ pending' = [pending EXCEPT ![j] = Tail(@)]
  BY DEF StoreBatch
<1>2. b \in Seq(Chunk) /\ Tail(pending[j]) \in Seq(Seq(Chunk)) /\ Len(b) \in Nat
  BY <1>1, FirstBatch
<1>3. \/ \E n \in 0 .. Len(b) : points' = Upserted(b, n)
      \/ UNCHANGED points
  <2>1. Len(b) \in 0 .. Len(b)
    BY <1>2
  <2> QED BY <2>1 DEF StoreBatch
<1>4. stored' = [stored EXCEPT ![j] = @ + Len(b)] \/ UNCHANGED stored
  BY DEF StoreBatch
<1>5. torn' \in SUBSET Docs
  BY DEF StoreBatch, DocsIn, TypeOK
<1> HIDE DEF b
<1>6. points' \in [Places -> Content]
  BY <1>2, <1>3, UpsertedAt DEF TypeOK
<1>7. pending' \in [Jobs -> Seq(Seq(Chunk))]
  BY <1>1, <1>2 DEF TypeOK
<1>8. stored' \in [Jobs -> Nat]
  <2>1. PICK n \in Nat : stored' = [stored EXCEPT ![j] = @ + n] \/ UNCHANGED stored
    BY <1>2, <1>4
  <2>2. stored \in [Jobs -> Nat] /\ stored[j] + n \in Nat
    BY DEF TypeOK
  <2> QED BY <2>1, <2>2
<1> QED BY <1>5, <1>6, <1>7, <1>8 DEF TypeOK, StoreBatch, row

LEMMA TypesScan == ASSUME TypeOK, NEW j \in Jobs, Scan(j) PROVE TypeOK'
<1>1. /\ pending' \in [Jobs -> Seq(Seq(Chunk))] /\ newHash' \in [Jobs -> [Docs -> Content]]
      /\ seen' \in [Jobs -> SUBSET Docs]
  <2>1. ASSUME NEW u \in Failing("fs", Listed), NEW k \in Failing("registry", Listed),
               ScanFiles(j, Listed \ u, Listed \ k)
        PROVE  <1>1!:
    <3>1. Listed \ u \in SUBSET Listed /\ Listed \in SUBSET Docs
      BY DEF Listed
    <3>2. PICK q \in Seq(Seq(Chunk)), h \in [Docs -> Content] :
              /\ pending' = [pending EXCEPT ![j] = q] /\ newHash' = [newHash EXCEPT ![j] = h]
              /\ seen' = [seen EXCEPT ![j] = Listed]
      BY <2>1, <3>1, Scanned
    <3> QED BY <3>1, <3>2 DEF TypeOK
  <2>2. ASSUME NEW u \in Failing("fetch", Listed), FetchPages(j, Listed \ u)
        PROVE  <1>1!:
    <3>1. PICK q \in Seq(Seq(Chunk)) : pending' = [pending EXCEPT ![j] = q]
      BY <2>2, Fetched
    <3>2. newHash' = newHash /\ seen' = seen
      BY <2>2, Fetched
    <3> QED BY <3>1, <3>2 DEF TypeOK
  <2>3. ASSUME UNCHANGED <<pending, newHash, seen>>
        PROVE  <1>1!:
    BY <2>3 DEF TypeOK
  <2> QED BY <2>1, <2>2, <2>3 DEF Scan
<1>2. torn' \in SUBSET Docs
  BY DEF Scan, TypeOK
<1> QED BY <1>1, <1>2 DEF TypeOK, Scan, Goto, SetStatus, LivePcs

LEMMA TypesCrash == ASSUME TypeOK, Crash PROVE TypeOK'
<1>1. points' \in [Places -> Content]
  <2>1. CASE UNCHANGED points
    BY <2>1 DEF TypeOK
  <2>2. ASSUME NEW j \in Jobs, pending[j] # << >>, NEW n \in 0 .. Len(Head(pending[j])),
               points' = Upserted(Head(pending[j]), n)
        PROVE  points' \in [Places -> Content]
    BY <2>2, FirstBatch, UpsertedAt
  <2> QED BY <2>1, <2>2 DEF Crash
<1>2. torn' \in SUBSET Docs
  BY DEF Crash, TypeOK
<1>3. pc' \in [Jobs -> {"idle", "done", "killed"} \cup LivePcs]
  BY DEF Crash, TypeOK
<1> QED BY <1>1, <1>2, <1>3 DEF TypeOK, Crash, row

LEMMA TypesNext == ASSUME TypeOK, [Next]_vars PROVE TypeOK'
<1>1. ASSUME NEW j \in Jobs, NEW t \in {"file", "rest"}, CreateSource(j, t)
      PROVE  TypeOK'
  BY <1>1 DEF TypeOK, CreateSource, Goto, row
<1>2. ASSUME NEW j \in Jobs, BeginIngest(j)
      PROVE  TypeOK'
  BY <1>2 DEF TypeOK, BeginIngest, Goto, row, LivePcs
<1>3. ASSUME NEW j \in Jobs, BeginDelete(j)
      PROVE  TypeOK'
  BY <1>3 DEF TypeOK, BeginDelete, Goto, row, LivePcs
<1>4. ASSUME NEW j \in Jobs, Connect(j)
      PROVE  TypeOK'
  BY <1>4 DEF TypeOK, Connect, Goto, SetStatus, LivePcs
<1>5. ASSUME NEW j \in Jobs, Scan(j)
      PROVE  TypeOK'
  BY <1>5, TypesScan
<1>6. ASSUME NEW j \in Jobs, StoreBatch(j)
      PROVE  TypeOK'
  BY <1>6, TypesStoreBatch
<1>7. ASSUME NEW j \in Jobs, NEW d \in Docs, RecordHash(j, d)
      PROVE  TypeOK'
  <2>1. hash' \in [Docs -> Content] /\ torn' \in SUBSET Docs
    <3>1. newHash[j][d] \in Content
      BY DEF TypeOK
    <3> QED BY <1>7, <3>1 DEF TypeOK, RecordHash
  <2>2. newHash' \in [Jobs -> [Docs -> Content]]
    BY <1>7 DEF TypeOK, RecordHash, Content
  <2> QED BY <1>7, <2>1, <2>2 DEF TypeOK, RecordHash, row
<1>8. ASSUME NEW j \in Jobs, ListDocs(j)
      PROVE  TypeOK'
  <2>1. gone' \in [Jobs -> SUBSET Docs]
    <3>1. PICK S \in SUBSET Docs : gone' = [gone EXCEPT ![j] = S]
      <4>1. Missing(j) \in SUBSET Docs
        BY DEF Missing
      <4> QED BY <1>8, <4>1 DEF ListDocs
    <3> QED BY <3>1 DEF TypeOK
  <2>2. pc' \in [Jobs -> {"idle", "done", "killed"} \cup LivePcs]
    BY <1>8 DEF TypeOK, ListDocs, Goto, LivePcs
  <2> QED BY <1>8, <2>1, <2>2 DEF TypeOK, ListDocs, row
<1>9. ASSUME NEW j \in Jobs, NEW d \in Docs, SweepPoints(j, d)
      PROVE  TypeOK'
  BY <1>9 DEF TypeOK, SweepPoints, row, Content
<1>10. ASSUME NEW j \in Jobs, NEW d \in Docs, SweepRow(j, d)
      PROVE  TypeOK'
  BY <1>10 DEF TypeOK, SweepRow, row, Content
<1>11. ASSUME NEW j \in Jobs, FinishIngest(j)
      PROVE  TypeOK'
  BY <1>11 DEF TypeOK, FinishIngest, Goto, SetStatus, AfterIngest, LivePcs
<1>12. ASSUME NEW j \in Jobs, UpdateCounts(j)
      PROVE  TypeOK'
  BY <1>12 DEF TypeOK, UpdateCounts, Goto
<1>13. ASSUME NEW j \in Jobs, DeletePoints(j)
      PROVE  TypeOK'
  BY <1>13 DEF TypeOK, DeletePoints, Goto, row, PointsLeft, NoPoints, Content, LivePcs
<1>14. ASSUME NEW j \in Jobs, DeleteRow(j)
      PROVE  TypeOK'
  <2>1. chunkCount' \in Nat /\ status' \in {"absent", "pending", "ingesting", "active", "error"}
    BY <1>14 DEF TypeOK, DeleteRow
  <2>2. pc' \in [Jobs -> {"idle", "done", "killed"} \cup LivePcs]
    BY <1>14 DEF TypeOK, DeleteRow, Goto, LivePcs
  <2> QED BY <1>14, <2>1, <2>2 DEF TypeOK, DeleteRow
<1>15. ASSUME NEW j \in Jobs, DeleteTracking(j)
      PROVE  TypeOK'
  BY <1>15 DEF TypeOK, DeleteTracking, Goto, row, NoHashes, Content
<1>16. ASSUME NEW d \in Docs, NEW v \in Content, EditDoc(d, v)
      PROVE  TypeOK'
  BY <1>16, IngestionAssumption DEF TypeOK, EditDoc, row, jobVars
<1>17. ASSUME Crash
      PROVE  TypeOK'
  BY <1>17, TypesCrash
<1>18. ASSUME UNCHANGED vars
      PROVE  TypeOK'
  BY <1>18 DEF TypeOK, vars, row, jobVars
<1> QED BY <1>1, <1>2, <1>3, <1>4, <1>5, <1>6, <1>7, <1>8, <1>9,
           <1>10, <1>11, <1>12, <1>13, <1>14, <1>15, <1>16, <1>17, <1>18 DEF Next, Step

(* Every variable of the ingestion keeps its type, whatever fails and however *)
(* requests interleave; in particular every chunk a connector queues has a    *)
(* place among the source's points.                                           *)
THEOREM TypeCorrect == Spec => []TypeOK
<1>1. Init => TypeOK
  BY TypesInit
<1>2. TypeOK /\ [Next]_vars => TypeOK'
  BY TypesNext
<1> QED BY <1>1, <1>2, PTL DEF Spec

-----------------------------------------------------------------------------
(* One request at a time *)

(* Unless requests may overlap, one of them at most is under way. *)
Alone == "overlap" \notin env
Solo == Alone => \A i, j \in Jobs : Live(i) /\ Live(j) => i = j

(* A request moves, one begins when it may, or the server dies. *)
LEMMA Moves ==
    ASSUME TypeOK, [Next]_vars
    PROVE  /\ env' = env
           /\ \/ pc' = pc
              \/ \E j \in Jobs : /\ MayStart(j) \/ Live(j)
                                 /\ \A x \in Jobs : x # j => pc'[x] = pc[x]
              \/ \A x \in Jobs : ~ Live(x)'
<1> DEFINE Moved == \/ pc' = pc
                    \/ \E i \in Jobs : /\ MayStart(i) \/ Live(i)
                                       /\ \A x \in Jobs : x # i => pc'[x] = pc[x]
                    \/ \A x \in Jobs : ~ Live(x)'
<1>1. ASSUME NEW j \in Jobs, NEW t \in {"file", "rest"}, CreateSource(j, t)
      PROVE  env' = env /\ Moved
  <2>1. MayStart(j) /\ \A x \in Jobs : x # j => pc'[x] = pc[x]
    BY <1>1 DEF CreateSource, TypeOK, Goto
  <2> QED BY <1>1, <2>1 DEF CreateSource
<1>2. ASSUME NEW j \in Jobs, BeginIngest(j)
      PROVE  env' = env /\ Moved
  <2>1. MayStart(j) /\ \A x \in Jobs : x # j => pc'[x] = pc[x]
    BY <1>2 DEF BeginIngest, TypeOK, Goto
  <2> QED BY <1>2, <2>1 DEF BeginIngest
<1>3. ASSUME NEW j \in Jobs, BeginDelete(j)
      PROVE  env' = env /\ Moved
  <2>1. MayStart(j) /\ \A x \in Jobs : x # j => pc'[x] = pc[x]
    BY <1>3 DEF BeginDelete, TypeOK, Goto
  <2> QED BY <1>3, <2>1 DEF BeginDelete
<1>4. ASSUME NEW j \in Jobs, Connect(j)
      PROVE  env' = env /\ Moved
  <2>1. Live(j) /\ \A x \in Jobs : x # j => pc'[x] = pc[x]
    BY <1>4 DEF Connect, TypeOK, Goto, Live, LivePcs
  <2> QED BY <1>4, <2>1 DEF Connect
<1>5. ASSUME NEW j \in Jobs, Scan(j)
      PROVE  env' = env /\ Moved
  <2>1. Live(j) /\ \A x \in Jobs : x # j => pc'[x] = pc[x]
    BY <1>5 DEF Scan, TypeOK, Goto, Live, LivePcs
  <2> QED BY <1>5, <2>1 DEF Scan
<1>6. ASSUME NEW j \in Jobs, StoreBatch(j)
      PROVE  env' = env /\ Moved
  BY <1>6 DEF StoreBatch
<1>7. ASSUME NEW j \in Jobs, NEW d \in Docs, RecordHash(j, d)
      PROVE  env' = env /\ Moved
  BY <1>7 DEF RecordHash
<1>8. ASSUME NEW j \in Jobs, ListDocs(j)
      PROVE  env' = env /\ Moved
  <2>1. Live(j) /\ \A x \in Jobs : x # j => pc'[x] = pc[x]
    BY <1>8 DEF ListDocs, TypeOK, Goto, Live, LivePcs
  <2> QED BY <1>8, <2>1 DEF ListDocs
<1>9. ASSUME NEW j \in Jobs, NEW d \in Docs, SweepPoints(j, d)
      PROVE  env' = env /\ Moved
  BY <1>9 DEF SweepPoints
<1>10. ASSUME NEW j \in Jobs, NEW d \in Docs, SweepRow(j, d)
      PROVE  env' = env /\ Moved
  BY <1>10 DEF SweepRow
<1>11. ASSUME NEW j \in Jobs, FinishIngest(j)
      PROVE  env' = env /\ Moved
  <2>1. Live(j) /\ \A x \in Jobs : x # j => pc'[x] = pc[x]
    BY <1>11 DEF FinishIngest, TypeOK, Goto, Live, LivePcs
  <2> QED BY <1>11, <2>1 DEF FinishIngest
<1>12. ASSUME NEW j \in Jobs, UpdateCounts(j)
      PROVE  env' = env /\ Moved
  <2>1. Live(j) /\ \A x \in Jobs : x # j => pc'[x] = pc[x]
    BY <1>12 DEF UpdateCounts, TypeOK, Goto, Live, LivePcs
  <2> QED BY <1>12, <2>1 DEF UpdateCounts
<1>13. ASSUME NEW j \in Jobs, DeletePoints(j)
      PROVE  env' = env /\ Moved
  <2>1. Live(j) /\ \A x \in Jobs : x # j => pc'[x] = pc[x]
    BY <1>13 DEF DeletePoints, TypeOK, Goto, Live, LivePcs
  <2> QED BY <1>13, <2>1 DEF DeletePoints
<1>14. ASSUME NEW j \in Jobs, DeleteRow(j)
      PROVE  env' = env /\ Moved
  <2>1. Live(j) /\ \A x \in Jobs : x # j => pc'[x] = pc[x]
    BY <1>14 DEF DeleteRow, TypeOK, Goto, Live, LivePcs
  <2> QED BY <1>14, <2>1 DEF DeleteRow
<1>15. ASSUME NEW j \in Jobs, DeleteTracking(j)
      PROVE  env' = env /\ Moved
  <2>1. Live(j) /\ \A x \in Jobs : x # j => pc'[x] = pc[x]
    BY <1>15 DEF DeleteTracking, TypeOK, Goto, Live, LivePcs
  <2> QED BY <1>15, <2>1 DEF DeleteTracking
<1>16. ASSUME NEW d \in Docs, NEW v \in Content, EditDoc(d, v)
      PROVE  env' = env /\ Moved
  BY <1>16 DEF EditDoc, jobVars
<1>17. ASSUME Crash
      PROVE  env' = env /\ Moved
  BY <1>17 DEF Crash, TypeOK, Live, LivePcs
<1>18. ASSUME UNCHANGED vars
      PROVE  env' = env /\ Moved
  BY <1>18 DEF vars, jobVars
<1> QED BY <1>1, <1>2, <1>3, <1>4, <1>5, <1>6, <1>7, <1>8, <1>9,
           <1>10, <1>11, <1>12, <1>13, <1>14, <1>15, <1>16, <1>17, <1>18 DEF Next, Step

LEMMA SoloNext == ASSUME TypeOK, Solo, [Next]_vars PROVE Solo'
<1>1. \A j \in Jobs : Alone /\ MayStart(j) => \A x \in Jobs : ~ Live(x)
  BY DEF MayStart, Alone
<1>2. \A x \in Jobs : pc'[x] = pc[x] => (Live(x)' <=> Live(x))
  BY DEF Live
<1>3. Alone' = Alone
  BY Moves DEF Alone
<1> QED BY <1>1, <1>2, <1>3, Moves DEF Solo

(* The row and the points, while requests run one after another: a source     *)
(* that is gone has no points, and a request under way finds the row as it    *)
(* left it.                                                                   *)
Unghosted ==
    /\ status = "absent" => points = NoPoints
    /\ \A j \in Jobs :
          /\ pc[j] \in {"connect", "scan", "store", "sweep", "dpoints", "drow"} => status # "absent"
          /\ pc[j] = "drow" => points = NoPoints
          /\ pc[j] = "dtrack" => status = "absent"

LEMMA UnghostedNext ==
    ASSUME TypeOK, Solo, Alone, Unghosted, [Next]_vars
    PROVE  Unghosted'
<1>s. \A i, j \in Jobs : Live(i) /\ Live(j) => i = j
  BY DEF Solo
<1>m. \A j \in Jobs : MayStart(j) => \A x \in Jobs : ~ Live(x)
  BY DEF MayStart, Alone
<1>1. ASSUME NEW j \in Jobs, NEW t \in {"file", "rest"}, CreateSource(j, t)
      PROVE  Unghosted'
  BY <1>1, <1>m DEF CreateSource, row, Goto, Unghosted, TypeOK, Live
<1>2. ASSUME NEW j \in Jobs, BeginIngest(j)
      PROVE  Unghosted'
  BY <1>2 DEF BeginIngest, row, Goto, Unghosted, TypeOK
<1>3. ASSUME NEW j \in Jobs, BeginDelete(j)
      PROVE  Unghosted'
  BY <1>3 DEF BeginDelete, row, Goto, Unghosted, TypeOK
<1>4. ASSUME NEW j \in Jobs, Connect(j)
      PROVE  Unghosted'
  BY <1>4 DEF Connect, Goto, SetStatus, Unghosted, TypeOK
<1>5. ASSUME NEW j \in Jobs, Scan(j)
      PROVE  Unghosted'
  BY <1>5 DEF Scan, Goto, SetStatus, Unghosted, TypeOK
<1>6. ASSUME NEW j \in Jobs, StoreBatch(j)
      PROVE  Unghosted'
  BY <1>6, <1>s DEF StoreBatch, row, Unghosted, TypeOK, Live
<1>7. ASSUME NEW j \in Jobs, NEW d \in Docs, RecordHash(j, d)
      PROVE  Unghosted'
  BY <1>7 DEF RecordHash, row, Unghosted
<1>8. ASSUME NEW j \in Jobs, ListDocs(j)
      PROVE  Unghosted'
  BY <1>8 DEF ListDocs, row, Goto, Unghosted
<1>9. ASSUME NEW j \in Jobs, NEW d \in Docs, SweepPoints(j, d)
      PROVE  Unghosted'
  BY <1>9 DEF SweepPoints, row, NoPoints, Unghosted
<1>10. ASSUME NEW j \in Jobs, NEW d \in Docs, SweepRow(j, d)
      PROVE  Unghosted'
  BY <1>10 DEF SweepRow, row, Unghosted
<1>11. ASSUME NEW j \in Jobs, FinishIngest(j)
      PROVE  Unghosted'
  BY <1>11 DEF FinishIngest, Goto, SetStatus, AfterIngest, Unghosted
<1>12. ASSUME NEW j \in Jobs, UpdateCounts(j)
      PROVE  Unghosted'
  BY <1>12 DEF UpdateCounts, Goto, Unghosted
<1>13. ASSUME NEW j \in Jobs, DeletePoints(j)
      PROVE  Unghosted'
  BY <1>13 DEF DeletePoints, row, Goto, PointsLeft, Unghosted, TypeOK
<1>14. ASSUME NEW j \in Jobs, DeleteRow(j)
      PROVE  Unghosted'
  BY <1>14, <1>s DEF DeleteRow, Goto, Unghosted, TypeOK, Live
<1>15. ASSUME NEW j \in Jobs, DeleteTracking(j)
      PROVE  Unghosted'
  BY <1>15 DEF DeleteTracking, row, Goto, Unghosted
<1>16. ASSUME NEW d \in Docs, NEW v \in Content, EditDoc(d, v)
      PROVE  Unghosted'
  BY <1>16 DEF EditDoc, row, jobVars, Unghosted
<1>17. ASSUME Crash
      PROVE  Unghosted'
  <2>1. status' = status /\ \A x \in Jobs : pc'[x] = pc[x] \/ pc'[x] = "killed"
    BY <1>17 DEF Crash, row
  <2>2. points' = points \/ status # "absent"
    BY <1>17 DEF Crash, Unghosted
  <2>3. \A x \in Jobs : pc'[x] # "drow"
    BY <1>17 DEF Crash, Live, LivePcs
  <2> QED BY <2>1, <2>2, <2>3 DEF Unghosted
<1>18. ASSUME UNCHANGED vars
      PROVE  Unghosted'
  BY <1>18 DEF vars, row, jobVars, Unghosted
<1> QED BY <1>1, <1>2, <1>3, <1>4, <1>5, <1>6, <1>7, <1>8, <1>9,
           <1>10, <1>11, <1>12, <1>13, <1>14, <1>15, <1>16, <1>17, <1>18 DEF Next, Step

-----------------------------------------------------------------------------
(* What a request has noted *)

(* The chunks a request has queued are its connector's, and the hashes it     *)
(* will record are theirs; a request that has not scanned, or that reads a    *)
(* REST source, has none to record.                                           *)
Noted ==
    \A j \in Jobs :
       /\ pc[j] \in {"idle", "connect", "scan"} \/ type[j] = "rest" => newHash[j] = NoHashes
       /\ pc[j] = "store" => \A c \in Queued(pending[j]) :
             /\ c.place[1] = type[j]
             /\ type[j] = "file" => newHash[j][c.place[2]] = c.version

LEMMA NotedNext == ASSUME TypeOK, Noted, [Next]_vars PROVE Noted'
<1>1. ASSUME NEW j \in Jobs, NEW t \in {"file", "rest"}, CreateSource(j, t)
      PROVE  Noted'
  BY <1>1 DEF CreateSource, Goto, Noted, TypeOK
<1>2. ASSUME NEW j \in Jobs, BeginIngest(j)
      PROVE  Noted'
  BY <1>2 DEF BeginIngest, MayStart, Goto, Noted, TypeOK
<1>3. ASSUME NEW j \in Jobs, BeginDelete(j)
      PROVE  Noted'
  BY <1>3 DEF BeginDelete, Goto, Noted, TypeOK
<1>4. ASSUME NEW j \in Jobs, Connect(j)
      PROVE  Noted'
  BY <1>4 DEF Connect, Goto, Noted, TypeOK
<1>5. ASSUME NEW j \in Jobs, Scan(j)
      PROVE  Noted'
  <2>0. pc[j] = "scan" /\ UNCHANGED type /\ newHash[j] = NoHashes
    BY <1>5 DEF Scan, Noted
  <2>1. ASSUME NEW u \in Failing("fs", Listed), NEW k \in Failing("registry", Listed),
               ScanFiles(j, Listed \ u, Listed \ k), Goto(j, "store"), type[j] = "file"
        PROVE  Noted'
    <3>1. Listed \ u \in SUBSET Listed
      OBVIOUS
    <3>2. PICK q \in Seq(Seq(Chunk)), h \in [Docs -> Content] :
              /\ pending' = [pending EXCEPT ![j] = q] /\ newHash' = [newHash EXCEPT ![j] = h]
              /\ \A c \in Queued(q) : c.place[1] = "file" /\ h[c.place[2]] = c.version
      BY <2>1, <3>1, Scanned, ZenonT(30)
    <3> QED BY <2>0, <2>1, <3>2 DEF Noted, TypeOK, Goto
  <2>2. ASSUME NEW u \in Failing("fetch", Listed), FetchPages(j, Listed \ u), Goto(j, "store"),
               type[j] = "rest"
        PROVE  Noted'
    <3>1. PICK q \in Seq(Seq(Chunk)) : /\ pending' = [pending EXCEPT ![j] = q]
                                       /\ \A c \in Queued(q) : c.place[1] = "rest"
      BY <2>2, Fetched
    <3>2. newHash' = newHash
      BY <2>2, Fetched
    <3> QED BY <2>0, <2>2, <3>1, <3>2 DEF Noted, Goto, TypeOK
  <2>3. ASSUME UNCHANGED <<pending, newHash>>, Goto(j, "done")
        PROVE  Noted'
    BY <2>0, <2>3 DEF Noted, TypeOK, Goto
  <2> QED BY <1>5, <2>1, <2>2, <2>3 DEF Scan
<1>6. ASSUME NEW j \in Jobs, StoreBatch(j)
      PROVE  Noted'
  <2>1. /\ pending' = [pending EXCEPT ![j] = Tail(pending[j])]
        /\ pending[j] # << >> /\ pc[j] = "store"
        /\ pc' = pc /\ type' = type /\ newHash' = newHash
    BY <1>6 DEF StoreBatch
  <2>2. \A c \in Queued(Tail(pending[j])) : c \in Queued(pending[j])
    BY <2>1, FirstBatch
  <2> QED BY <2>1, <2>2 DEF Noted, TypeOK
<1>7. ASSUME NEW j \in Jobs, NEW d \in Docs, RecordHash(j, d)
      PROVE  Noted'
  <2>1. /\ pc[j] = "store" /\ pc' = pc /\ type' = type /\ pending' = pending
        /\ newHash' = [newHash EXCEPT ![j][d] = 0] /\ Queued(pending[j]) = {}
        /\ newHash[j][d] # 0
    BY <1>7 DEF RecordHash, Queued
  <2>2. \A x \in Jobs : x # j => newHash'[x] = newHash[x]
    BY <2>1 DEF TypeOK
  <2>3. type[j] # "rest"
    BY <2>1 DEF Noted, NoHashes
  <2> QED BY <2>1, <2>2, <2>3 DEF Noted
<1>8. ASSUME NEW j \in Jobs, ListDocs(j)
      PROVE  Noted'
  BY <1>8 DEF ListDocs, Goto, Noted, TypeOK
<1>9. ASSUME NEW j \in Jobs, NEW d \in Docs, SweepPoints(j, d)
      PROVE  Noted'
  BY <1>9 DEF SweepPoints, Noted, TypeOK
<1>10. ASSUME NEW j \in Jobs, NEW d \in Docs, SweepRow(j, d)
      PROVE  Noted'
  BY <1>10 DEF SweepRow, Noted, TypeOK
<1>11. ASSUME NEW j \in Jobs, FinishIngest(j)
      PROVE  Noted'
  BY <1>11 DEF FinishIngest, Goto, Noted, TypeOK
<1>12. ASSUME NEW j \in Jobs, UpdateCounts(j)
      PROVE  Noted'
  BY <1>12 DEF UpdateCounts, Goto, Noted, TypeOK
<1>13. ASSUME NEW j \in Jobs, DeletePoints(j)
      PROVE  Noted'
  BY <1>13 DEF DeletePoints, Goto, Noted, TypeOK
<1>14. ASSUME NEW j \in Jobs, DeleteRow(j)
      PROVE  Noted'
  BY <1>14 DEF DeleteRow, Goto, Noted, TypeOK
<1>15. ASSUME NEW j \in Jobs, DeleteTracking(j)
      PROVE  Noted'
  BY <1>15 DEF DeleteTracking, Goto, Noted, TypeOK
<1>16. ASSUME NEW d \in Docs, NEW v \in Content, EditDoc(d, v)
      PROVE  Noted'
  BY <1>16 DEF EditDoc, row, jobVars, Noted, TypeOK
<1>17. ASSUME Crash
      PROVE  Noted'
  BY <1>17 DEF Crash, Live, LivePcs, Noted, TypeOK
<1>18. ASSUME UNCHANGED vars
      PROVE  Noted'
  BY <1>18 DEF vars, row, jobVars, Noted, TypeOK
<1> QED BY <1>1, <1>2, <1>3, <1>4, <1>5, <1>6, <1>7, <1>8, <1>9,
           <1>10, <1>11, <1>12, <1>13, <1>14, <1>15, <1>16, <1>17, <1>18 DEF Next, Step

(* What a request has still to sweep is not in its listing. *)
Aside ==
    \A j \in Jobs :
       /\ (gone[j] \cup swept[j]) \cap seen[j] = {}
       /\ pc[j] \in {"idle", "connect", "scan"} => gone[j] = {} /\ swept[j] = {}

LEMMA AsideNext == ASSUME TypeOK, Aside, [Next]_vars PROVE Aside'
<1>1. ASSUME NEW j \in Jobs, NEW t \in {"file", "rest"}, CreateSource(j, t)
      PROVE  Aside'
  BY <1>1 DEF CreateSource, Goto, Aside, TypeOK
<1>2. ASSUME NEW j \in Jobs, BeginIngest(j)
      PROVE  Aside'
  BY <1>2 DEF BeginIngest, MayStart, Goto, Aside, TypeOK
<1>3. ASSUME NEW j \in Jobs, BeginDelete(j)
      PROVE  Aside'
  BY <1>3 DEF BeginDelete, Goto, Aside, TypeOK
<1>4. ASSUME NEW j \in Jobs, Connect(j)
      PROVE  Aside'
  BY <1>4 DEF Connect, Goto, Aside, TypeOK
<1>5. ASSUME NEW j \in Jobs, Scan(j)
      PROVE  Aside'
  <2>1. gone[j] = {} /\ swept[j] = {} /\ gone' = gone /\ swept' = swept
    BY <1>5 DEF Scan, Aside
  <2>2. \A x \in Jobs : x # j => pc'[x] = pc[x]
    BY <1>5 DEF Scan, Goto, TypeOK
  <2>3. \A x \in Jobs : x # j => seen'[x] = seen[x]
    <3>1. ASSUME NEW u, NEW k, ScanFiles(j, Listed \ u, Listed \ k)
          PROVE  \A x \in Jobs : x # j => seen'[x] = seen[x]
      BY <3>1 DEF ScanFiles, TypeOK
    <3>2. ASSUME NEW u, FetchPages(j, Listed \ u)
          PROVE  \A x \in Jobs : x # j => seen'[x] = seen[x]
      BY <3>2 DEF FetchPages
    <3> QED BY <1>5, <3>1, <3>2 DEF Scan
  <2> QED BY <2>1, <2>2, <2>3 DEF Aside
<1>6. ASSUME NEW j \in Jobs, StoreBatch(j)
      PROVE  Aside'
  BY <1>6 DEF StoreBatch, Aside, TypeOK
<1>7. ASSUME NEW j \in Jobs, NEW d \in Docs, RecordHash(j, d)
      PROVE  Aside'
  BY <1>7 DEF RecordHash, Aside, TypeOK
<1>8. ASSUME NEW j \in Jobs, ListDocs(j)
      PROVE  Aside'
  BY <1>8 DEF ListDocs, Missing, Goto, Aside, TypeOK
<1>9. ASSUME NEW j \in Jobs, NEW d \in Docs, SweepPoints(j, d)
      PROVE  Aside'
  BY <1>9 DEF SweepPoints, Aside, TypeOK
<1>10. ASSUME NEW j \in Jobs, NEW d \in Docs, SweepRow(j, d)
      PROVE  Aside'
  BY <1>10 DEF SweepRow, Aside, TypeOK
<1>11. ASSUME NEW j \in Jobs, FinishIngest(j)
      PROVE  Aside'
  BY <1>11 DEF FinishIngest, Goto, Aside, TypeOK
<1>12. ASSUME NEW j \in Jobs, UpdateCounts(j)
      PROVE  Aside'
  BY <1>12 DEF UpdateCounts, Goto, Aside, TypeOK
<1>13. ASSUME NEW j \in Jobs, DeletePoints(j)
      PROVE  Aside'
  BY <1>13 DEF DeletePoints, Goto, Aside, TypeOK
<1>14. ASSUME NEW j \in Jobs, DeleteRow(j)
      PROVE  Aside'
  BY <1>14 DEF DeleteRow, Goto, Aside, TypeOK
<1>15. ASSUME NEW j \in Jobs, DeleteTracking(j)
      PROVE  Aside'
  BY <1>15 DEF DeleteTracking, Goto, Aside, TypeOK
<1>16. ASSUME NEW d \in Docs, NEW v \in Content, EditDoc(d, v)
      PROVE  Aside'
  BY <1>16 DEF EditDoc, row, jobVars, Aside, TypeOK
<1>17. ASSUME Crash
      PROVE  Aside'
  BY <1>17 DEF Crash, Live, LivePcs, Aside, TypeOK
<1>18. ASSUME UNCHANGED vars
      PROVE  Aside'
  BY <1>18 DEF vars, row, jobVars, Aside, TypeOK
<1> QED BY <1>1, <1>2, <1>3, <1>4, <1>5, <1>6, <1>7, <1>8, <1>9,
           <1>10, <1>11, <1>12, <1>13, <1>14, <1>15, <1>16, <1>17, <1>18 DEF Next, Step

(* A point that storing a batch, or a part of it, changes is of a document in *)
(* the batch, and of a directory's it gets the version whose hash the request *)
(* will record.                                                               *)
LEMMA StoredAt ==
    ASSUME TypeOK, Noted, NEW j \in Jobs, pc[j] = "store", pending[j] # << >>,
           NEW n \in 0 .. Len(Head(pending[j]))
    PROVE  /\ \A p \in Places :
                 \/ Upserted(Head(pending[j]), n)[p] = points[p]
                 \/ /\ p[1] = type[j]
                    /\ type[j] = "file" =>
                          /\ newHash[j][p[2]] # 0
                          /\ Upserted(Head(pending[j]), n)[p] = newHash[j][p[2]]
           /\ n = Len(Head(pending[j])) /\ type[j] = "file" =>
                 \A c \in Range(Head(pending[j])) :
                    Upserted(Head(pending[j]), n)[c.place] = newHash[j][c.place[2]]
<1> DEFINE b == Head(pending[j])
<1>1. b \in Seq(Chunk) /\ Len(b) \in Nat
  BY FirstBatch
<1>2. \A c \in Range(b) : c.place[1] = type[j] /\ (type[j] = "file" => newHash[j][c.place[2]] = c.version)
  BY FirstBatch DEF Noted
<1>b. n \in 0 .. Len(b)
  OBVIOUS
<1> HIDE DEF b
<1>3. \A c \in Range(b) : c \in Chunk /\ c.version # 0 /\ c.place \in Places
  <2>1. Range(b) \subseteq Chunk
    BY <1>1, RangeSeq
  <2>2. 0 \notin Versions
    BY Basics
  <2> QED BY <2>1, <2>2 DEF Chunk
<1>4. ASSUME NEW p \in Places
      PROVE  \/ Upserted(b, n)[p] = points[p] /\ ~ \E k \in 1 .. n : b[k].place = p
             \/ \E c \in Range(b) : c.place = p /\ Upserted(b, n)[p] = c.version
  BY <1>1, <1>b, UpsertedAt
<1>5. ASSUME NEW p \in Places
      PROVE  \/ Upserted(b, n)[p] = points[p]
             \/ /\ p[1] = type[j]
                /\ type[j] = "file" => newHash[j][p[2]] # 0 /\ Upserted(b, n)[p] = newHash[j][p[2]]
  BY <1>2, <1>3, <1>4
<1>6. ASSUME n = Len(b), type[j] = "file", NEW c \in Range(b)
      PROVE  Upserted(b, n)[c.place] = newHash[j][c.place[2]]
  <2>1. PICK k \in 1 .. Len(b) : c = b[k]
    BY <1>1, RangeSeq
  <2>2. PICK e \in Range(b) : e.place = c.place /\ Upserted(b, n)[c.place] = e.version
    BY <1>3, <1>4, <1>6, <2>1
  <2> QED BY <1>2, <1>6, <2>2
<1> QED BY <1>5, <1>6 DEF b

(* What StoreBatch does, and what it leaves torn *)
LEMMA BatchEffect ==
    ASSUME TypeOK, NEW j \in Jobs, StoreBatch(j)
    PROVE  /\ pc[j] = "store" /\ pending[j] # << >> /\ pc' = pc /\ type' = type /\ newHash' = newHash
           /\ pending' = [pending EXCEPT ![j] = Tail(pending[j])]
           /\ kind' = kind /\ status' = status /\ hash' = hash /\ seen' = seen /\ gone' = gone
           /\ swept' = swept /\ torn \subseteq torn'
           /\ \/ points' = points
              \/ \E n \in 0 .. Len(Head(pending[j])) : points' = Upserted(Head(pending[j]), n)
           /\ \/ points' = Upserted(Head(pending[j]), Len(Head(pending[j])))
              \/ DocsIn(Head(pending[j])) \subseteq torn'
<1>1. pending[j] # << >>
  BY DEF StoreBatch
<1>2. Len(Head(pending[j])) \in 0 .. Len(Head(pending[j]))
  BY <1>1, FirstBatch
<1> QED BY <1>2 DEF StoreBatch, row

-----------------------------------------------------------------------------
(* Points are tracked *)

Reliable == Spared({"qdrant", "registry", "crash", "overlap"})

(* Every document of a directory that has points is tracked or about to be; a *)
(* request that sweeps has yet to sweep the tracked documents it did not see, *)
(* and the one it is sweeping has no points.                                  *)
Covered ==
    /\ \A p \in Places : p[1] = "file" /\ points[p] # 0 => hash[p[2]] # 0 \/ Writing(p[2])
    /\ \A j \in Jobs : pc[j] = "sweep" =>
          /\ type[j] = "file" =>
                \A d \in Docs : hash[d] # 0 => d \in seen[j] \cup gone[j] \cup swept[j]
          /\ \A p \in Places : p[1] = "file" /\ p[2] \in swept[j] => points[p] = 0
    /\ \A j \in Jobs : /\ pc[j] # "sweep" => swept[j] = {}
                       /\ \A d, e \in swept[j] : d = e

LEMMA CoveredNext ==
    ASSUME TypeOK, Solo, Unghosted, Noted, Covered, Reliable, [Next]_vars
    PROVE  Covered'
<1>r. "qdrant" \notin env /\ "registry" \notin env /\ "crash" \notin env /\ Alone
  BY DEF Reliable, Spared, Alone
<1>s. \A i, j \in Jobs : Live(i) /\ Live(j) => i = j
  BY <1>r DEF Solo
<1>m. \A j \in Jobs : MayStart(j) => \A x \in Jobs : ~ Live(x)
  BY <1>r DEF MayStart, Alone
<1>d. \A p \in Places : p[2] \in Docs
  BY DEF Places
<1>1. ASSUME NEW j \in Jobs, NEW t \in {"file", "rest"}, CreateSource(j, t)
      PROVE  Covered'
  BY <1>1, <1>m DEF CreateSource, row, Goto, Covered, Writing, TypeOK, Live, LivePcs
<1>2. ASSUME NEW j \in Jobs, BeginIngest(j)
      PROVE  Covered'
  BY <1>2, <1>m DEF BeginIngest, row, Goto, Covered, Writing, TypeOK, Live, LivePcs
<1>3. ASSUME NEW j \in Jobs, BeginDelete(j)
      PROVE  Covered'
  BY <1>3, <1>m DEF BeginDelete, row, Goto, Covered, Writing, TypeOK, Live, LivePcs
<1>4. ASSUME NEW j \in Jobs, Connect(j)
      PROVE  Covered'
  <2>1. /\ points' = points /\ hash' = hash /\ type' = type /\ seen' = seen /\ gone' = gone
        /\ swept' = swept /\ newHash' = newHash
        /\ \A x \in Jobs : /\ pc'[x] = "store" <=> pc[x] = "store"
                           /\ pc'[x] = "sweep" <=> pc[x] = "sweep"
    BY <1>4 DEF Connect, Goto, TypeOK
  <2>2. \A d \in Docs : Writing(d) => Writing(d)'
    BY <2>1 DEF Writing
  <2> QED BY <1>d, <2>1, <2>2 DEF Covered
<1>5. ASSUME NEW j \in Jobs, Scan(j)
      PROVE  Covered'
  <2>1. /\ pc[j] = "scan" /\ points' = points /\ hash' = hash /\ type' = type /\ gone' = gone
        /\ swept' = swept /\ \A x \in Jobs : x # j => pc'[x] = pc[x] /\ pc[x] \notin {"store", "sweep"}
        /\ pc'[j] # "sweep"
    BY <1>5, <1>s DEF Scan, Goto, TypeOK, Live, LivePcs
  <2>2. \A d \in Docs : ~ Writing(d)
    BY <2>1 DEF Writing
  <2> QED BY <1>d, <2>1, <2>2 DEF Covered
<1>6. ASSUME NEW j \in Jobs, StoreBatch(j)
      PROVE  Covered'
  <2>1. /\ pc[j] = "store" /\ pending[j] # << >> /\ pc' = pc /\ type' = type /\ newHash' = newHash
        /\ pending' = [pending EXCEPT ![j] = Tail(pending[j])]
        /\ hash' = hash /\ seen' = seen /\ gone' = gone /\ swept' = swept /\ torn \subseteq torn'
        /\ \/ points' = points
           \/ \E n \in 0 .. Len(Head(pending[j])) : points' = Upserted(Head(pending[j]), n)
        /\ \/ points' = Upserted(Head(pending[j]), Len(Head(pending[j])))
           \/ DocsIn(Head(pending[j])) \subseteq torn'
    BY <1>6, BatchEffect
  <2>2. ASSUME NEW p \in Places, p[1] = "file"
        PROVE  points'[p] = points[p] \/ newHash[j][p[2]] # 0
    BY <2>1, <2>2, StoredAt
  <2>3. \A x \in Jobs : x # j => pc[x] # "sweep"
    BY <1>s, <2>1 DEF Live, LivePcs
  <2> QED BY <2>1, <2>2, <2>3 DEF Covered, Writing
<1>7. ASSUME NEW j \in Jobs, NEW d \in Docs, RecordHash(j, d)
      PROVE  Covered'
  <2>1. /\ pc[j] = "store" /\ pc' = pc /\ points' = points /\ swept' = swept
        /\ newHash[j][d] # 0 /\ newHash' = [newHash EXCEPT ![j][d] = 0]
        /\ hash' = [hash EXCEPT ![d] = newHash[j][d]]
    BY <1>7, <1>r DEF RecordHash
  <2>2. \A x \in Jobs : pc[x] # "sweep"
    BY <1>s, <2>1 DEF Live, LivePcs
  <2>3. \A e \in Docs : hash[e] # 0 => hash'[e] # 0
    BY <2>1 DEF TypeOK
  <2>4. \A e \in Docs : Writing(e) => Writing(e)' \/ hash'[e] # 0
    BY <2>1 DEF Writing, TypeOK
  <2> QED BY <1>d, <2>1, <2>2, <2>3, <2>4 DEF Covered
<1>8. ASSUME NEW j \in Jobs, ListDocs(j)
      PROVE  Covered'
  <2>1. /\ pc[j] = "store" /\ pc' = [pc EXCEPT ![j] = "sweep"] /\ points' = points /\ seen' = seen
        /\ hash' = hash /\ type' = type /\ newHash' = newHash /\ newHash[j] = NoHashes
        /\ swept' = swept
        /\ gone' = [gone EXCEPT ![j] = IF type[j] = "file" THEN Missing(j) ELSE {}]
    BY <1>8, <1>r DEF ListDocs, Goto, row
  <2>2. \A x \in Jobs : x # j => pc[x] # "sweep" /\ pc[x] # "store"
    BY <1>s, <2>1 DEF Live, LivePcs
  <2>3. \A d \in Docs : ~ Writing(d)
    BY <2>1, <2>2 DEF Writing, NoHashes
  <2>4. swept[j] = {} /\ pc'[j] = "sweep" /\ \A x \in Jobs : x # j => pc'[x] = pc[x]
    <3>1. swept[j] = {}
      BY <2>1 DEF Covered
    <3> QED BY <2>1, <3>1 DEF TypeOK
  <2>5. ASSUME NEW d \in Docs, hash[d] # 0, type[j] = "file"
        PROVE  d \in seen'[j] \cup gone'[j]
    BY <2>1, <2>5 DEF Missing, TypeOK
  <2> QED BY <1>d, <2>1, <2>2, <2>3, <2>4, <2>5 DEF Covered
<1>9. ASSUME NEW j \in Jobs, NEW d \in Docs, SweepPoints(j, d)
      PROVE  Covered'
  <2>1. /\ pc[j] = "sweep" /\ pc' = pc /\ hash' = hash /\ type' = type /\ seen' = seen
        /\ newHash' = newHash
        /\ gone' = [gone EXCEPT ![j] = @ \ {d}] /\ swept' = [swept EXCEPT ![j] = {d}]
        /\ swept[j] = {}
        /\ points' = [p \in Places |-> IF p[1] = "file" /\ p[2] = d THEN 0 ELSE points[p]]
    BY <1>9, <1>r DEF SweepPoints
  <2>2. /\ gone'[j] = gone[j] \ {d} /\ swept'[j] = {d}
        /\ \A x \in Jobs : x # j => swept'[x] = swept[x] /\ pc[x] # "sweep"
    BY <1>s, <2>1 DEF TypeOK, Live, LivePcs
  <2>3. \A p \in Places : points'[p] = IF p[1] = "file" /\ p[2] = d THEN 0 ELSE points[p]
    BY <2>1
  <2> QED BY <2>1, <2>2, <2>3 DEF Covered, Writing
<1>10. ASSUME NEW j \in Jobs, NEW d \in Docs, SweepRow(j, d)
      PROVE  Covered'
  <2>1. /\ pc[j] = "sweep" /\ pc' = pc /\ type' = type /\ seen' = seen /\ gone' = gone
        /\ newHash' = newHash /\ points' = points /\ d \in swept[j]
        /\ swept' = [swept EXCEPT ![j] = {}] /\ hash' = [hash EXCEPT ![d] = 0]
    BY <1>10, <1>r DEF SweepRow
  <2>2. swept'[j] = {} /\ \A x \in Jobs : x # j => swept'[x] = swept[x] /\ pc[x] # "sweep"
    BY <1>s, <2>1 DEF TypeOK, Live, LivePcs
  <2>3. \A e \in Docs : hash'[e] = IF e = d THEN 0 ELSE hash[e]
    BY <2>1 DEF TypeOK
  <2>4. \A p \in Places : p[1] = "file" /\ p[2] = d => points[p] = 0
    BY <2>1 DEF Covered
  <2>5. ASSUME NEW e \in Docs, hash'[e] # 0, type[j] = "file"
        PROVE  e \in seen[j] \cup gone[j]
    <3>1. e # d /\ hash[e] # 0
      BY <2>3, <2>5
    <3>2. swept[j] = {d}
      BY <2>1 DEF Covered
    <3> QED BY <2>1, <2>5, <3>1, <3>2 DEF Covered
  <2> QED BY <1>d, <2>1, <2>2, <2>3, <2>4, <2>5 DEF Covered, Writing
<1>11. ASSUME NEW j \in Jobs, FinishIngest(j)
      PROVE  Covered'
  BY <1>11, <1>d DEF FinishIngest, Goto, Covered, Writing, TypeOK
<1>12. ASSUME NEW j \in Jobs, UpdateCounts(j)
      PROVE  Covered'
  BY <1>12, <1>d DEF UpdateCounts, Goto, Covered, Writing, TypeOK
<1>13. ASSUME NEW j \in Jobs, DeletePoints(j)
      PROVE  Covered'
  <2>1. /\ pc[j] = "dpoints" /\ points' = NoPoints /\ swept' = swept
        /\ pc' = [pc EXCEPT ![j] = "drow"]
    BY <1>13, <1>r DEF DeletePoints, Goto, PointsLeft
  <2>2. \A x \in Jobs : pc'[x] # "sweep" /\ swept'[x] = {}
    BY <1>s, <2>1 DEF TypeOK, Live, LivePcs, Covered
  <2> QED BY <2>1, <2>2 DEF Covered, NoPoints
<1>14. ASSUME NEW j \in Jobs, DeleteRow(j)
      PROVE  Covered'
  <2>1. /\ points' = points /\ hash' = hash /\ type' = type /\ seen' = seen /\ gone' = gone
        /\ swept' = swept /\ newHash' = newHash
        /\ \A x \in Jobs : /\ pc'[x] = "store" <=> pc[x] = "store"
                           /\ pc'[x] = "sweep" <=> pc[x] = "sweep"
    BY <1>14 DEF DeleteRow, Goto, TypeOK
  <2>2. \A d \in Docs : Writing(d) => Writing(d)'
    BY <2>1 DEF Writing
  <2> QED BY <1>d, <2>1, <2>2 DEF Covered
<1>15. ASSUME NEW j \in Jobs, DeleteTracking(j)
      PROVE  Covered'
  <2>1. /\ pc[j] = "dtrack" /\ points' = points /\ points = NoPoints /\ swept' = swept
        /\ pc' = [pc EXCEPT ![j] = "done"]
    BY <1>15, <1>r DEF DeleteTracking, Goto, Unghosted
  <2>2. \A x \in Jobs : pc'[x] # "sweep" /\ swept'[x] = {}
    BY <1>s, <2>1 DEF TypeOK, Live, LivePcs, Covered
  <2> QED BY <2>1, <2>2 DEF Covered, NoPoints
<1>16. ASSUME NEW d \in Docs, NEW v \in Content, EditDoc(d, v)
      PROVE  Covered'
  BY <1>16 DEF EditDoc, row, jobVars, Covered, Writing
<1>17. ASSUME Crash
      PROVE  Covered'
  BY <1>17, <1>r DEF Crash
<1>18. ASSUME UNCHANGED vars
      PROVE  Covered'
  BY <1>18 DEF vars, row, jobVars, Covered, Writing
<1> QED BY <1>1, <1>2, <1>3, <1>4, <1>5, <1>6, <1>7, <1>8, <1>9,
           <1>10, <1>11, <1>12, <1>13, <1>14, <1>15, <1>16, <1>17, <1>18 DEF Next, Step

-----------------------------------------------------------------------------
(* Tracked documents are stored *)

(* A chunk of a document whose hash will be recorded is stored or queued,     *)
(* unless a batch of the document failed.                                     *)
Laid ==
    \A j \in Jobs, d \in Docs \ torn : pc[j] = "store" /\ newHash[j][d] # 0 =>
       \A k \in 1 .. Length[newHash[j][d]] :
          \/ points[<<"file", d, k>>] = newHash[j][d]
          \/ \E c \in Queued(pending[j]) : c.place = <<"file", d, k>>

(* Every chunk of a recorded version is stored, unless a call for the         *)
(* document failed or a request is about to record it anew.                   *)
Tracked ==
    \A d \in Docs \ torn : hash[d] # 0 =>
       \/ \A k \in 1 .. Length[hash[d]] : points[<<"file", d, k>>] = hash[d]
       \/ Writing(d)

LEMMA LaidNext ==
    ASSUME TypeOK, Solo, Alone, Noted, Laid, [Next]_vars
    PROVE  Laid'
<1>s. \A i, j \in Jobs : Live(i) /\ Live(j) => i = j
  BY DEF Solo
<1>m. \A j \in Jobs : MayStart(j) => \A x \in Jobs : ~ Live(x)
  BY DEF MayStart, Alone
<1>1. ASSUME NEW j \in Jobs, NEW t \in {"file", "rest"}, CreateSource(j, t)
      PROVE  Laid'
  BY <1>1, <1>m DEF CreateSource, Goto, Laid, TypeOK, Live, LivePcs
<1>2. ASSUME NEW j \in Jobs, BeginIngest(j)
      PROVE  Laid'
  BY <1>2, <1>m DEF BeginIngest, Goto, Laid, TypeOK, Live, LivePcs
<1>3. ASSUME NEW j \in Jobs, BeginDelete(j)
      PROVE  Laid'
  BY <1>3, <1>m DEF BeginDelete, Goto, Laid, TypeOK, Live, LivePcs
<1>4. ASSUME NEW j \in Jobs, Connect(j)
      PROVE  Laid'
  BY <1>4, <1>s DEF Connect, Goto, Laid, TypeOK, Live, LivePcs
<1>5. ASSUME NEW j \in Jobs, Scan(j)
      PROVE  Laid'
  <2>0. /\ pc[j] = "scan" /\ points' = points /\ newHash[j] = NoHashes
        /\ \A x \in Jobs : x # j => pc[x] # "store"
    BY <1>5, <1>s DEF Scan, Noted, Live, LivePcs
  <2>1. ASSUME NEW u \in Failing("fs", Listed), NEW k \in Failing("registry", Listed),
               ScanFiles(j, Listed \ u, Listed \ k), Goto(j, "store")
        PROVE  Laid'
    <3>1. Listed \ u \in SUBSET Listed
      OBVIOUS
    <3>2. PICK q \in Seq(Seq(Chunk)), h \in [Docs -> Content] :
              /\ pending' = [pending EXCEPT ![j] = q] /\ newHash' = [newHash EXCEPT ![j] = h]
              /\ \A d \in Docs : h[d] # 0 => \A n \in 1 .. Length[h[d]] :
                                                  \E c \in Queued(q) : c.place = <<"file", d, n>>
      BY <2>1, <3>1, Scanned, ZenonT(30)
    <3>3. newHash'[j] = h /\ pending'[j] = q /\ \A x \in Jobs : x # j => pc'[x] # "store"
      BY <2>0, <2>1, <3>2 DEF TypeOK, Goto
    <3>4. \A d \in Docs : newHash'[j][d] # 0 => \A n \in 1 .. Length[newHash'[j][d]] :
             \E c \in Queued(pending'[j]) : c.place = <<"file", d, n>>
      BY <3>2, <3>3
    <3>5. ASSUME NEW x \in Jobs, NEW d \in Docs, pc'[x] = "store", newHash'[x][d] # 0,
                 NEW n \in 1 .. Length[newHash'[x][d]]
          PROVE  \E c \in Queued(pending'[x]) : c.place = <<"file", d, n>>
      BY <3>3, <3>4, <3>5
    <3> QED BY <3>5 DEF Laid
  <2>2. ASSUME newHash' = newHash, pc' = [pc EXCEPT ![j] = "store"] \/ pc' = [pc EXCEPT ![j] = "done"]
        PROVE  Laid'
    <3>1. \A x \in Jobs : pc'[x] = "store" => newHash'[x] = NoHashes
      BY <2>0, <2>2 DEF TypeOK
    <3> QED BY <3>1 DEF Laid, NoHashes
  <2>3. ASSUME NEW u, FetchPages(j, Listed \ u)
        PROVE  newHash' = newHash
    BY <2>3 DEF FetchPages
  <2> QED BY <1>5, <2>1, <2>2, <2>3 DEF Scan, Goto
<1>6. ASSUME NEW j \in Jobs, StoreBatch(j)
      PROVE  Laid'
  <2>1. /\ pc[j] = "store" /\ pending[j] # << >> /\ pc' = pc /\ type' = type /\ newHash' = newHash
        /\ pending' = [pending EXCEPT ![j] = Tail(pending[j])]
        /\ hash' = hash /\ seen' = seen /\ gone' = gone /\ swept' = swept /\ torn \subseteq torn'
        /\ \/ points' = points
           \/ \E n \in 0 .. Len(Head(pending[j])) : points' = Upserted(Head(pending[j]), n)
        /\ \/ points' = Upserted(Head(pending[j]), Len(Head(pending[j])))
           \/ DocsIn(Head(pending[j])) \subseteq torn'
    BY <1>6, BatchEffect
  <2>2. pending'[j] = Tail(pending[j]) /\ \A x \in Jobs : x # j => pc'[x] # "store"
    BY <1>s, <2>1 DEF TypeOK, Live, LivePcs
  <2>3. ASSUME NEW d \in Docs \ torn', newHash[j][d] # 0, NEW k \in 1 .. Length[newHash[j][d]]
        PROVE  \/ points'[<<"file", d, k>>] = newHash[j][d]
               \/ \E c \in Queued(Tail(pending[j])) : c.place = <<"file", d, k>>
    <3>1. type[j] = "file" /\ d \notin torn
      BY <2>1, <2>3 DEF Noted, NoHashes, TypeOK
    <3>2. <<"file", d, k>> \in Places /\ <<"file", d, k>>[2] = d
      <4>1. newHash[j][d] \in Versions
        BY <2>3 DEF TypeOK, Content
      <4> QED BY <4>1, PlaceOf
    <3>3. CASE points[<<"file", d, k>>] = newHash[j][d]
      BY <2>1, <3>1, <3>2, <3>3, StoredAt
    <3>4. CASE \E c \in Queued(pending[j]) : c.place = <<"file", d, k>>
      <4>1. PICK c \in Queued(pending[j]) : c.place = <<"file", d, k>>
        BY <3>4
      <4>2. c \in Range(Head(pending[j])) \/ c \in Queued(Tail(pending[j]))
        BY <2>1, FirstBatch
      <4>3. c \in Range(Head(pending[j])) => d \in DocsIn(Head(pending[j]))
        BY <4>1 DEF DocsIn
      <4>4. Len(Head(pending[j])) \in 0 .. Len(Head(pending[j]))
        BY <2>1, FirstBatch
      <4>5. c \in Range(Head(pending[j])) => points'[<<"file", d, k>>] = newHash[j][d]
        <5>1. SUFFICES ASSUME c \in Range(Head(pending[j])) PROVE points'[c.place] = newHash[j][c.place[2]]
          BY <3>2, <4>1
        <5>2. points' = Upserted(Head(pending[j]), Len(Head(pending[j])))
          BY <2>1, <2>3, <4>3, <5>1
        <5> QED BY <2>1, <3>1, <4>4, <5>1, <5>2, StoredAt
      <4> QED BY <4>1, <4>2, <4>5
    <3> QED BY <2>1, <2>3, <3>1, <3>3, <3>4 DEF Laid
  <2>4. ASSUME NEW x \in Jobs, NEW d \in Docs \ torn', pc'[x] = "store", newHash'[x][d] # 0,
               NEW k \in 1 .. Length[newHash'[x][d]]
        PROVE  \/ points'[<<"file", d, k>>] = newHash'[x][d]
               \/ \E c \in Queued(pending'[x]) : c.place = <<"file", d, k>>
    <3>1. x = j
      BY <2>2, <2>4
    <3> QED BY <2>1, <2>2, <2>3, <2>4, <3>1
  <2> QED BY <2>4 DEF Laid
<1>7. ASSUME NEW j \in Jobs, NEW d \in Docs, RecordHash(j, d)
      PROVE  Laid'
  <2>1. /\ pc' = pc /\ points' = points /\ pending' = pending /\ torn \subseteq torn'
        /\ newHash' = [newHash EXCEPT ![j][d] = 0]
    BY <1>7 DEF RecordHash
  <2>2. \A x \in Jobs, e \in Docs : newHash'[x][e] # 0 => newHash'[x][e] = newHash[x][e]
    BY <2>1 DEF TypeOK
  <2> QED BY <2>1, <2>2 DEF Laid
<1>8. ASSUME NEW j \in Jobs, ListDocs(j)
      PROVE  Laid'
  BY <1>8, <1>s DEF ListDocs, Goto, Laid, TypeOK, Live, LivePcs
<1>9. ASSUME NEW j \in Jobs, NEW d \in Docs, SweepPoints(j, d)
      PROVE  Laid'
  BY <1>9, <1>s DEF SweepPoints, Laid, TypeOK, Live, LivePcs
<1>10. ASSUME NEW j \in Jobs, NEW d \in Docs, SweepRow(j, d)
      PROVE  Laid'
  BY <1>10, <1>s DEF SweepRow, Laid, TypeOK, Live, LivePcs
<1>11. ASSUME NEW j \in Jobs, FinishIngest(j)
      PROVE  Laid'
  BY <1>11, ZenonT(30) DEF FinishIngest, Goto, Laid, TypeOK
<1>12. ASSUME NEW j \in Jobs, UpdateCounts(j)
      PROVE  Laid'
  BY <1>12 DEF UpdateCounts, Goto, Laid, TypeOK
<1>13. ASSUME NEW j \in Jobs, DeletePoints(j)
      PROVE  Laid'
  BY <1>13, <1>s DEF DeletePoints, Goto, Laid, TypeOK, Live, LivePcs
<1>14. ASSUME NEW j \in Jobs, DeleteRow(j)
      PROVE  Laid'
  BY <1>14, <1>s DEF DeleteRow, Goto, Laid, TypeOK, Live, LivePcs
<1>15. ASSUME NEW j \in Jobs, DeleteTracking(j)
      PROVE  Laid'
  BY <1>15, <1>s DEF DeleteTracking, Goto, Laid, TypeOK, Live, LivePcs
<1>16. ASSUME NEW d \in Docs, NEW v \in Content, EditDoc(d, v)
      PROVE  Laid'
  BY <1>16 DEF EditDoc, jobVars, Laid
<1>17. ASSUME Crash
      PROVE  Laid'
  <2>1. \A x \in Jobs : pc'[x] # "store"
    BY <1>17 DEF Crash, Live, LivePcs
  <2> QED BY <2>1 DEF Laid
<1>18. ASSUME UNCHANGED vars
      PROVE  Laid'
  BY <1>18 DEF vars, jobVars, Laid
<1> QED BY <1>1, <1>2, <1>3, <1>4, <1>5, <1>6, <1>7, <1>8, <1>9,
           <1>10, <1>11, <1>12, <1>13, <1>14, <1>15, <1>16, <1>17, <1>18 DEF Next, Step

LEMMA TrackedNext ==
    ASSUME TypeOK, Solo, Alone, Noted, Laid, Tracked, [Next]_vars
    PROVE  Tracked'
<1>s. \A i, j \in Jobs : Live(i) /\ Live(j) => i = j
  BY DEF Solo
<1>m. \A j \in Jobs : MayStart(j) => \A x \in Jobs : ~ Live(x)
  BY DEF MayStart, Alone
<1>p. \A d \in Docs : hash[d] # 0 => \A k \in 1 .. Length[hash[d]] : <<"file", d, k>> \in Places
  <2>1. \A d \in Docs : hash[d] # 0 => hash[d] \in Versions
    BY DEF TypeOK, Content
  <2> QED BY <2>1, PlaceOf
<1>u. ASSUME NEW j \in Jobs, pc[j] = "store", pending[j] # << >>,
             NEW n \in 0 .. Len(Head(pending[j])), NEW d \in Docs, newHash[j][d] = 0,
             hash[d] # 0, NEW k \in 1 .. Length[hash[d]]
      PROVE  Upserted(Head(pending[j]), n)[<<"file", d, k>>] = points[<<"file", d, k>>]
  <2>1. <<"file", d, k>> \in Places /\ <<"file", d, k>>[1] = "file" /\ <<"file", d, k>>[2] = d
    BY <1>p, <1>u
  <2> QED BY <1>u, <2>1, StoredAt
<1>1. ASSUME NEW j \in Jobs, NEW t \in {"file", "rest"}, CreateSource(j, t)
      PROVE  Tracked'
  <2>1. /\ points' = points /\ hash' = hash /\ newHash' = newHash /\ torn' = torn
        /\ \A x \in Jobs : pc[x] = "store" => pc'[x] = "store"
    BY <1>1 DEF CreateSource, Goto, TypeOK, MayStart
  <2>2. \A d \in Docs : Writing(d) => Writing(d)'
    BY <2>1 DEF Writing
  <2> QED BY <2>1, <2>2 DEF Tracked
<1>2. ASSUME NEW j \in Jobs, BeginIngest(j)
      PROVE  Tracked'
  <2>1. /\ points' = points /\ hash' = hash /\ newHash' = newHash /\ torn' = torn
        /\ \A x \in Jobs : pc[x] = "store" => pc'[x] = "store"
    BY <1>2 DEF BeginIngest, Goto, TypeOK, MayStart
  <2>2. \A d \in Docs : Writing(d) => Writing(d)'
    BY <2>1 DEF Writing
  <2> QED BY <2>1, <2>2 DEF Tracked
<1>3. ASSUME NEW j \in Jobs, BeginDelete(j)
      PROVE  Tracked'
  <2>1. /\ points' = points /\ hash' = hash /\ newHash' = newHash /\ torn' = torn
        /\ \A x \in Jobs : pc[x] = "store" => pc'[x] = "store"
    BY <1>3 DEF BeginDelete, Goto, TypeOK, MayStart
  <2>2. \A d \in Docs : Writing(d) => Writing(d)'
    BY <2>1 DEF Writing
  <2> QED BY <2>1, <2>2 DEF Tracked
<1>4. ASSUME NEW j \in Jobs, Connect(j)
      PROVE  Tracked'
  <2>1. /\ points' = points /\ hash' = hash /\ newHash' = newHash /\ torn' = torn
        /\ \A x \in Jobs : pc[x] = "store" => pc'[x] = "store"
    BY <1>4 DEF Connect, Goto, TypeOK
  <2>2. \A d \in Docs : Writing(d) => Writing(d)'
    BY <2>1 DEF Writing
  <2> QED BY <2>1, <2>2 DEF Tracked
<1>5. ASSUME NEW j \in Jobs, Scan(j)
      PROVE  Tracked'
  <2>1. /\ pc[j] = "scan" /\ points' = points /\ hash' = hash /\ newHash[j] = NoHashes
        /\ torn' = torn \ {d \in Docs : newHash'[j][d] # 0}
        /\ \A x \in Jobs : pc[x] # "store"
    BY <1>5, <1>s DEF Scan, Noted, Live, LivePcs
  <2>2. pc'[j] = "store" \/ newHash' = newHash
    BY <1>5 DEF Scan, Goto, TypeOK
  <2>3. \A d \in Docs : ~ Writing(d) /\ (newHash'[j][d] # 0 => Writing(d)')
    BY <2>1, <2>2 DEF Writing, NoHashes
  <2> QED BY <2>1, <2>3 DEF Tracked
<1>6. ASSUME NEW j \in Jobs, StoreBatch(j)
      PROVE  Tracked'
  <2>1. /\ pc[j] = "store" /\ pending[j] # << >> /\ pc' = pc /\ type' = type /\ newHash' = newHash
        /\ pending' = [pending EXCEPT ![j] = Tail(pending[j])]
        /\ hash' = hash /\ seen' = seen /\ gone' = gone /\ swept' = swept /\ torn \subseteq torn'
        /\ \/ points' = points
           \/ \E n \in 0 .. Len(Head(pending[j])) : points' = Upserted(Head(pending[j]), n)
        /\ \/ points' = Upserted(Head(pending[j]), Len(Head(pending[j])))
           \/ DocsIn(Head(pending[j])) \subseteq torn'
    BY <1>6, BatchEffect
  <2>2. ASSUME NEW d \in Docs, hash[d] # 0, newHash[j][d] = 0, NEW k \in 1 .. Length[hash[d]]
        PROVE  points'[<<"file", d, k>>] = points[<<"file", d, k>>]
    BY <1>u, <2>1, <2>2
  <2> QED BY <2>1, <2>2 DEF Tracked, Writing
<1>7. ASSUME NEW j \in Jobs, NEW d \in Docs, RecordHash(j, d)
      PROVE  Tracked'
  <2>1. /\ pc[j] = "store" /\ pc' = pc /\ points' = points /\ pending[j] = << >>
        /\ newHash[j][d] # 0 /\ newHash' = [newHash EXCEPT ![j][d] = 0] /\ torn \subseteq torn'
        /\ \/ hash' = [hash EXCEPT ![d] = newHash[j][d]]
           \/ hash' = hash /\ d \in torn'
    BY <1>7 DEF RecordHash
  <2>2. Queued(pending[j]) = {}
    BY <2>1 DEF Queued
  <2>3. ASSUME d \notin torn'
        PROVE  \A k \in 1 .. Length[hash'[d]] : points'[<<"file", d, k>>] = hash'[d]
    <3>1. hash'[d] = newHash[j][d]
      BY <2>1, <2>3 DEF TypeOK
    <3> QED BY <2>1, <2>2, <2>3, <3>1 DEF Laid
  <2>4. ASSUME NEW e \in Docs, e # d
        PROVE  hash'[e] = hash[e] /\ (Writing(e) => Writing(e)')
    BY <2>1, <2>4 DEF Writing, TypeOK
  <2> QED BY <2>1, <2>3, <2>4 DEF Tracked
<1>8. ASSUME NEW j \in Jobs, ListDocs(j)
      PROVE  Tracked'
  <2>1. /\ pc[j] = "store" /\ pc' = [pc EXCEPT ![j] = "sweep"] /\ newHash[j] = NoHashes
        /\ points' = points /\ hash' = hash /\ newHash' = newHash /\ torn' = torn
    BY <1>8 DEF ListDocs, Goto
  <2>2. \A d \in Docs : Writing(d) => Writing(d)'
    BY <2>1 DEF Writing, NoHashes, TypeOK
  <2> QED BY <2>1, <2>2 DEF Tracked
<1>9. ASSUME NEW j \in Jobs, NEW d \in Docs, SweepPoints(j, d)
      PROVE  Tracked'
  <2>1. /\ pc' = pc /\ newHash' = newHash /\ hash' = hash /\ torn' = torn \cup {d}
        /\ \/ points' = [p \in Places |-> IF p[1] = "file" /\ p[2] = d THEN 0 ELSE points[p]]
           \/ points' = points
    BY <1>9 DEF SweepPoints
  <2>2. ASSUME NEW e \in Docs, e # d, hash[e] # 0, NEW k \in 1 .. Length[hash[e]]
        PROVE  points'[<<"file", e, k>>] = points[<<"file", e, k>>]
    BY <1>p, <2>1, <2>2
  <2> QED BY <2>1, <2>2 DEF Tracked, Writing
<1>10. ASSUME NEW j \in Jobs, NEW d \in Docs, SweepRow(j, d)
      PROVE  Tracked'
  <2>1. /\ pc' = pc /\ newHash' = newHash /\ points' = points
        /\ \/ hash' = [hash EXCEPT ![d] = 0] /\ torn' = torn \ {d}
           \/ hash' = hash /\ torn' = torn
    BY <1>10 DEF SweepRow
  <2>2. \A e \in Docs : hash'[e] # 0 => hash'[e] = hash[e] /\ (e \notin torn' => e \notin torn)
    BY <2>1 DEF TypeOK
  <2> QED BY <2>1, <2>2 DEF Tracked, Writing
<1>11. ASSUME NEW j \in Jobs, FinishIngest(j)
      PROVE  Tracked'
  BY <1>11 DEF FinishIngest, Goto, Tracked, Writing, TypeOK
<1>12. ASSUME NEW j \in Jobs, UpdateCounts(j)
      PROVE  Tracked'
  BY <1>12 DEF UpdateCounts, Goto, Tracked, Writing, TypeOK
<1>13. ASSUME NEW j \in Jobs, DeletePoints(j)
      PROVE  Tracked'
  BY <1>13 DEF DeletePoints, Tracked
<1>14. ASSUME NEW j \in Jobs, DeleteRow(j)
      PROVE  Tracked'
  BY <1>14, SMTT(30) DEF DeleteRow, Goto, Tracked, Writing, TypeOK
<1>15. ASSUME NEW j \in Jobs, DeleteTracking(j)
      PROVE  Tracked'
  <2>1. CASE hash' = NoHashes
    BY <2>1 DEF Tracked, NoHashes
  <2>2. CASE hash' = hash /\ torn' = torn
    BY <1>15, <2>2 DEF DeleteTracking, Goto, Tracked, Writing, TypeOK
  <2> QED BY <1>15, <2>1, <2>2 DEF DeleteTracking
<1>16. ASSUME NEW d \in Docs, NEW v \in Content, EditDoc(d, v)
      PROVE  Tracked'
  BY <1>16 DEF EditDoc, jobVars, Tracked, Writing
<1>17. ASSUME Crash
      PROVE  Tracked'
  <2>1. hash' = hash /\ torn' = torn \cup {d \in Docs : Writing(d)}
    BY <1>17 DEF Crash
  <2>2. ASSUME NEW d \in Docs \ torn', hash[d] # 0, NEW k \in 1 .. Length[hash[d]]
        PROVE  points'[<<"file", d, k>>] = points[<<"file", d, k>>]
    <3>1. \A j \in Jobs : pc[j] = "store" => newHash[j][d] = 0
      BY <2>1, <2>2 DEF Writing
    <3> QED BY <1>17, <1>u, <2>2, <3>1 DEF Crash
  <2> QED BY <2>1, <2>2 DEF Tracked
<1>18. ASSUME UNCHANGED vars
      PROVE  Tracked'
  BY <1>18 DEF vars, jobVars, Tracked, Writing
<1> QED BY <1>1, <1>2, <1>3, <1>4, <1>5, <1>6, <1>7, <1>8, <1>9,
           <1>10, <1>11, <1>12, <1>13, <1>14, <1>15, <1>16, <1>17, <1>18 DEF Next, Step

-----------------------------------------------------------------------------
(* The theorems *)

IndInv ==
    /\ TypeOK /\ Solo /\ Noted /\ Aside
    /\ Alone => Unghosted /\ Laid /\ Tracked
    /\ Reliable => Covered

LEMMA IndInit == ASSUME Init PROVE IndInv
<1>1. TypeOK
  BY TypesInit
<1>2. \A j \in Jobs : pc[j] = "idle" /\ newHash[j] = NoHashes /\ swept[j] = {}
  BY DEF Init
<1>3. points = NoPoints /\ hash = NoHashes
  BY DEF Init
<1>4. Solo /\ Noted /\ Unghosted
  BY <1>2, <1>3 DEF Solo, Noted, Unghosted, Live, LivePcs
<1>9. Aside
  BY DEF Init, Aside
<1>5. \A p \in Places : points[p] = 0
  BY <1>3 DEF NoPoints
<1>6. \A d \in Docs : hash[d] = 0
  BY <1>3 DEF NoHashes
<1>7. Covered
  BY <1>2, <1>5 DEF Covered
<1>8. Laid /\ Tracked
  BY <1>2, <1>6 DEF Laid, Tracked
<1> QED BY <1>1, <1>4, <1>7, <1>8, <1>9 DEF IndInv

(* What may fail is settled when a behaviour begins. *)
LEMMA Settled ==
    ASSUME TypeOK, [Next]_vars
    PROVE  Alone' = Alone /\ Reliable' = Reliable /\ (Reliable => Alone)
<1>1. env' = env
  BY Moves
<1>2. Reliable => Alone
  BY DEF Reliable, Spared, Alone
<1> QED BY <1>1, <1>2 DEF Alone, Reliable, Spared

LEMMA IndNext == ASSUME IndInv, [Next]_vars PROVE IndInv'
<1>1. TypeOK /\ Solo /\ Noted /\ Aside
  BY DEF IndInv
<1>2. TypeOK' /\ Solo' /\ Noted' /\ Aside'
  BY <1>1, TypesNext, SoloNext, NotedNext, AsideNext
<1>3. Alone => Unghosted' /\ Laid' /\ Tracked'
  BY <1>1, UnghostedNext, LaidNext, TrackedNext DEF IndInv
<1>4. Reliable => Covered'
  BY <1>1, Settled, CoveredNext DEF IndInv
<1>5. Alone' = Alone /\ Reliable' = Reliable
  BY <1>1, Settled
<1> QED BY <1>2, <1>3, <1>4, <1>5 DEF IndInv

(* The inductive invariant: rows, points, tracking rows and what a request    *)
(* under way holds of them agree.                                             *)
THEOREM Consistent == Spec => []IndInv
<1>1. Init => IndInv
  BY IndInit
<1>2. IndInv /\ [Next]_vars => IndInv'
  BY IndNext
<1> QED BY <1>1, <1>2, PTL DEF Spec

(* handleAdminDeleteSource removes the points before the row: a source that   *)
(* is gone has none, whatever call failed or crashed, if no request ran       *)
(* beside another.                                                            *)
THEOREM DeletedHasNoPoints == Spec => []NoGhosts
<1>1. IndInv => NoGhosts
  <2>1. Spared({"overlap"}) => Alone
    BY DEF Spared, Alone
  <2> QED BY <2>1 DEF IndInv, Unghosted, NoGhosts
<1> QED BY <1>1, Consistent, PTL

(* A document that later ingests will skip has every chunk of the version     *)
(* whose hash is recorded, unless a call for that document failed, or was cut *)
(* short by a crash, since it was last stored or deleted: of documents,       *)
(* batches and requests there may be any number, and the failure of one       *)
(* document's call never costs another's chunks.                              *)
THEOREM SkippedIsStored == Spec => []StoredWhenTracked
<1>1. ASSUME IndInv, Alone, Idle, NEW d \in Docs \ torn, hash[d] # 0
      PROVE  \A k \in 1 .. Length[hash[d]] : points[<<"file", d, k>>] = hash[d]
  <2>1. ~ Writing(d)
    BY <1>1 DEF Idle, Live, LivePcs, Writing
  <2> QED BY <1>1, <2>1 DEF IndInv, Tracked
<1>2. Spared({"overlap"}) => Alone
  BY DEF Spared, Alone
<1>3. IndInv => StoredWhenTracked
  BY <1>1, <1>2 DEF StoredWhenTracked
<1> QED BY <1>3, Consistent, PTL

(* An ingest of a directory ends with no points of a document it did not      *)
(* list, if the calls that sweep succeed and no request interrupts another;   *)
(* files may be unreadable and batches may fail to be embedded.               *)
THEOREM IngestSweeps == Spec => RemovedSwept
<1>1. ASSUME IndInv, NEW j \in Jobs, FinishIngest(j), type[j] = "file", Reliable,
             NEW p \in Places, p[1] = "file", p[2] \notin seen[j]
      PROVE  points[p] = 0
  <2>1. pc[j] = "sweep" /\ gone[j] = {} /\ swept[j] = {} /\ Live(j)
    BY <1>1 DEF FinishIngest, Live, LivePcs
  <2>2. Alone /\ Covered
    BY <1>1 DEF Reliable, Spared, Alone, IndInv
  <2>3. p[2] \in Docs
    BY DEF Places
  <2>4. hash[p[2]] = 0
    BY <1>1, <2>1, <2>2, <2>3 DEF Covered
  <2>5. ~ Writing(p[2])
    BY <1>1, <2>1, <2>2 DEF IndInv, Solo, Writing, Live, LivePcs
  <2> QED BY <1>1, <2>2, <2>4, <2>5 DEF Covered
<1>2. IndInv => \A j \in Jobs :
         FinishIngest(j) /\ type[j] = "file" /\ Spared({"qdrant", "registry", "crash", "overlap"}) =>
            \A p \in Places : p[1] = "file" /\ p[2] \notin seen[j] => points[p] = 0
  BY <1>1 DEF Reliable
<1>3. IndInv /\ [Next]_vars =>
         [\A j \in Jobs : FinishIngest(j) /\ type[j] = "file" /\ Spared({"qdrant", "registry", "crash", "overlap"}) =>
             \A p \in Places : p[1] = "file" /\ p[2] \notin seen[j] => points[p] = 0]_vars
  BY <1>2
<1> QED BY <1>3, Consistent, PTL DEF Spec, RemovedSwept

(* Unless a request runs beside it, an ingest leaves every document that was  *)
(* in the directory with points and a row if it had them, unreadable or not,  *)
(* and whatever call of it fails or is cut short.                             *)
THEOREM ListedStays == Spec => ListedKept
<1> DEFINE Kept(d) == /\ hash[d] # 0 => hash'[d] # 0
                      /\ \A p \in Places : p[1] = "file" /\ p[2] = d /\ points[p] # 0 => points'[p] # 0
<1>1. ASSUME IndInv, [Next]_vars, NEW i \in Jobs, pc[i] \in {"store", "sweep"}, Spared({"overlap"}),
             NEW e \in seen[i]
      PROVE  Kept(e)
  <2>1. TypeOK /\ Solo /\ Noted /\ Aside /\ Alone /\ Live(i)
    BY <1>1 DEF IndInv, Spared, Alone, Live, LivePcs
  <2>2. \A x \in Jobs : Live(x) => x = i
    BY <2>1 DEF Solo
  <2>3. \A x \in Jobs : ~ MayStart(x)
    BY <2>1 DEF MayStart, Alone
  <2>4. UNCHANGED <<hash, points>> => Kept(e)
    OBVIOUS
  <2>5. ASSUME NEW n \in 0 .. Len(Head(pending[i])), pc[i] = "store", pending[i] # << >>,
               points' = Upserted(Head(pending[i]), n), hash' = hash
        PROVE  Kept(e)
    <3>1. ASSUME NEW p \in Places, p[1] = "file", points[p] # 0 PROVE points'[p] # 0
      <4>1. \/ points'[p] = points[p]
            \/ p[1] = type[i] /\ (type[i] = "file" => newHash[i][p[2]] # 0 /\ points'[p] = newHash[i][p[2]])
        BY <2>1, <2>5, StoredAt
      <4> QED BY <3>1, <4>1
    <3> QED BY <2>5, <3>1
  <2>6. ASSUME NEW j \in Jobs, StoreBatch(j) PROVE Kept(e)
    <3>1. j = i
      BY <2>2, <2>6 DEF StoreBatch, Live, LivePcs
    <3> QED BY <2>1, <2>4, <2>5, <2>6, <3>1, BatchEffect
  <2>7. ASSUME NEW j \in Jobs, NEW d \in Docs, RecordHash(j, d) PROVE Kept(e)
    <3>1. \A x \in Docs : hash[x] # 0 => hash'[x] # 0
      BY <2>1, <2>7 DEF RecordHash, TypeOK
    <3>2. e \in Docs /\ points' = points
      BY <2>1, <2>7 DEF RecordHash, TypeOK
    <3> QED BY <3>1, <3>2
  <2>8. ASSUME NEW j \in Jobs, NEW d \in Docs, SweepPoints(j, d) PROVE Kept(e)
    <3>1. j = i
      BY <2>2, <2>8 DEF SweepPoints, Live, LivePcs
    <3>2. d # e
      BY <2>1, <2>8, <3>1 DEF SweepPoints, Aside
    <3>3. \A p \in Places : p[2] # d => points'[p] = points[p]
      BY <2>8 DEF SweepPoints
    <3>4. hash' = hash
      BY <2>8 DEF SweepPoints
    <3> QED BY <3>2, <3>3, <3>4
  <2>9. ASSUME NEW j \in Jobs, NEW d \in Docs, SweepRow(j, d) PROVE Kept(e)
    <3>1. j = i
      BY <2>2, <2>9 DEF SweepRow, Live, LivePcs
    <3>2. d # e
      BY <2>1, <2>9, <3>1 DEF SweepRow, Aside
    <3>3. \A x \in Docs : x # d => hash'[x] = hash[x]
      BY <2>1, <2>9 DEF SweepRow, TypeOK
    <3>4. e \in Docs /\ points' = points
      BY <2>1, <2>9 DEF SweepRow, TypeOK
    <3> QED BY <3>2, <3>3, <3>4
  <2>10. ASSUME NEW j \in Jobs, Connect(j) \/ Scan(j) \/ ListDocs(j) \/ FinishIngest(j) \/ UpdateCounts(j)
         PROVE  Kept(e)
    BY <2>4, <2>10 DEF Connect, Scan, ListDocs, FinishIngest, UpdateCounts
  <2>11. ASSUME NEW j \in Jobs PROVE ~ (DeletePoints(j) \/ DeleteRow(j) \/ DeleteTracking(j))
    <3>1. pc[j] \in {"dpoints", "drow", "dtrack"} => Live(j) /\ j # i
      BY <1>1 DEF Live, LivePcs
    <3> QED BY <2>2, <3>1 DEF DeletePoints, DeleteRow, DeleteTracking
  <2>12. ASSUME NEW j \in Jobs
         PROVE  ~ (BeginIngest(j) \/ BeginDelete(j) \/ \E t \in {"file", "rest"} : CreateSource(j, t))
    BY <2>3 DEF BeginIngest, BeginDelete, CreateSource
  <2>13. ASSUME NEW d \in Docs, NEW v \in Content, EditDoc(d, v) PROVE Kept(e)
    BY <2>4, <2>13 DEF EditDoc
  <2>14. CASE Crash
    <3>1. hash' = hash
      BY <2>14 DEF Crash
    <3>2. PICK j \in Jobs : /\ Live(j)
                            /\ \/ UNCHANGED points
                               \/ /\ pc[j] = "store" /\ pending[j] # << >>
                                  /\ \E n \in 0 .. Len(Head(pending[j])) :
                                        points' = Upserted(Head(pending[j]), n)
      BY <2>14 DEF Crash
    <3>3. j = i
      BY <2>2, <3>2
    <3> QED BY <2>4, <2>5, <3>1, <3>2, <3>3
  <2>15. CASE UNCHANGED vars
    BY <2>4, <2>15 DEF vars
  <2> QED BY <1>1, <2>6, <2>7, <2>8, <2>9, <2>10, <2>11, <2>12, <2>13, <2>14, <2>15 DEF Next, Step
<1>2. ASSUME IndInv, NEW j \in Jobs, Scan(j), type[j] = "file", pc'[j] = "store"
      PROVE  Listed \subseteq seen'[j]
  <2>1. pc'[j] # "done" /\ type[j] # "rest" /\ seen \in [Jobs -> SUBSET Docs]
    BY <1>2 DEF IndInv, TypeOK
  <2>2. pc \in [Jobs -> {"idle", "done", "killed"} \cup LivePcs]
    BY <1>2 DEF IndInv, TypeOK
  <2>3. \E u \in Failing("fs", Listed), k \in Failing("registry", Listed) :
           ScanFiles(j, Listed \ u, Listed \ k)
    BY <1>2, <2>1, <2>2 DEF Scan, Goto
  <2> QED BY <2>1, <2>3 DEF ScanFiles, SeenDocs
<1>3. IndInv /\ [Next]_vars =>
         [\A j \in Jobs :
             /\ Scan(j) /\ type[j] = "file" /\ pc'[j] = "store" => Listed \subseteq seen'[j]
             /\ pc[j] \in {"store", "sweep"} /\ Spared({"overlap"}) => \A d \in seen[j] : Kept(d)]_vars
  BY <1>1, <1>2
<1> QED BY <1>3, Consistent, PTL DEF Spec, ListedKept

=============================================================================
