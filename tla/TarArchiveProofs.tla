-------------------------- MODULE TarArchiveProofs --------------------------
(***************************************************************************)
(* The safety of TarArchive for any readers, archives, sizes and bound.    *)
(*                                                                         *)
(* The invariant says who has the lock and what that reader is in the      *)
(* midst of: a copy that no one has yet, or a copy that no one finds any   *)
(* more.  Sequences are left behind early: what the steps need of the two  *)
(* orders is their sets, their bytes and which archive comes before which. *)
(***************************************************************************)
EXTENDS TarArchive, SequenceLemmas

Phases == {"idle", "locking", "decompressing", "unlinking", "opening", "reading"}

Types ==
  /\ cached \in Seq(Archives) /\ Distinct(cached)
  /\ used \in Seq(Archives) /\ Distinct(used)
  /\ held \in Nat /\ curtailed \in BOOLEAN
  /\ lock \in Readers \cup {None}
  /\ copyOf \in [Archives -> Copies \cup {None}]
  /\ disk \in [Copies -> Archives \cup {Torn, None}]
  /\ making \subseteq Archives \X Copies
  /\ removing \subseteq Copies /\ left \subseteq Copies
  /\ pc \in [Readers -> Phases]
  /\ want \in [Readers -> Archives \cup {None}]
  /\ copy \in [Readers -> Copies \cup {None}]
  /\ victim \in [Readers -> Copies \cup {None}]

(* The reader with the lock decompresses or evicts, and no other does.     *)
Locked == \A r \in Readers : pc[r] \in {"decompressing", "unlinking"} <=> lock = r

Wanting == \A r \in Readers : pc[r] # "idle" => want[r] \in Archives

(* The copy that is being made is no one else's.                           *)
Making ==
  \A r \in Readers : pc[r] = "decompressing" =>
    /\ copy[r] \in Copies \ Abandoned /\ disk[copy[r]] \in {Torn, None}
    /\ want[r] \notin ToSet(cached)

(* The copy that is being unlinked is no longer found, and what the        *)
(* evicting reader wants is kept and fits.                                 *)
Evicting ==
  \A r \in Readers : pc[r] = "unlinking" =>
    /\ victim[r] \in Copies
    /\ \A a \in ToSet(cached) : copyOf[a] # victim[r]
    /\ want[r] \in ToSet(cached) /\ Size[want[r]] <= Bound

Stored ==
  \A a \in ToSet(cached) : copyOf[a] \in Copies \ Abandoned /\ disk[copyOf[a]] = a

Found ==
  \A n \in Copies \ Abandoned : disk[n] # None =>
    \/ \E a \in ToSet(cached) : copyOf[a] = n
    \/ \E r \in Readers : pc[r] = "decompressing" /\ copy[r] = n
    \/ \E r \in Readers : pc[r] = "unlinking" /\ victim[r] = n

Counted == held = Bytes(cached)

(* WithinBound, for the reader that decompresses too.                      *)
Bounded ==
  ~curtailed /\ (lock = None \/ \E r \in Readers : pc[r] = "decompressing") => held <= Bound

(* The order of the cache is the order of use.                             *)
Ordered ==
  /\ ToSet(cached) \subseteq ToSet(used)
  /\ \A a, b \in Archives : Before(cached, a, b) => Before(used, a, b)

IInv ==
  /\ Types /\ Locked /\ Wanting /\ Making /\ Evicting
  /\ Stored /\ Found /\ Counted /\ Bounded /\ Ordered

----------------------------------------------------------------------------
(* The bytes of a sequence of archives.                                    *)

Sums(f, s) ==
  /\ f \in [0 .. Len(s) -> Int] /\ f[0] = 0
  /\ \A i \in 1 .. Len(s) : f[i] = f[i - 1] + Size[s[i]]

LEMMA SumsExist ==
  ASSUME NEW s \in Seq(Archives)
  PROVE  \E f \in [0 .. Len(s) -> Nat] : Sums(f, s)
<1> DEFINE n == Len(s)
           Sum(m, f) == /\ f \in [0 .. m -> Nat] /\ f[0] = 0
                        /\ \A i \in 1 .. m : f[i] = f[i - 1] + Size[s[i]]
           S == {m \in 0 .. n : \E f : Sum(m, f)}
<1>1. n \in Nat /\ \A i \in 1 .. n : Size[s[i]] \in Nat
  BY TarAssumption
<1>2. 0 \in S
  <2>1. Sum(0, [i \in 0 .. 0 |-> 0])
    OBVIOUS
  <2> HIDE DEF Sum
  <2>2. QED
    BY <1>1, <2>1
<1>3. ASSUME NEW k \in 0 .. n - 1, k \in S PROVE k + 1 \in S
  <2>1. PICK f : Sum(k, f)
    BY <1>3
  <2> DEFINE g == [i \in 0 .. k + 1 |-> IF i <= k THEN f[i] ELSE f[k] + Size[s[k + 1]]]
  <2>2. k \in Nat /\ k + 1 \in 1 .. n /\ f[k] \in Nat /\ Size[s[k + 1]] \in Nat
    BY <1>1, <2>1
  <2>3. g \in [0 .. k + 1 -> Nat] /\ g[0] = 0
    BY <2>1, <2>2
  <2>4. \A i \in 1 .. k + 1 : g[i] = g[i - 1] + Size[s[i]]
    BY <2>1, <2>2
  <2>5. Sum(k + 1, g)
    BY <2>3, <2>4
  <2> HIDE DEF Sum, g
  <2>6. QED
    BY <1>1, <2>2, <2>5
<1>4. n \in S
  <2> HIDE DEF S
  <2>1. 0 .. n \subseteq S
    BY <1>1, <1>2, <1>3, InductionUpTo
  <2>2. QED
    BY <1>1, <2>1
<1>5. PICK f : Sum(n, f)
  BY <1>4
<1>6. Sums(f, s) /\ f \in [0 .. n -> Nat]
  BY <1>1, <1>5 DEF Sums
<1>7. QED
  BY <1>6

LEMMA BytesAreSum ==
  ASSUME NEW s \in Seq(Archives), NEW f, Sums(f, s)
  PROVE  Bytes(s) = f[Len(s)]
<1> DEFINE n == Len(s)
           Total(t) == [i \in 0 .. n |-> IF i = 0 THEN 0 ELSE t[i - 1] + Size[s[i]]]
           total == CHOOSE t : t = Total(t)
           S == {m \in 0 .. n : total[m] = f[m]}
<1>1. n \in Nat /\ \A i \in 1 .. n : Size[s[i]] \in Nat
  BY TarAssumption
<1>2. f = Total(f)
  BY <1>1 DEF Sums
<1>3. total = Total(total)
  BY <1>2, Zenon
<1> HIDE DEF total
<1>4. total[0] = 0 /\ \A i \in 1 .. n : total[i] = total[i - 1] + Size[s[i]]
  BY <1>1, <1>3
<1>5. 0 \in S
  BY <1>1, <1>4 DEF Sums
<1>6. ASSUME NEW k \in 0 .. n - 1, k \in S PROVE k + 1 \in S
  BY <1>1, <1>4, <1>6 DEF Sums
<1>7. n \in S
  <2> HIDE DEF S
  <2>1. 0 .. n \subseteq S
    BY <1>1, <1>5, <1>6, InductionUpTo
  <2>2. QED
    BY <1>1, <2>1
<1>8. Bytes(s) = total[n]
  BY DEF Bytes, total
<1>9. QED
  BY <1>7, <1>8

LEMMA BytesOfNone == Bytes(<<>>) = 0
<1>1. <<>> \in Seq(Archives) /\ Len(<<>>) = 0
  OBVIOUS
<1>2. PICK f : Sums(f, <<>>)
  BY <1>1, SumsExist
<1>3. Bytes(<<>>) = f[0]
  BY <1>1, <1>2, BytesAreSum
<1>4. QED
  BY <1>2, <1>3 DEF Sums

LEMMA BytesType ==
  ASSUME NEW s \in Seq(Archives)
  PROVE  Bytes(s) \in Nat
<1>1. PICK f \in [0 .. Len(s) -> Nat] : Sums(f, s)
  BY SumsExist
<1>2. QED
  BY <1>1, BytesAreSum

LEMMA BytesOfAppend ==
  ASSUME NEW s \in Seq(Archives), NEW a \in Archives
  PROVE  Bytes(Append(s, a)) = Bytes(s) + Size[a]
<1> DEFINE n == Len(s)
<1>1. PICK f : Sums(f, s)
  BY SumsExist
<1> DEFINE t == Append(s, a)
           g == [i \in 0 .. n + 1 |-> IF i <= n THEN f[i] ELSE f[n] + Size[a]]
<1>2. /\ t \in Seq(Archives) /\ Len(t) = n + 1 /\ n \in Nat
      /\ t[n + 1] = a /\ \A i \in 1 .. n : t[i] = s[i]
  OBVIOUS
<1> HIDE DEF t
<1>3. f \in [0 .. n -> Int] /\ f[0] = 0 /\ Size[a] \in Nat
  BY <1>1, TarAssumption DEF Sums
<1>4. g \in [0 .. n + 1 -> Int] /\ g[0] = 0 /\ g[n + 1] = f[n] + Size[a]
  BY <1>2, <1>3
<1>5. ASSUME NEW i \in 1 .. n + 1 PROVE g[i] = g[i - 1] + Size[t[i]]
  BY <1>1, <1>2, <1>3 DEF Sums
<1>6. Sums(g, t)
  BY <1>2, <1>4, <1>5 DEF Sums
<1>7. Bytes(s) = f[n] /\ Bytes(t) = g[n + 1]
  BY <1>1, <1>2, <1>6, BytesAreSum
<1>8. QED
  BY <1>4, <1>7 DEF t

LEMMA BytesOfRemoveAt ==
  ASSUME NEW s \in Seq(Archives), NEW k \in DOMAIN s
  PROVE  Bytes(RemoveAt(s, k)) = Bytes(s) - Size[s[k]]
<1> DEFINE n == Len(s)
<1>1. PICK f : Sums(f, s)
  BY SumsExist
<1> DEFINE t == RemoveAt(s, k)
           g == [i \in 0 .. n - 1 |-> IF i < k THEN f[i] ELSE f[i + 1] - Size[s[k]]]
<1>2. /\ t \in Seq(Archives) /\ Len(t) = n - 1 /\ n \in Nat /\ k \in 1 .. n
      /\ \A i \in 1 .. n - 1 : t[i] = IF i < k THEN s[i] ELSE s[i + 1]
  BY RemoveAtProperties
<1> HIDE DEF t
<1>3. f \in [0 .. n -> Int] /\ f[0] = 0 /\ Size[s[k]] \in Nat
  BY <1>1, <1>2, TarAssumption DEF Sums
<1>4. \A i \in 1 .. n : /\ f[i] \in Int /\ f[i - 1] \in Int /\ Size[s[i]] \in Nat
                         /\ f[i] = f[i - 1] + Size[s[i]]
  <2>1. \A i \in 1 .. n : i \in 0 .. n /\ i - 1 \in 0 .. n
    BY <1>2
  <2>2. \A i \in 1 .. n : f[i] \in Int /\ f[i - 1] \in Int
    BY <1>3, <2>1
  <2>3. QED
    BY <1>1, <2>2, TarAssumption DEF Sums
<1>5. g \in [0 .. n - 1 -> Int] /\ g[0] = 0
  BY <1>2, <1>3
<1>6. g[n - 1] = f[n] - Size[s[k]]
  <2>1. CASE k = n
    <3>1. f[n] = f[n - 1] + Size[s[n]] /\ f[n - 1] \in Int
      BY <1>2, <1>4
    <3>2. g[n - 1] = f[n - 1]
      BY <1>2, <2>1
    <3>3. QED
      BY <1>3, <2>1, <3>1, <3>2
  <2>2. CASE k < n
    BY <1>2, <2>2
  <2>3. QED
    BY <1>2, <2>1, <2>2
<1>7. ASSUME NEW i \in 1 .. n - 1 PROVE g[i] = g[i - 1] + Size[t[i]]
  <2>1. i \in 1 .. n /\ i + 1 \in 1 .. n /\ (i + 1) - 1 = i
    BY <1>2
  <2>2. /\ f[i] \in Int /\ f[i - 1] \in Int /\ f[i + 1] \in Int
        /\ Size[s[i]] \in Nat /\ Size[s[i + 1]] \in Nat
        /\ f[i] = f[i - 1] + Size[s[i]] /\ f[i + 1] = f[i] + Size[s[i + 1]]
    BY <1>4, <2>1
  <2>3. CASE i < k
    <3>1. g[i] = f[i] /\ g[i - 1] = f[i - 1] /\ t[i] = s[i]
      BY <1>2, <2>3
    <3> HIDE DEF g
    <3>2. QED
      BY <2>2, <3>1
  <2>4. CASE i = k
    <3>1. g[i] = f[i + 1] - Size[s[i]] /\ g[i - 1] = f[i - 1] /\ t[i] = s[i + 1]
      BY <1>2, <2>4
    <3> HIDE DEF g
    <3>2. QED
      BY <2>2, <2>4, <3>1
  <2>5. CASE i > k
    <3>1. /\ g[i] = f[i + 1] - Size[s[k]] /\ g[i - 1] = f[i] - Size[s[k]]
          /\ t[i] = s[i + 1]
      BY <1>2, <2>5
    <3> HIDE DEF g
    <3>2. QED
      BY <1>3, <2>2, <3>1
  <2>6. QED
    BY <1>2, <2>3, <2>4, <2>5
<1>8. Sums(g, t)
  BY <1>2, <1>5, <1>7 DEF Sums
<1>9. Bytes(s) = f[n] /\ Bytes(t) = g[n - 1]
  BY <1>1, <1>2, <1>8, BytesAreSum
<1>10. QED
  BY <1>6, <1>9 DEF t

----------------------------------------------------------------------------
(* The order of a sequence of archives.                                    *)

LEMMA BeforeRemoved ==
  ASSUME NEW s \in Seq(Archives), Distinct(s), NEW k \in DOMAIN s, NEW b, NEW c
  PROVE  Before(RemoveAt(s, k), b, c) <=> Before(s, b, c) /\ b # s[k] /\ c # s[k]
<1> DEFINE t == RemoveAt(s, k)
           n == Len(s)
<1>1. /\ DOMAIN s = 1 .. n /\ DOMAIN t = 1 .. n - 1 /\ n \in Nat /\ k \in 1 .. n
      /\ \A i \in 1 .. n - 1 : t[i] = IF i < k THEN s[i] ELSE s[i + 1]
  <2>1. /\ t \in Seq(Archives) /\ Len(t) = n - 1
        /\ \A i \in 1 .. n - 1 : t[i] = IF i < k THEN s[i] ELSE s[i + 1]
    BY RemoveAtProperties
  <2> HIDE DEF t
  <2>2. QED
    BY <2>1
<1> HIDE DEF t, n
<1> DEFINE up(i) == IF i < k THEN i ELSE i + 1
           down(i) == IF i < k THEN i ELSE i - 1
<1>2. ASSUME NEW i \in DOMAIN t, NEW j \in DOMAIN t, i < j, t[i] = b, t[j] = c
      PROVE  Before(s, b, c) /\ b # s[k] /\ c # s[k]
  <2>1. /\ up(i) \in DOMAIN s /\ up(j) \in DOMAIN s /\ up(i) < up(j)
        /\ up(i) # k /\ up(j) # k
    BY <1>1, <1>2
  <2>2. s[up(i)] = b /\ s[up(j)] = c
    BY <1>1, <1>2
  <2> HIDE DEF up
  <2>3. QED
    BY <1>1, <2>1, <2>2 DEF Before, Distinct
<1>3. ASSUME NEW i \in DOMAIN s, NEW j \in DOMAIN s, i < j, s[i] = b, s[j] = c,
             b # s[k], c # s[k]
      PROVE  Before(t, b, c)
  <2>1. i # k /\ j # k
    BY <1>3
  <2>2. /\ down(i) \in DOMAIN t /\ down(j) \in DOMAIN t /\ down(i) < down(j)
    BY <1>1, <1>3, <2>1
  <2>3. t[down(i)] = b /\ t[down(j)] = c
    <3>1. ASSUME NEW m \in DOMAIN s, m # k PROVE t[down(m)] = s[m]
      <4>1. CASE m < k
        BY <1>1, <3>1, <4>1
      <4>2. CASE m > k
        <5>1. m - 1 \in 1 .. n - 1 /\ ~(m - 1 < k) /\ (m - 1) + 1 = m /\ down(m) = m - 1
          BY <1>1, <4>2
        <5>2. QED
          BY <1>1, <5>1
      <4>3. QED
        BY <1>1, <3>1, <4>1, <4>2
    <3>2. QED
      BY <1>3, <2>1, <3>1
  <2> HIDE DEF down
  <2>4. QED
    BY <2>2, <2>3 DEF Before
<1>4. QED
  BY <1>2, <1>3 DEF Before, t

LEMMA BeforeAppended ==
  ASSUME NEW s \in Seq(Archives), NEW a \in Archives, NEW b, NEW c
  PROVE  Before(Append(s, a), b, c) <=> Before(s, b, c) \/ (b \in ToSet(s) /\ c = a)
<1> DEFINE t == Append(s, a)
           n == Len(s)
<1>1. /\ DOMAIN s = 1 .. n /\ DOMAIN t = 1 .. n + 1 /\ n \in Nat
      /\ \A i \in 1 .. n : t[i] = s[i]
      /\ t[n + 1] = a
  OBVIOUS
<1> HIDE DEF t, n
<1>2. ASSUME Before(t, b, c) PROVE Before(s, b, c) \/ (b \in ToSet(s) /\ c = a)
  <2>1. PICK i \in DOMAIN t, j \in DOMAIN t : i < j /\ t[i] = b /\ t[j] = c
    BY <1>2 DEF Before
  <2>2. i \in DOMAIN s /\ s[i] = b
    BY <1>1, <2>1
  <2>3. CASE j = n + 1
    BY <1>1, <2>1, <2>2, <2>3 DEF ToSet
  <2>4. CASE j # n + 1
    BY <1>1, <2>1, <2>2, <2>4 DEF Before
  <2>5. QED
    BY <2>3, <2>4
<1>3. ASSUME Before(s, b, c) PROVE Before(t, b, c)
  BY <1>1, <1>3 DEF Before
<1>4. ASSUME b \in ToSet(s), c = a PROVE Before(t, b, c)
  BY <1>1, <1>4 DEF Before, ToSet
<1>5. QED
  BY <1>2, <1>3, <1>4 DEF t

LEMMA WithoutProperties ==
  ASSUME NEW s \in Seq(Archives), Distinct(s), NEW a \in Archives
  PROVE  /\ Without(s, a) \in Seq(Archives) /\ Distinct(Without(s, a))
         /\ ToSet(Without(s, a)) = ToSet(s) \ {a}
         /\ \A b, c : Before(Without(s, a), b, c) <=> Before(s, b, c) /\ b # a /\ c # a
         /\ a \in ToSet(s) => Bytes(Without(s, a)) = Bytes(s) - Size[a]
<1>1. CASE a \in ToSet(s)
  <2>1. PICK k \in DOMAIN s : s[k] = a /\ Without(s, a) = RemoveAt(s, k)
    BY <1>1, RemoveFirstIsRemoveAt DEF Without
  <2>2. QED
    BY <2>1, RemoveAtProperties, RemoveAtSet, BeforeRemoved, BytesOfRemoveAt
<1>2. CASE a \notin ToSet(s)
  <2>1. ~ \E i \in 1 .. Len(s) : s[i] = a
    BY <1>2 DEF ToSet
  <2>2. Without(s, a) = s
    BY <2>1 DEF Without, RemoveFirst
  <2>3. \A b, c : Before(s, b, c) => b # a /\ c # a
    BY <1>2 DEF Before, ToSet
  <2>4. QED
    BY <1>2, <2>2, <2>3
<1>3. QED
  BY <1>1, <1>2

LEMMA ToEndProperties ==
  ASSUME NEW s \in Seq(Archives), Distinct(s), NEW a \in Archives
  PROVE  /\ ToEnd(s, a) \in Seq(Archives) /\ Distinct(ToEnd(s, a))
         /\ ToSet(ToEnd(s, a)) = ToSet(s) \cup {a}
         /\ \A b, c : Before(ToEnd(s, a), b, c) <=>
              \/ Before(s, b, c) /\ b # a /\ c # a
              \/ b \in ToSet(s) \ {a} /\ c = a
         /\ a \in ToSet(s) => Bytes(ToEnd(s, a)) = Bytes(s)
<1> DEFINE t == Without(s, a)
<1>1. /\ t \in Seq(Archives) /\ Distinct(t) /\ ToSet(t) = ToSet(s) \ {a}
      /\ \A b, c : Before(t, b, c) <=> Before(s, b, c) /\ b # a /\ c # a
      /\ a \in ToSet(s) => Bytes(t) = Bytes(s) - Size[a]
  BY WithoutProperties
<1>2. ToEnd(s, a) = Append(t, a)
  BY DEF ToEnd
<1> HIDE DEF t
<1>3. Append(t, a) \in Seq(Archives)
  BY <1>1
<1>4. Distinct(Append(t, a)) /\ ToSet(Append(t, a)) = ToSet(s) \cup {a}
  BY <1>1, AppendSet
<1>5. \A b, c : Before(Append(t, a), b, c) <=>
        \/ Before(s, b, c) /\ b # a /\ c # a
        \/ b \in ToSet(s) \ {a} /\ c = a
  BY <1>1, BeforeAppended
<1>6. ASSUME a \in ToSet(s) PROVE Bytes(Append(t, a)) = Bytes(s)
  <2>1. Bytes(s) \in Nat /\ Size[a] \in Nat
    BY BytesType, TarAssumption
  <2>2. Bytes(t) = Bytes(s) - Size[a] /\ Bytes(Append(t, a)) = Bytes(t) + Size[a]
    BY <1>1, <1>6, BytesOfAppend
  <2>3. QED
    BY <2>1, <2>2
<1>7. QED
  BY <1>2, <1>3, <1>4, <1>5, <1>6

LEMMA OldestProperties ==
  ASSUME NEW s \in Seq(Archives), Distinct(s), Len(s) > 1, NEW keep
  PROVE  LET o == s[Oldest(s, keep)]
         IN  /\ o \in ToSet(s) /\ o # keep
             /\ \A b \in ToSet(s) \ {o, keep} : Before(s, o, b)
<1> DEFINE others == {i \in 1 .. Len(s) : s[i] # keep}
           k == Oldest(s, keep)
<1>1. others \in SUBSET Nat
  OBVIOUS
<1>2. others # {}
  <2>1. 1 \in DOMAIN s /\ 2 \in DOMAIN s /\ s[1] # s[2]
    BY DEF Distinct
  <2>2. QED
    BY <2>1
<1>3. PICK m \in others : \A i \in others : m <= i
  BY <1>1, <1>2, Least
<1>4. m \in DOMAIN s /\ s[m] # keep /\ \A j \in 1 .. (m - 1) : s[j] = keep
  BY <1>3
<1>5. k \in DOMAIN s /\ s[k] # keep /\ \A j \in 1 .. (k - 1) : s[j] = keep
  BY <1>4 DEF Oldest
<1> HIDE DEF k
<1>6. ASSUME NEW b \in ToSet(s) \ {s[k], keep} PROVE Before(s, s[k], b)
  <2>1. PICK j \in DOMAIN s : s[j] = b
    BY DEF ToSet
  <2>2. k < j
    BY <1>5, <2>1
  <2>3. QED
    BY <1>5, <2>1, <2>2 DEF Before
<1>7. QED
  BY <1>5, <1>6 DEF k, ToSet

LEMMA SingleProperties ==
  ASSUME NEW s \in Seq(Archives), ~(Len(s) > 1), NEW a \in ToSet(s)
  PROVE  Bytes(s) = Size[a]
<1> DEFINE n == Len(s)
<1>1. PICK i \in DOMAIN s : s[i] = a
  BY DEF ToSet
<1>2. n \in Nat /\ i \in 1 .. n /\ ~(n > 1)
  OBVIOUS
<1> HIDE DEF n
<1>3. n = 1 /\ i = 1
  BY <1>2
<1>4. a \in Archives /\ Size[a] \in Nat
  BY <1>1, TarAssumption
<1>5. s = Append(<<>>, a)
  BY <1>1, <1>3, <1>4 DEF n
<1>6. Bytes(s) = Bytes(<<>>) + Size[a]
  <2>1. <<>> \in Seq(Archives)
    OBVIOUS
  <2>2. QED
    BY <1>4, <1>5, <2>1, BytesOfAppend
<1>7. QED
  BY <1>4, <1>6, BytesOfNone

----------------------------------------------------------------------------
(* The invariant                                                           *)

(* What eviction does to an order s: either one archive other than the one *)
(* wanted is dropped, which came before all others but that, or all stays. *)
Dropped(r, s, table) ==
  \E o \in ToSet(s) \ {want[r]} :
    /\ cached' \in Seq(Archives) /\ Distinct(cached')
    /\ ToSet(cached') = ToSet(s) \ {o}
    /\ \A b, c \in Archives : Before(cached', b, c) => Before(s, b, c)
    /\ \A b \in ToSet(cached') \ {want[r]} : Before(s, o, b)
    /\ held' = Bytes(cached')
    /\ victim' = [victim EXCEPT ![r] = table[o]]
    /\ copyOf' = [table EXCEPT ![o] = None]
    /\ pc' = [pc EXCEPT ![r] = "unlinking"]
    /\ UNCHANGED <<lock, curtailed>>

Kept(r, s, table) ==
  /\ cached' = s /\ copyOf' = table
  /\ held' = Bytes(s) /\ held' <= Bound
  /\ victim' = [victim EXCEPT ![r] = None]
  /\ pc' = [pc EXCEPT ![r] = "opening"]
  /\ lock' = None /\ curtailed' = FALSE

LEMMA EvictToFitOutcome ==
  ASSUME NEW r, NEW s \in Seq(Archives), NEW table, Distinct(s), want[r] \in ToSet(s),
         Size[want[r]] <= Bound, EvictToFit(r, s, table, Bytes(s))
  PROVE  Dropped(r, s, table) \/ Kept(r, s, table)
<1>1. CASE Full(s, Bytes(s), want[r])
  <2> DEFINE o == s[Oldest(s, want[r])]
  <2>1. Len(s) > 1
    BY <1>1 DEF Full
  <2>2. /\ o \in ToSet(s) \ {want[r]}
        /\ \A b \in ToSet(s) \ {o, want[r]} : Before(s, o, b)
    BY <2>1, OldestProperties
  <2>3. /\ cached' = Without(s, o) /\ held' = Bytes(s) - Size[o]
        /\ victim' = [victim EXCEPT ![r] = table[o]]
        /\ copyOf' = [table EXCEPT ![o] = None]
        /\ pc' = [pc EXCEPT ![r] = "unlinking"]
        /\ UNCHANGED <<lock, curtailed>>
    BY <1>1 DEF EvictToFit
  <2> HIDE DEF o
  <2>4. o \in Archives
    BY <2>2 DEF ToSet
  <2>5. /\ cached' \in Seq(Archives) /\ Distinct(cached') /\ ToSet(cached') = ToSet(s) \ {o}
        /\ \A b, c : Before(cached', b, c) => Before(s, b, c)
        /\ held' = Bytes(cached')
    BY <2>2, <2>3, <2>4, WithoutProperties
  <2>6. QED
    BY <2>2, <2>3, <2>5 DEF Dropped
<1>2. CASE ~Full(s, Bytes(s), want[r])
  <2>1. Bytes(s) <= Bound
    <3>1. CASE Len(s) > 1
      <4>1. Bytes(s) \in Nat /\ Bound \in Nat
        BY BytesType, TarAssumption
      <4>2. QED
        BY <1>2, <3>1, <4>1 DEF Full
    <3>2. CASE ~(Len(s) > 1)
      BY <3>2, SingleProperties
    <3>3. QED
      BY <3>1, <3>2
  <2>2. QED
    BY <1>2, <2>1 DEF EvictToFit, Kept
<1>3. QED
  BY <1>1, <1>2

LEMMA InitIInv == Init => IInv
<1> SUFFICES ASSUME Init PROVE IInv
  OBVIOUS
<1>1. <<>> \in Seq(Archives) /\ Distinct(<<>>) /\ ToSet(<<>>) = {}
  BY DEF Distinct, ToSet
<1>2. \A a, b : ~Before(<<>>, a, b)
  BY DEF Before
<1>3. Types
  BY <1>1 DEF Init, Types, Phases
<1>4. Locked /\ Wanting
  BY TarAssumption DEF Init, Locked, Wanting
<1>5. Making /\ Evicting /\ Found /\ Bounded
  BY TarAssumption DEF Init, Making, Evicting, Found, Bounded
<1>6. Stored /\ Ordered
  BY <1>1, <1>2 DEF Init, Stored, Ordered
<1>7. Counted
  BY BytesOfNone DEF Init, Counted
<1>8. QED
  BY <1>3, <1>4, <1>5, <1>6, <1>7 DEF IInv

(* The steps that leave the cache and the lock alone.                      *)
LEMMA ReaderStep ==
  ASSUME IInv, NEW r \in Readers, NEW p \in Phases,
         p \notin {"decompressing", "unlinking"},
         pc[r] \notin {"decompressing", "unlinking"},
         pc' = [pc EXCEPT ![r] = p],
         want' \in [Readers -> Archives \cup {None}],
         p # "idle" => want'[r] \in Archives,
         copy' \in [Readers -> Copies \cup {None}],
         victim' \in [Readers -> Copies \cup {None}],
         \A q \in Readers \ {r} :
           want'[q] = want[q] /\ copy'[q] = copy[q] /\ victim'[q] = victim[q],
         UNCHANGED cache
  PROVE  IInv'
<1>1. Types'
  BY DEF IInv, Types, cache, threads
<1>2. Locked' /\ Wanting'
  BY DEF IInv, Locked, Wanting, Types, cache
<1>3. Making' /\ Evicting'
  BY DEF IInv, Making, Evicting, Types, cache, threads, Abandoned
<1>4. Stored'
  BY DEF IInv, Stored, cache, threads, Abandoned
<1>5. Found'
  <2>1. \A q \in Readers : pc[q] \in {"decompressing", "unlinking"} =>
          pc'[q] = pc[q] /\ copy'[q] = copy[q] /\ victim'[q] = victim[q]
    BY DEF IInv, Types
  <2>2. disk' = disk /\ cached' = cached /\ copyOf' = copyOf /\ Abandoned' = Abandoned
    BY DEF cache, threads, Abandoned
  <2>3. QED
    BY <2>1, <2>2 DEF IInv, Found
<1>6. Counted'
  BY DEF IInv, Counted, cache
<1>7. Bounded'
  BY DEF IInv, Bounded, Types, cache
<1>8. Ordered'
  BY DEF IInv, Ordered, cache
<1>9. QED
  BY <1>1, <1>2, <1>3, <1>4, <1>5, <1>6, <1>7, <1>8 DEF IInv

LEMMA HitStep ==
  ASSUME IInv, NEW r \in Readers, Hit(r)
  PROVE  IInv'
<1> DEFINE w == want[r]
<1>1. w \in Archives /\ w \in ToSet(cached)
  BY DEF IInv, Types, Wanting, Hit
<1>2. /\ cached' \in Seq(Archives) /\ Distinct(cached') /\ ToSet(cached') = ToSet(cached)
      /\ Bytes(cached') = Bytes(cached)
      /\ \A b, c : Before(cached', b, c) <=>
           \/ Before(cached, b, c) /\ b # w /\ c # w
           \/ b \in ToSet(cached) \ {w} /\ c = w
  <2>1. cached \in Seq(Archives) /\ Distinct(cached) /\ cached' = ToEnd(cached, w)
    BY DEF IInv, Types, Hit
  <2> HIDE DEF w
  <2>2. ToSet(cached) \cup {w} = ToSet(cached)
    BY <1>1
  <2>3. QED
    BY <1>1, <2>1, <2>2, ToEndProperties
<1>3. /\ used' \in Seq(Archives) /\ Distinct(used') /\ ToSet(used') = ToSet(used) \cup {w}
      /\ \A b, c : Before(used', b, c) <=>
           \/ Before(used, b, c) /\ b # w /\ c # w
           \/ b \in ToSet(used) \ {w} /\ c = w
  BY <1>1, ToEndProperties DEF IInv, Types, Hit
<1>4. Types'
  BY <1>1, <1>2, <1>3 DEF IInv, Types, Hit, threads, Phases
<1>5. Locked' /\ Wanting'
  BY DEF IInv, Locked, Wanting, Types, Hit
<1>6. Making' /\ Evicting'
  BY <1>2 DEF IInv, Making, Evicting, Types, Hit, threads, Abandoned
<1>7. Stored'
  BY <1>2 DEF IInv, Stored, Hit, threads, Abandoned
<1>8. Found'
  BY <1>2 DEF IInv, Found, Types, Hit, threads, Abandoned
<1>9. Counted'
  BY <1>2 DEF IInv, Counted, Hit
<1>10. Bounded'
  BY DEF IInv, Bounded, Types, Hit
<1>11. Ordered'
  BY <1>1, <1>2, <1>3 DEF IInv, Ordered
<1>12. QED
  BY <1>4, <1>5, <1>6, <1>7, <1>8, <1>9, <1>10, <1>11 DEF IInv

LEMMA MissStep ==
  ASSUME IInv, NEW r \in Readers, Miss(r)
  PROVE  IInv'
<1>1. PICK n \in Unused : copy' = [copy EXCEPT ![r] = n]
  BY DEF Miss
<1>2. n \in Copies \ Abandoned /\ disk[n] = None /\ Abandoned' = Abandoned
  BY <1>1 DEF Unused, Miss, threads, Abandoned
<1>3. Types'
  BY <1>1, <1>2 DEF IInv, Types, Miss, threads, Phases
<1>4. Locked' /\ Wanting'
  BY TarAssumption DEF IInv, Locked, Wanting, Types, Miss
<1>5. Making' /\ Evicting'
  BY <1>1, <1>2 DEF IInv, Making, Evicting, Types, Miss
<1>6. Stored' /\ Counted' /\ Ordered'
  BY <1>2 DEF IInv, Stored, Counted, Ordered, Miss
<1>7. Found'
  BY <1>2 DEF IInv, Found, Types, Miss
<1>8. Bounded'
  BY TarAssumption DEF IInv, Bounded, Types, Miss
<1>9. QED
  BY <1>3, <1>4, <1>5, <1>6, <1>7, <1>8 DEF IInv

(* An eviction after a copy was made, or an unlink was done: the order s   *)
(* is true of the disk then.                                               *)
LEMMA EvictionStep ==
  ASSUME IInv, NEW r \in Readers, NEW s \in Seq(Archives), Distinct(s),
         pc[r] \in {"decompressing", "unlinking"},
         want[r] \in ToSet(s), Size[want[r]] <= Bound,
         NEW table \in [Archives -> Copies \cup {None}],
         EvictToFit(r, s, table, Bytes(s)),
         UNCHANGED <<threads, want, copy>>,
         used' \in Seq(Archives), Distinct(used'), ToSet(s) \subseteq ToSet(used'),
         \A b, c \in Archives : Before(s, b, c) => Before(used', b, c),
         disk' \in [Copies -> Archives \cup {Torn, None}],
         \A a \in ToSet(s) : table[a] \in Copies \ Abandoned /\ disk'[table[a]] = a,
         \A n \in Copies \ Abandoned : disk'[n] # None => \E a \in ToSet(s) : table[a] = n
  PROVE  IInv'
<1>1. Bytes(s) \in Nat /\ Abandoned' = Abandoned
  BY BytesType DEF threads, Abandoned
<1>2. lock = r /\ \A q \in Readers \ {r} : pc[q] \notin {"decompressing", "unlinking"}
  BY DEF IInv, Locked
<1>3. CASE Dropped(r, s, table)
  <2>1. PICK o \in ToSet(s) \ {want[r]} :
          /\ cached' \in Seq(Archives) /\ Distinct(cached')
          /\ ToSet(cached') = ToSet(s) \ {o}
          /\ \A b, c \in Archives : Before(cached', b, c) => Before(s, b, c)
          /\ held' = Bytes(cached')
          /\ victim' = [victim EXCEPT ![r] = table[o]]
          /\ copyOf' = [table EXCEPT ![o] = None]
          /\ pc' = [pc EXCEPT ![r] = "unlinking"]
          /\ UNCHANGED <<lock, curtailed>>
    BY <1>3 DEF Dropped
  <2>2. /\ o \in Archives /\ held' \in Nat /\ table[o] \in Copies
        /\ \A a \in ToSet(cached') : a \in Archives /\ copyOf'[a] = table[a]
        /\ \A a \in ToSet(cached') : table[a] # table[o]
    <3>1. \A a \in ToSet(s) : a \in Archives
      BY DEF ToSet
    <3>2. held' \in Nat
      BY <2>1, BytesType
    <3>3. QED
      BY <2>1, <3>1, <3>2
  <2>3. Types'
    BY <2>1, <2>2 DEF IInv, Types, threads, Phases
  <2>4. Locked' /\ Wanting'
    BY <1>2, <2>1 DEF IInv, Locked, Wanting, Types
  <2>5. Making'
    BY <1>2, <2>1 DEF IInv, Making, Types
  <2>6. Evicting'
    BY <1>2, <2>1, <2>2 DEF IInv, Evicting, Types
  <2>7. Stored'
    BY <1>1, <2>1, <2>2 DEF Stored
  <2>8. Found'
    BY <1>1, <2>1, <2>2 DEF IInv, Found, Types
  <2>9. Counted'
    BY <2>1 DEF Counted
  <2>10. Bounded'
    BY <1>2, <2>1, TarAssumption DEF IInv, Bounded, Types
  <2>11. Ordered'
    BY <2>1 DEF Ordered
  <2>12. QED
    BY <2>3, <2>4, <2>5, <2>6, <2>7, <2>8, <2>9, <2>10, <2>11 DEF IInv
<1>4. CASE Kept(r, s, table)
  <2>1. Types'
    BY <1>1, <1>4 DEF IInv, Types, Kept, threads, Phases
  <2>2. Locked' /\ Wanting'
    BY <1>2, <1>4, TarAssumption DEF IInv, Locked, Wanting, Types, Kept
  <2>3. Making' /\ Evicting'
    BY <1>2, <1>4 DEF IInv, Making, Evicting, Types, Kept
  <2>4. Stored' /\ Found' /\ Counted' /\ Bounded' /\ Ordered'
    BY <1>1, <1>4 DEF Stored, Found, Counted, Bounded, Ordered, Kept
  <2>5. QED
    BY <2>1, <2>2, <2>3, <2>4 DEF IInv
<1>5. QED
  BY <1>3, <1>4, EvictToFitOutcome

LEMMA DecompressStep ==
  ASSUME IInv, NEW r \in Readers, Decompress(r)
  PROVE  IInv'
<1> DEFINE w == want[r]
           s == Append(cached, w)
           table == [copyOf EXCEPT ![w] = copy[r]]
<1>1. /\ pc[r] = "decompressing" /\ lock = r
      /\ w \in Archives /\ w \notin ToSet(cached) /\ Size[w] <= Bound
      /\ copy[r] \in Copies \ Abandoned /\ disk[copy[r]] \in {Torn, None}
  BY DEF IInv, Types, Locked, Wanting, Making, Decompress
<1>2. /\ disk' = [disk EXCEPT ![copy[r]] = w]
      /\ used' = ToEnd(used, w)
      /\ UNCHANGED <<threads, want, copy>>
  BY DEF Decompress
<1>3. /\ used' \in Seq(Archives) /\ Distinct(used') /\ ToSet(used') = ToSet(used) \cup {w}
      /\ \A b, c : Before(used', b, c) <=>
           \/ Before(used, b, c) /\ b # w /\ c # w
           \/ b \in ToSet(used) \ {w} /\ c = w
  BY <1>1, <1>2, ToEndProperties DEF IInv, Types
<1>4. /\ s \in Seq(Archives) /\ Distinct(s) /\ ToSet(s) = ToSet(cached) \cup {w}
      /\ Bytes(s) = held + Size[w]
      /\ \A b, c : Before(s, b, c) <=> Before(cached, b, c) \/ (b \in ToSet(cached) /\ c = w)
  <2>1. cached \in Seq(Archives) /\ Distinct(cached) /\ held = Bytes(cached)
    BY DEF IInv, Types, Counted
  <2>2. QED
    BY <1>1, <2>1, AppendSet, BytesOfAppend, BeforeAppended
<1>5. EvictToFit(r, s, table, Bytes(s))
  BY <1>4 DEF Decompress
<1>6. Bytes(s) \in Nat
  BY <1>4, BytesType
<1> HIDE DEF s
<1>7. \A b, c \in Archives : Before(s, b, c) => Before(used', b, c)
  <2>1. \A b, c : Before(cached, b, c) => b \in ToSet(cached) /\ c \in ToSet(cached)
    BY DEF Before, ToSet
  <2>2. /\ ToSet(cached) \subseteq ToSet(used)
        /\ \A b, c \in Archives : Before(cached, b, c) => Before(used, b, c)
    BY DEF IInv, Ordered
  <2>3. QED
    BY <1>1, <1>3, <1>4, <2>1, <2>2
<1>8. \A a \in ToSet(s) : table[a] \in Copies \ Abandoned /\ disk'[table[a]] = a
  <2>1. /\ copyOf \in [Archives -> Copies \cup {None}]
        /\ disk \in [Copies -> Archives \cup {Torn, None}]
        /\ ToSet(cached) \subseteq Archives
    BY DEF IInv, Types, ToSet
  <2>2. table[w] = copy[r] /\ disk'[copy[r]] = w
    BY <1>1, <1>2, <2>1
  <2>3. ASSUME NEW a \in ToSet(cached)
        PROVE  table[a] \in Copies \ Abandoned /\ disk'[table[a]] = a
    <3>1. /\ a \in Archives /\ a # w /\ a \notin {Torn, None}
          /\ copyOf[a] \in Copies \ Abandoned /\ disk[copyOf[a]] = a
      BY <1>1, <2>1, TarAssumption DEF IInv, Stored
    <3>2. QED
      BY <1>1, <1>2, <2>1, <3>1
  <2>4. QED
    BY <1>1, <1>4, <2>2, <2>3
<1>9. ASSUME NEW n \in Copies \ Abandoned, disk'[n] # None
      PROVE  \E a \in ToSet(s) : table[a] = n
  <2>1. CASE n = copy[r]
    BY <1>1, <1>2, <1>4, <2>1 DEF IInv, Types
  <2>2. CASE n # copy[r]
    <3>1. disk[n] # None
      BY <1>2, <1>9, <2>2 DEF IInv, Types
    <3>2. PICK a \in ToSet(cached) : copyOf[a] = n
      BY <1>1, <2>2, <3>1 DEF IInv, Found, Locked
    <3>3. a \in Archives /\ a # w /\ a \in ToSet(s)
      <4>1. a \in Archives
        BY DEF IInv, Types, ToSet
      <4>2. QED
        BY <1>1, <1>4, <4>1
    <3>4. QED
      BY <1>2, <3>2, <3>3 DEF IInv, Types
  <2>3. QED
    BY <2>1, <2>2
<1>10. /\ table \in [Archives -> Copies \cup {None}]
       /\ disk' \in [Copies -> Archives \cup {Torn, None}]
  BY <1>1, <1>2 DEF IInv, Types
<1>11. ToSet(s) \subseteq ToSet(used') /\ w \in ToSet(s)
  BY <1>3, <1>4 DEF IInv, Ordered
<1> HIDE DEF table
<1>12. QED
  BY <1>1, <1>2, <1>3, <1>4, <1>5, <1>7, <1>8, <1>9, <1>10, <1>11, EvictionStep

LEMMA UnlinkStep ==
  ASSUME IInv, NEW r \in Readers, Unlink(r)
  PROVE  IInv'
<1>1. /\ pc[r] = "unlinking" /\ victim[r] \in Copies
      /\ want[r] \in ToSet(cached) /\ Size[want[r]] <= Bound
      /\ \A a \in ToSet(cached) : copyOf[a] # victim[r]
  BY DEF IInv, Evicting, Unlink
<1>2. /\ disk' = [disk EXCEPT ![victim[r]] = None]
      /\ UNCHANGED <<used, threads, want, copy>>
  BY DEF Unlink
<1>3. /\ cached \in Seq(Archives) /\ Distinct(cached)
      /\ used \in Seq(Archives) /\ Distinct(used) /\ ToSet(cached) \subseteq ToSet(used)
      /\ \A b, c \in Archives : Before(cached, b, c) => Before(used, b, c)
  BY DEF IInv, Types, Ordered
<1>4. EvictToFit(r, cached, copyOf, Bytes(cached))
  BY DEF IInv, Counted, Unlink
<1>5. \A a \in ToSet(cached) : copyOf[a] \in Copies \ Abandoned /\ disk'[copyOf[a]] = a
  BY <1>1, <1>2 DEF IInv, Types, Stored
<1>6. \A n \in Copies \ Abandoned : disk'[n] # None => \E a \in ToSet(cached) : copyOf[a] = n
  BY <1>1, <1>2 DEF IInv, Types, Found, Locked
<1>7. /\ copyOf \in [Archives -> Copies \cup {None}]
      /\ disk' \in [Copies -> Archives \cup {Torn, None}]
  BY <1>2 DEF IInv, Types
<1>8. QED
  BY <1>1, <1>2, <1>3, <1>4, <1>5, <1>6, <1>7, EvictionStep

(* A thread that opens its file, the reader's own or one of a cancelled    *)
(* call, and one of a cancelled call that ends.                            *)
LEMMA BeginStep ==
  ASSUME IInv, NEW r \in Readers, Begin(r)
  PROVE  IInv'
<1>1. /\ pc[r] = "decompressing" /\ copy[r] \in Copies \ Abandoned
      /\ disk' = [disk EXCEPT ![copy[r]] = Torn] /\ disk[copy[r]] = None
      /\ UNCHANGED <<cached, copyOf, held, lock, used, curtailed, threads, reader>>
      /\ Abandoned' = Abandoned
  BY DEF IInv, Making, Begin, threads, Abandoned
<1>2. Types'
  BY <1>1 DEF IInv, Types, threads, reader
<1>3. Locked' /\ Wanting' /\ Counted' /\ Bounded' /\ Ordered'
  BY <1>1 DEF IInv, Locked, Wanting, Counted, Bounded, Ordered, reader
<1>4. Making' /\ Evicting'
  BY <1>1 DEF IInv, Types, Making, Evicting, reader
<1>5. Stored'
  <2>1. \A a \in ToSet(cached) : a # None
    BY TarAssumption DEF IInv, Types, ToSet
  <2>2. QED
    BY <1>1, <2>1 DEF IInv, Types, Stored
<1>6. Found'
  BY <1>1 DEF IInv, Types, Found, reader
<1>7. QED
  BY <1>2, <1>3, <1>4, <1>5, <1>6 DEF IInv

LEMMA LateStep ==
  ASSUME IInv, Late
  PROVE  IInv'
<1> DEFINE Done(n) ==
      /\ disk' \in [Copies -> Archives \cup {Torn, None}]
      /\ \A m \in Copies \ {n} : disk'[m] = disk[m]
      /\ making' \subseteq making /\ removing' \subseteq removing
      /\ left' \subseteq left \cup {n}
      /\ Abandoned \subseteq Abandoned' \cup {n}
      /\ disk'[n] # None => n \in Abandoned'
<1>1. UNCHANGED <<cached, copyOf, held, lock, used, curtailed, reader>>
  BY DEF Late
<1>2. PICK n \in Abandoned \cap Copies : Done(n)
  <2>1. ASSUME NEW a \in Archives, NEW n \in Copies, <<a, n>> \in making,
               BeginLate(a, n) \/ DecompressLate(a, n) \/ AbandonLate(a, n)
        PROVE  n \in Abandoned /\ Done(n)
    <3>1. n \in Abandoned
      BY <2>1 DEF Abandoned
    <3>2. CASE BeginLate(a, n)
      BY <3>1, <3>2 DEF IInv, Types, BeginLate, threads, Abandoned
    <3>3. CASE DecompressLate(a, n)
      BY <3>1, <3>3 DEF IInv, Types, DecompressLate, Abandoned
    <3>4. CASE AbandonLate(a, n)
      BY <3>1, <3>4 DEF IInv, Types, AbandonLate, LeftBy, Abandoned
    <3>5. QED
      BY <2>1, <3>1, <3>2, <3>3, <3>4
  <2>2. ASSUME NEW n \in removing, UnlinkLate(n)
        PROVE  n \in Abandoned \cap Copies /\ Done(n)
    <3>1. n \in Abandoned \cap Copies
      BY DEF IInv, Types, Abandoned
    <3>2. QED
      BY <2>2, <3>1 DEF IInv, Types, UnlinkLate, LeftBy, Abandoned
  <2> HIDE DEF Done
  <2>3. CASE \E m \in making :
               BeginLate(m[1], m[2]) \/ DecompressLate(m[1], m[2]) \/ AbandonLate(m[1], m[2])
    <3>1. \A m \in making : m[1] \in Archives /\ m[2] \in Copies /\ m = <<m[1], m[2]>>
      BY DEF IInv, Types
    <3>2. QED
      BY <2>1, <2>3, <3>1
  <2>4. CASE \E n \in removing : UnlinkLate(n)
    BY <2>2, <2>4
  <2>5. QED
    BY <2>3, <2>4 DEF Late
<1>3. Abandoned' \subseteq Abandoned
  BY <1>2 DEF Abandoned
<1>4. Types'
  BY <1>1, <1>2 DEF IInv, Types, reader
<1>5. Locked' /\ Wanting' /\ Counted' /\ Bounded' /\ Ordered'
  BY <1>1 DEF IInv, Locked, Wanting, Counted, Bounded, Ordered, reader
<1>6. Making' /\ Evicting'
  BY <1>1, <1>2, <1>3 DEF IInv, Making, Evicting, reader
<1>7. Stored'
  BY <1>1, <1>2, <1>3 DEF IInv, Stored
<1>8. Found'
  BY <1>1, <1>2 DEF IInv, Found, reader
<1>9. QED
  BY <1>4, <1>5, <1>6, <1>7, <1>8 DEF IInv

(* The steps that give the lock up, or never had it, without an answer.    *)
LEMMA FailDecompressStep ==
  ASSUME IInv, NEW r \in Readers, FailDecompress(r)
  PROVE  IInv'
<1> DEFINE n == copy[r]
<1>1. /\ n \in Copies /\ disk[n] \in {Torn, None}
      /\ Abandoned \subseteq Abandoned' /\ Abandoned' \subseteq Abandoned \cup {n}
      /\ disk[n] # None => n \in Abandoned'
      /\ pc[r] = "decompressing" /\ disk' = disk
  BY DEF IInv, Making, FailDecompress, LeftBy, Abandoned
<1>2. Types'
  BY DEF IInv, Types, FailDecompress, Leave, LeftBy, Released, Phases
<1>3. Locked' /\ Wanting'
  BY TarAssumption DEF IInv, Locked, Wanting, Types, FailDecompress, Leave, Released
<1>4. Making' /\ Evicting'
  BY <1>1 DEF IInv, Locked, Making, Evicting, Types, FailDecompress, Leave
<1>5. Stored'
  <2>1. \A a \in ToSet(cached) : a \notin {Torn, None}
    BY TarAssumption DEF IInv, Types, ToSet
  <2>2. QED
    BY <1>1, <2>1 DEF IInv, Stored, FailDecompress
<1>6. Found'
  BY <1>1 DEF IInv, Found, Locked, Types, FailDecompress, Leave
<1>7. Counted' /\ Ordered'
  BY DEF IInv, Counted, Ordered, FailDecompress
<1>8. Bounded'
  BY DEF IInv, Bounded, Types, FailDecompress
<1>9. QED
  BY <1>2, <1>3, <1>4, <1>5, <1>6, <1>7, <1>8 DEF IInv

LEMMA CancelStep ==
  ASSUME IInv, NEW r \in Readers, Cancel(r)
  PROVE  IInv'
<1> DEFINE n == IF pc[r] = "decompressing" THEN copy[r] ELSE victim[r]
           busy == pc[r] \in {"decompressing", "unlinking"}
<1>1. /\ busy => n \in Copies /\ n \in Abandoned'
      /\ Abandoned \subseteq Abandoned'
      /\ \A m \in Abandoned' \ Abandoned : busy /\ m = n
      /\ disk' = disk
  <2>1. Abandoned' = left \cup removing' \cup {m[2] : m \in making'}
    BY DEF Cancel, Abandoned
  <2>2. CASE pc[r] = "decompressing"
    <3>1. removing' = removing /\ making' = making \cup {<<want[r], copy[r]>>}
      BY <2>2 DEF Cancel
    <3>2. Abandoned' = Abandoned \cup {copy[r]}
      <4> DEFINE t == <<want[r], copy[r]>>
      <4>1. t[2] = copy[r] /\ making' = making \cup {t}
        BY <3>1
      <4> HIDE DEF t
      <4>2. QED
        BY <2>1, <3>1, <4>1 DEF Abandoned
    <3>3. QED
      BY <2>2, <3>2 DEF IInv, Making, Cancel
  <2>3. CASE pc[r] = "unlinking"
    <3>1. removing' = removing \cup {victim[r]} /\ making' = making
      BY <2>3 DEF Cancel
    <3>2. Abandoned' = Abandoned \cup {victim[r]}
      BY <2>1, <3>1 DEF Abandoned
    <3>3. QED
      BY <2>3, <3>2 DEF IInv, Evicting, Cancel
  <2>4. CASE ~busy
    <3>1. removing' = removing /\ making' = making
      BY <2>4 DEF Cancel
    <3>2. QED
      BY <2>1, <2>4, <3>1 DEF Abandoned, Cancel
  <2>5. QED
    BY <2>2, <2>3, <2>4
<1>2. Types'
  BY DEF IInv, Types, Making, Evicting, Wanting, Cancel, Leave, Released, Phases
<1>3. Locked' /\ Wanting'
  BY TarAssumption DEF IInv, Locked, Wanting, Types, Cancel, Leave, Released
<1>4. Making' /\ Evicting'
  BY <1>1 DEF IInv, Locked, Making, Evicting, Types, Cancel, Leave
<1>5. Stored'
  <2>1. ASSUME NEW a \in ToSet(cached), busy PROVE copyOf[a] # n
    <3>1. a \notin {Torn, None}
      BY TarAssumption DEF IInv, Types, ToSet
    <3>2. QED
      BY <2>1, <3>1 DEF IInv, Stored, Making, Evicting
  <2>2. QED
    BY <1>1, <2>1 DEF IInv, Stored, Cancel
<1>6. Counted' /\ Ordered'
  BY DEF IInv, Counted, Ordered, Cancel
<1>7. Found'
  BY <1>1 DEF IInv, Found, Locked, Types, Cancel, Leave
<1>8. Bounded'
  BY DEF IInv, Bounded, Types, Locked, Cancel, Released, Leave
<1>9. QED
  BY <1>2, <1>3, <1>4, <1>5, <1>6, <1>7, <1>8 DEF IInv

LEMMA NextIInv == IInv /\ [Next]_vars => IInv'
<1> SUFFICES ASSUME IInv, [Next]_vars PROVE IInv'
  OBVIOUS
<1>1. ASSUME NEW r \in Readers, NEW a \in Archives, Open(r, a) PROVE IInv'
  <2> DEFINE p == IF a \in Plain THEN "opening" ELSE "locking"
  <2>1. p \in Phases /\ p \notin {"decompressing", "unlinking"}
    BY DEF Phases
  <2>2. /\ pc[r] \notin {"decompressing", "unlinking"} /\ pc' = [pc EXCEPT ![r] = p]
        /\ want' = [want EXCEPT ![r] = a] /\ UNCHANGED <<cache, copy, victim>>
    BY <1>1 DEF Open
  <2> HIDE DEF p
  <2>3. QED
    BY <2>1, <2>2, ReaderStep DEF IInv, Types
<1>2. ASSUME NEW r \in Readers, OpenCopy(r) PROVE IInv'
  BY <1>2, ReaderStep DEF IInv, Types, Wanting, OpenCopy, Phases
<1>3. ASSUME NEW r \in Readers, MissCopy(r) \/ Read(r) PROVE IInv'
  BY ZenonT(30), <1>3, ReaderStep DEF IInv, Types, MissCopy, Read, Leave, Phases
<1>4. ASSUME UNCHANGED vars PROVE IInv'
  BY <1>4 DEF vars, cache, threads, reader, IInv, Types, Locked, Wanting, Making, Evicting,
              Stored, Found, Counted, Bounded, Ordered, Abandoned
<1>5. QED
  BY <1>1, <1>2, <1>3, <1>4, HitStep, MissStep, BeginStep, DecompressStep, UnlinkStep, LateStep,
     FailDecompressStep, CancelStep DEF Next, Step

LEMMA Invariance == Spec => []IInv
  BY InitIInv, NextIInv, PTL DEF Spec

----------------------------------------------------------------------------
(* Theorems                                                                *)

(* Every variable of the opener keeps its type, and the cache lists no     *)
(* archive twice.                                                          *)
THEOREM Typing == Spec => []Types
<1>1. IInv => Types
  BY DEF IInv
<1>2. QED
  BY <1>1, Invariance, PTL

(* What a look-up finds is a whole copy of the archive that was asked for, *)
(* and no file that a failed or cancelled call has or had a thread at,     *)
(* whenever that thread writes or unlinks; _held is the bytes of what is   *)
(* cached; and any other file on the disk is being made, being unlinked or *)
(* one that such a call left (_seekable_path and _decompress).             *)
THEOREM CacheIsOnDisk == Spec => []CacheOnDisk
<1>1. IInv => CacheOnDisk
  BY DEF IInv, CacheOnDisk, Stored, Counted, Found
<1>2. QED
  BY <1>1, Invariance, PTL

(* Whoever comes to the lock finds the cache inside its bound, unless an   *)
(* eviction was cancelled half-way, and then until the next one ends.      *)
THEOREM CacheWithinBound == Spec => []WithinBound
<1>1. IInv => WithinBound
  BY DEF IInv, WithinBound, Bounded
<1>2. QED
  BY <1>1, Invariance, PTL

(* No archive is decompressed while another reader does so or when a copy  *)
(* is cached.                                                              *)
THEOREM DecompressedOnlyOnce == Spec => []DecompressedOnce
<1>1. IInv => DecompressedOnce
  BY DEF IInv, DecompressedOnce, Locked, Making
<1>2. QED
  BY <1>1, Invariance, PTL

(* The archives evicted are those used least recently, and never the one   *)
(* that the evicting reader has decompressed and is to open.               *)
Evicts ==
  \A a \in ToSet(cached) \ ToSet(cached') :
    /\ lock # None /\ a # want[lock]
    /\ \A b \in ToSet(cached') \ {want[lock]} : Before(used, a, b)

LEMMA EvictionEvicts ==
  ASSUME IInv, NEW r \in Readers, NEW s \in Seq(Archives), Distinct(s),
         pc[r] \in {"decompressing", "unlinking"},
         want[r] \in ToSet(s), Size[want[r]] <= Bound,
         NEW table, EvictToFit(r, s, table, Bytes(s)),
         ToSet(cached) \subseteq ToSet(s),
         \A a, b \in Archives : Before(s, a, b) /\ b # want[r] => Before(cached, a, b)
  PROVE  Evicts
<1>1. lock = r /\ r # None
  BY TarAssumption DEF IInv, Locked
<1>2. \A a \in ToSet(s) : a \in Archives
  BY DEF ToSet
<1>3. \A a, b \in Archives : Before(s, a, b) /\ b # want[r] => Before(used, a, b)
  BY DEF IInv, Ordered
<1>4. CASE Dropped(r, s, table)
  BY <1>1, <1>2, <1>3, <1>4 DEF Dropped, Evicts
<1>5. CASE Kept(r, s, table)
  BY <1>5 DEF Kept, Evicts
<1>6. QED
  BY <1>4, <1>5, EvictToFitOutcome

(* What an eviction takes was used longer ago than all that it leaves, the *)
(* archive just decompressed aside, which it never takes (move_to_end and  *)
(* _evict_to_fit in tar_archive.py).                                       *)
THEOREM LeastRecentlyUsedIsEvicted == Spec => EvictsLeastRecentlyUsed
<1>1. IInv /\ [Next]_vars => [Evicts]_vars
  <2> SUFFICES ASSUME IInv, Next PROVE Evicts
    OBVIOUS
  <2>1. ASSUME NEW r \in Readers, Decompress(r) PROVE Evicts
    <3> DEFINE w == want[r]
               s == Append(cached, w)
               table == [copyOf EXCEPT ![w] = copy[r]]
    <3>1. /\ pc[r] = "decompressing" /\ Size[w] <= Bound /\ w \notin ToSet(cached)
          /\ w \in Archives /\ cached \in Seq(Archives) /\ Distinct(cached)
          /\ held = Bytes(cached)
      BY <2>1 DEF IInv, Types, Wanting, Making, Counted, Decompress
    <3>2. /\ s \in Seq(Archives) /\ Distinct(s) /\ ToSet(s) = ToSet(cached) \cup {w}
          /\ Bytes(s) = held + Size[w]
          /\ \A b, c : Before(s, b, c) /\ c # w => Before(cached, b, c)
      BY <3>1, AppendSet, BytesOfAppend, BeforeAppended
    <3>3. EvictToFit(r, s, table, Bytes(s))
      BY <2>1, <3>2 DEF Decompress
    <3> HIDE DEF s, table
    <3>4. QED
      BY <3>1, <3>2, <3>3, EvictionEvicts
  <2>2. ASSUME NEW r \in Readers, Unlink(r) PROVE Evicts
    <3>1. /\ pc[r] = "unlinking" /\ Size[want[r]] <= Bound /\ want[r] \in ToSet(cached)
          /\ cached \in Seq(Archives) /\ Distinct(cached)
          /\ EvictToFit(r, cached, copyOf, Bytes(cached))
      BY <2>2 DEF IInv, Types, Evicting, Counted, Unlink
    <3>2. QED
      BY <3>1, EvictionEvicts
  <2>3. ASSUME NEW r \in Readers, Hit(r) PROVE Evicts
    <3>1. /\ want[r] \in ToSet(cached) /\ want[r] \in Archives
          /\ cached \in Seq(Archives) /\ Distinct(cached) /\ cached' = ToEnd(cached, want[r])
      BY <2>3 DEF IInv, Types, Wanting, Hit
    <3>2. ToSet(cached) \cup {want[r]} = ToSet(cached)
      BY <3>1
    <3>3. ToSet(cached') = ToSet(cached) \cup {want[r]}
      BY <3>1, ToEndProperties
    <3>4. QED
      BY <3>2, <3>3 DEF Evicts
  <2>4. CASE UNCHANGED cached
    BY <2>4 DEF Evicts
  <2>5. QED
    BY <2>1, <2>2, <2>3, <2>4
       DEF Next, Step, Open, Miss, Begin, FailDecompress, OpenCopy, MissCopy, Read, Cancel,
           Late, cache
<1>2. QED
  BY <1>1, Invariance, PTL DEF Spec, EvictsLeastRecentlyUsed, Evicts

=============================================================================
