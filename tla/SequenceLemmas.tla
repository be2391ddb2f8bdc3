--------------------------- MODULE SequenceLemmas ---------------------------
(***************************************************************************)
(* What the other proofs need to know of numbers, of sequences and of      *)
(* orders: least elements, induction up to a number, what RemoveFirst      *)
(* leaves, what FlattenSeq makes of its parts, and finite sets in order.   *)
(*                                                                         *)
(* Induction is over a set of numbers here, and not over a predicate: it   *)
(* comes from the least element of a set, which WFMin gives.               *)
(***************************************************************************)
EXTENDS SequencesExt, SequenceTheorems, FiniteSetTheorems, WellFoundedInduction, TLAPS

Smaller == {p \in Nat \X Nat : p[1] < p[2]}

(* No descending chain of natural numbers is infinite.                     *)
LEMMA SmallerWellFounded == IsWellFoundedOn(Smaller, Nat)
  BY NatLessThanWellFounded DEF OpToRel, Smaller

(* A set of natural numbers that is not empty has a least one.             *)
LEMMA Least ==
  ASSUME NEW S \in SUBSET Nat, S # {}
  PROVE  \E m \in S : \A n \in S : m <= n
<1>1. \A x, y \in Nat : y < x => <<y, x>> \in Smaller
  BY DEF Smaller
<1>2. PICK m \in S : \A n \in S : ~ (<<n, m>> \in Smaller)
  BY SmallerWellFounded, WFMin
<1>3. \A n \in S : ~(n < m)
  BY <1>1, <1>2
<1>4. QED
  BY <1>3

(* ... which Min picks.                                                    *)
LEMMA MinIsLeast ==
  ASSUME NEW S \in SUBSET Nat, S # {}
  PROVE  Min(S) \in S /\ \A n \in S : Min(S) <= n
  BY Least DEF Min

(* The greatest of some numbers up to n, which Max picks.                  *)
LEMMA MaxIsGreatest ==
  ASSUME NEW n \in Nat, NEW S \in SUBSET (1 .. n), S # {}
  PROVE  Max(S) \in S /\ \A x \in S : x <= Max(S)
<1> DEFINE above == {u \in 0 .. n : \A x \in S : x <= u}
<1>1. n \in above /\ above \in SUBSET Nat
  OBVIOUS
<1>2. PICK m \in above : \A u \in above : m <= u
  BY <1>1, Least
<1>3. m \in S
  <2> SUFFICES ASSUME m \notin S PROVE FALSE
    OBVIOUS
  <2>1. \A x \in S : x <= m /\ x # m /\ x \in 1 .. n
    BY <1>2
  <2>2. PICK x \in S : TRUE
    OBVIOUS
  <2>3. m - 1 \in 0 .. n /\ \A y \in S : y <= m - 1
    BY <2>1, <2>2
  <2>4. QED
    BY <1>2, <2>3
<1>4. \A x \in S : m >= x
  BY <1>2
<1>5. QED
  BY <1>2, <1>3, <1>4 DEF Max

(* What 0 is in, and k + 1 with k, all numbers up to n are in.             *)
LEMMA InductionUpTo ==
  ASSUME NEW n \in Nat, NEW S, 0 \in S, \A k \in 0 .. n - 1 : k \in S => k + 1 \in S
  PROVE  0 .. n \subseteq S
<1> DEFINE missing == {k \in Nat : k <= n /\ k \notin S}
<1>1. ASSUME missing # {} PROVE FALSE
  <2>1. missing \in SUBSET Nat
    OBVIOUS
  <2>2. PICK m \in missing : \A k \in missing : m <= k
    BY <1>1, <2>1, Least
  <2>3. m # 0 /\ m \in Nat /\ m <= n /\ m \notin S
    BY <2>2
  <2>4. m - 1 \in Nat /\ m - 1 \notin missing
    BY <2>2, <2>3
  <2>5. m - 1 \in S /\ m - 1 \in 0 .. n - 1
    BY <2>3, <2>4
  <2>6. m \in S
    BY <2>3, <2>5
  <2>7. QED
    BY <2>3, <2>6
<1>2. QED
  BY <1>1

----------------------------------------------------------------------------
(* Sequences                                                               *)

Distinct(s) == \A i, j \in DOMAIN s : s[i] = s[j] => i = j

(* RemoveAt moves what comes after one place up.                           *)
LEMMA RemoveAtProperties ==
  ASSUME NEW S, NEW s \in Seq(S), NEW k \in DOMAIN s
  PROVE  /\ RemoveAt(s, k) \in Seq(S)
         /\ Len(RemoveAt(s, k)) = Len(s) - 1
         /\ \A i \in 1 .. Len(s) - 1 :
              RemoveAt(s, k)[i] = IF i < k THEN s[i] ELSE s[i + 1]
<1> DEFINE front == SubSeq(s, 1, k - 1)
           back  == SubSeq(s, k + 1, Len(s))
<1>1. Len(s) \in Nat /\ k \in 1 .. Len(s) /\ \A i \in 1 .. Len(s) : s[i] \in S
  OBVIOUS
<1>2. /\ front \in Seq(S) /\ Len(front) = k - 1
      /\ \A i \in 1 .. k - 1 : front[i] = s[i]
  BY <1>1, SubSeqProperties, Z3
<1>3. /\ back \in Seq(S) /\ Len(back) = Len(s) - k
      /\ \A i \in 1 .. Len(s) - k : back[i] = s[k + i]
  BY <1>1, SubSeqProperties, Z3
<1> HIDE DEF front, back
<1>4. /\ front \o back \in Seq(S)
      /\ Len(front \o back) = Len(front) + Len(back)
      /\ \A i \in 1 .. Len(front) + Len(back) :
           (front \o back)[i] = IF i <= Len(front) THEN front[i] ELSE back[i - Len(front)]
  BY <1>2, <1>3
<1>5. \A i \in 1 .. Len(s) - 1 : (front \o back)[i] = IF i < k THEN s[i] ELSE s[i + 1]
  <2> TAKE i \in 1 .. Len(s) - 1
  <2>1. CASE i < k
    BY SMTT(30), <1>1, <1>2, <1>3, <1>4, <2>1
  <2>2. CASE ~(i < k)
    <3>1. i - (k - 1) \in 1 .. Len(s) - k /\ k + (i - (k - 1)) = i + 1
      BY <1>1, <2>2
    <3>2. /\ i \in 1 .. Len(front) + Len(back) /\ ~(i <= Len(front))
          /\ Len(front) = k - 1
      BY <1>1, <1>2, <1>3, <2>2
    <3>3. QED
      BY <1>3, <1>4, <2>2, <3>1, <3>2
  <2>3. QED
    BY <2>1, <2>2
<1>6. RemoveAt(s, k) = front \o back
  BY DEF RemoveAt, front, back
<1>7. QED
  BY SMTT(30), <1>1, <1>2, <1>3, <1>4, <1>5, <1>6

(* Front leaves out what comes last.                                       *)
LEMMA FrontProperties ==
  ASSUME NEW S, NEW s \in Seq(S), s # <<>>
  PROVE  /\ Front(s) \in Seq(S)
         /\ Len(Front(s)) = Len(s) - 1
         /\ \A i \in 1 .. Len(s) - 1 : Front(s)[i] = s[i]
<1> DEFINE k == Len(s)
           front == SubSeq(s, 1, k - 1)
<1>1. Len(s) \in Nat /\ k \in 1 .. Len(s) /\ \A i \in 1 .. Len(s) : s[i] \in S
  OBVIOUS
<1> HIDE DEF k
<1>2. /\ front \in Seq(S) /\ Len(front) = k - 1
      /\ \A i \in 1 .. k - 1 : front[i] = s[i]
  BY <1>1, SubSeqProperties, Z3
<1>3. QED
  BY <1>2 DEF Front, k

(* RemoveFirst takes one place out, a place of what it is to take out.     *)
LEMMA RemoveFirstIsRemoveAt ==
  ASSUME NEW S, NEW s \in Seq(S), NEW e \in ToSet(s)
  PROVE  \E k \in DOMAIN s : s[k] = e /\ RemoveFirst(s, e) = RemoveAt(s, k)
<1> DEFINE places == {i \in 1 .. Len(s) : s[i] = e}
<1>1. places \in SUBSET Nat /\ places # {}
  BY DEF ToSet
<1>2. Min(places) \in places
  BY <1>1, MinIsLeast
<1>3. \E i \in 1 .. Len(s) : s[i] = e
  BY <1>1
<1> DEFINE Place == IF places # {} THEN Min(places) ELSE 0
<1>4. RemoveFirst(s, e) = RemoveAt(s, Place)
  BY <1>3, Zenon DEF RemoveFirst, SelectInSeq
<1>5. Place = Min(places)
  BY <1>1
<1>6. QED
  BY <1>2, <1>4, <1>5

(* Of a sequence without repetitions, RemoveAt takes one element out.      *)
LEMMA RemoveAtSet ==
  ASSUME NEW S, NEW s \in Seq(S), Distinct(s), NEW k \in DOMAIN s
  PROVE  /\ Distinct(RemoveAt(s, k))
         /\ ToSet(RemoveAt(s, k)) = ToSet(s) \ {s[k]}
<1> DEFINE r == RemoveAt(s, k)
<1>1. /\ DOMAIN s = 1 .. Len(s) /\ DOMAIN r = 1 .. Len(s) - 1 /\ Len(s) \in Nat
      /\ \A i \in 1 .. Len(s) - 1 : r[i] = IF i < k THEN s[i] ELSE s[i + 1]
  BY RemoveAtProperties
<1> HIDE DEF r
<1>2. Distinct(r)
  BY <1>1 DEF Distinct
<1>3. ASSUME NEW i \in DOMAIN r PROVE r[i] \in ToSet(s) \ {s[k]}
  BY <1>1 DEF Distinct, ToSet
<1>4. ASSUME NEW j \in DOMAIN s, j # k PROVE \E i \in DOMAIN r : r[i] = s[j]
  <2>1. CASE j < k
    BY <1>1, <2>1
  <2>2. CASE j > k
    <3>1. j - 1 \in 1 .. Len(s) - 1 /\ ~(j - 1 < k) /\ (j - 1) + 1 = j
      BY <1>1, <2>2
    <3>2. QED
      BY <1>1, <3>1
  <2>3. QED
    BY <1>1, <1>4, <2>1, <2>2
<1>5. QED
  BY <1>2, <1>3, <1>4 DEF ToSet, r

(* Append puts one element in, and repeats none if that one is new.        *)
LEMMA AppendSet ==
  ASSUME NEW S, NEW s \in Seq(S), NEW e \in S
  PROVE  /\ ToSet(Append(s, e)) = ToSet(s) \cup {e}
         /\ Distinct(s) /\ e \notin ToSet(s) => Distinct(Append(s, e))
<1> DEFINE r == Append(s, e)
<1>1. /\ DOMAIN s = 1 .. Len(s) /\ DOMAIN r = 1 .. Len(s) + 1 /\ Len(s) \in Nat
      /\ \A i \in 1 .. Len(s) : r[i] = s[i]
      /\ r[Len(s) + 1] = e
  OBVIOUS
<1> HIDE DEF r
<1>2. QED
  BY <1>1 DEF ToSet, Distinct, r

(* What is in a concatenation is in one of its parts ...                   *)
LEMMA ConcatSet ==
  ASSUME NEW S, NEW s \in Seq(S), NEW t \in Seq(S)
  PROVE  s \o t \in Seq(S) /\ ToSet(s \o t) = ToSet(s) \cup ToSet(t)
<1> DEFINE r == s \o t
<1>1. /\ DOMAIN s = 1 .. Len(s) /\ DOMAIN t = 1 .. Len(t)
      /\ DOMAIN r = 1 .. Len(s) + Len(t) /\ Len(s) \in Nat /\ Len(t) \in Nat
      /\ \A i \in 1 .. Len(s) + Len(t) : r[i] = IF i <= Len(s) THEN s[i] ELSE t[i - Len(s)]
      /\ r \in Seq(S)
  OBVIOUS
<1> HIDE DEF r
<1>2. ASSUME NEW i \in DOMAIN r PROVE r[i] \in ToSet(s) \cup ToSet(t)
  <2>1. CASE i <= Len(s)
    BY <1>1, <2>1 DEF ToSet
  <2>2. CASE ~(i <= Len(s))
    <3>1. i - Len(s) \in DOMAIN t
      BY <1>1, <2>2
    <3>2. QED
      BY <1>1, <2>2, <3>1 DEF ToSet
  <2>3. QED
    BY <2>1, <2>2
<1>3. ASSUME NEW i \in DOMAIN s PROVE \E j \in DOMAIN r : r[j] = s[i]
  BY <1>1
<1>4. ASSUME NEW i \in DOMAIN t PROVE \E j \in DOMAIN r : r[j] = t[i]
  <2>1. i + Len(s) \in DOMAIN r /\ ~(i + Len(s) <= Len(s)) /\ (i + Len(s)) - Len(s) = i
    BY <1>1
  <2>2. QED
    BY <1>1, <2>1
<1>5. QED
  BY SMTT(30), <1>1, <1>2, <1>3, <1>4 DEF ToSet, r

(* ... or in one of three.                                                 *)
LEMMA ConcatThreeSet ==
  ASSUME NEW S, NEW s \in Seq(S), NEW t \in Seq(S), NEW u \in Seq(S)
  PROVE  /\ (s \o t) \o u \in Seq(S)
         /\ ToSet((s \o t) \o u) = (ToSet(s) \cup ToSet(t)) \cup ToSet(u)
<1> DEFINE r == s \o t
<1>1. r \in Seq(S) /\ ToSet(r) = ToSet(s) \cup ToSet(t)
  BY ConcatSet
<1> HIDE DEF r
<1>2. r \o u \in Seq(S) /\ ToSet(r \o u) = ToSet(r) \cup ToSet(u)
  BY <1>1, ConcatSet
<1>3. QED
  BY <1>1, <1>2 DEF r

(* A sequence over S has elements of S.                                    *)
LEMMA SetOfSeq ==
  ASSUME NEW S, NEW s \in Seq(S)
  PROVE  ToSet(s) \subseteq S
  BY DEF ToSet

(* A sequence over S is one over what S is part of.                        *)
LEMMA SeqOfMore ==
  ASSUME NEW S, NEW T, S \in SUBSET T, NEW s \in Seq(S)
  PROVE  s \in Seq(T)
<1>1. Len(s) \in Nat /\ s = [k \in 1 .. Len(s) |-> s[k]] /\ \A k \in 1 .. Len(s) : s[k] \in S
  OBVIOUS
<1>2. s \in [1 .. Len(s) -> T]
  BY <1>1
<1>3. QED
  BY <1>1, <1>2

(* Sequences of no element and of one.                                     *)
LEMMA SingleSet ==
  ASSUME NEW S, NEW x \in S
  PROVE  /\ <<>> \in Seq(S) /\ ToSet(<<>>) = {}
         /\ <<x>> \in Seq(S) /\ ToSet(<<x>>) = {x}
  BY DEF ToSet

----------------------------------------------------------------------------
(* Sequences that grow from 0 by at least one.                             *)
Grows(g, n) ==
  /\ \A i \in 1 .. n + 1 : g[i] \in Nat
  /\ g[1] = 0 /\ \A i \in 1 .. n : g[i] < g[i + 1]

LEMMA GrowsFurther ==
  ASSUME NEW n \in Nat, NEW g, Grows(g, n), NEW i \in 1 .. n + 1, NEW j \in 1 .. n + 1, i < j
  PROVE  g[i] < g[j]
<1> DEFINE S == {k \in 0 .. n : \A h \in 1 .. k : g[h] < g[k + 1]}
<1>1. 0 \in S
  OBVIOUS
<1>2. ASSUME NEW k \in 0 .. n - 1, k \in S PROVE k + 1 \in S
  <2>1. k + 1 \in 1 .. n /\ k + 1 \in 0 .. n /\ (k + 1) + 1 \in 1 .. n + 1 /\ k + 1 \in 1 .. n + 1
    OBVIOUS
  <2>2. g[k + 1] < g[(k + 1) + 1] /\ g[k + 1] \in Nat /\ g[(k + 1) + 1] \in Nat
    BY <2>1 DEF Grows
  <2>3. ASSUME NEW h \in 1 .. k + 1 PROVE g[h] < g[(k + 1) + 1]
    <3>1. CASE h = k + 1
      BY <2>2, <3>1
    <3>2. CASE h # k + 1
      <4>1. h \in 1 .. k /\ h \in 1 .. n + 1
        BY <3>2
      <4>2. g[h] < g[k + 1] /\ g[h] \in Nat
        BY <1>2, <4>1 DEF Grows
      <4>3. QED
        BY <2>2, <4>2
    <3>3. QED
      BY <3>1, <3>2
  <2>4. QED
    BY <2>1, <2>3
<1>3. j - 1 \in S
  <2> HIDE DEF S
  <2>1. 0 .. n \subseteq S
    BY <1>1, <1>2, InductionUpTo
  <2>2. QED
    BY <2>1
<1>4. i \in 1 .. j - 1 /\ (j - 1) + 1 = j
  OBVIOUS
<1>5. QED
  BY <1>3, <1>4

(* What is beyond the first and not beyond the last is between two.        *)
LEMMA GrowsPast ==
  ASSUME NEW n \in Nat, NEW g, Grows(g, n), NEW o \in 1 .. g[n + 1]
  PROVE  \E i \in 1 .. n : g[i] < o /\ o <= g[i + 1]
<1> DEFINE S == {i \in 1 .. n + 1 : o <= g[i]}
<1>1. g[n + 1] \in Nat /\ n + 1 \in 1 .. n + 1 /\ o \in Nat \ {0}
  BY DEF Grows
<1>2. n + 1 \in S /\ S \in SUBSET Nat
  BY <1>1
<1>3. PICK m \in S : \A i \in S : m <= i
  BY <1>2, Least
<1>4. m # 1
  BY <1>1, <1>3 DEF Grows
<1>5. m - 1 \in 1 .. n /\ (m - 1) + 1 = m /\ m - 1 \notin S /\ m - 1 \in 1 .. n + 1
  BY <1>3, <1>4
<1>6. g[m - 1] \in Nat /\ o <= g[m]
  BY <1>3, <1>5 DEF Grows
<1>7. g[m - 1] < o
  BY <1>1, <1>5, <1>6
<1>8. QED
  BY <1>5, <1>6, <1>7

----------------------------------------------------------------------------
(* What FlattenSeq makes of a sequence of sequences.  The function it is   *)
(* defined by is recursive, and is the one that satisfies its equation.    *)

Flattened(ss, f) ==
  [i \in 1 .. Len(ss) |-> IF i = 1 THEN ss[i] ELSE f[i - 1] \o ss[i]]

Flattens(T, ss, f) == f \in [1 .. Len(ss) -> Seq(T)] /\ f = Flattened(ss, f)

LEMMA FlattenGrows ==
  ASSUME NEW T, NEW ss \in Seq(Seq(T)), NEW s \in Seq(T), NEW f, Flattens(T, ss, f)
  PROVE  \E g : /\ Flattens(T, Append(ss, s), g)
                /\ g[Len(ss) + 1] = IF ss = <<>> THEN s ELSE f[Len(ss)] \o s
<1> DEFINE n == Len(ss)
           t == Append(ss, s)
           last == IF n = 0 THEN s ELSE f[n] \o s
           g == [i \in 1 .. n + 1 |-> IF i = n + 1 THEN last ELSE f[i]]
<1>1. /\ n \in Nat /\ (ss = <<>> <=> n = 0) /\ Len(t) = n + 1 /\ t[n + 1] = s
      /\ \A i \in 1 .. n : t[i] = ss[i] /\ ss[i] \in Seq(T)
  OBVIOUS
<1> HIDE DEF t
<1>2. \A i \in 1 .. n : f[i] \in Seq(T) /\ f[i] = IF i = 1 THEN ss[i] ELSE f[i - 1] \o ss[i]
  BY DEF Flattens, Flattened
<1>3. last \in Seq(T)
  <2>1. CASE n = 0
    BY <2>1
  <2>2. CASE n # 0
    <3>1. f[n] \in Seq(T)
      BY <1>1, <1>2, <2>2
    <3>2. f[n] \o s \in Seq(T)
      BY <3>1
    <3>3. QED
      BY <2>2, <3>2
  <2>3. QED
    BY <2>1, <2>2
<1>4. g \in [1 .. Len(t) -> Seq(T)] /\ g[n + 1] = last /\ \A i \in 1 .. n : g[i] = f[i]
  BY <1>1, <1>2, <1>3
<1> HIDE DEF g
<1>5. ASSUME NEW i \in 1 .. n + 1 PROVE g[i] = IF i = 1 THEN t[i] ELSE g[i - 1] \o t[i]
  <2>1. CASE i = n + 1
    <3>1. CASE n = 0
      BY <1>1, <1>4, <2>1, <3>1
    <3>2. CASE n # 0
      <4>1. i - 1 = n /\ n \in 1 .. n /\ i # 1
        BY <1>1, <2>1, <3>2
      <4>2. g[i] = f[n] \o s /\ g[i - 1] = f[n] /\ t[i] = s
        BY <1>1, <1>4, <2>1, <3>2, <4>1
      <4>3. QED
        BY <4>1, <4>2
    <3>3. QED
      BY <3>1, <3>2
  <2>2. CASE i # n + 1
    <3>1. i \in 1 .. n /\ (i # 1 => i - 1 \in 1 .. n)
      BY <1>1, <2>2
    <3>2. QED
      BY <1>1, <1>2, <1>4, <3>1
  <2>3. QED
    BY <2>1, <2>2
<1>6. g = Flattened(t, g)
  BY <1>1, <1>4, <1>5 DEF Flattened
<1>7. QED
  BY <1>1, <1>4, <1>6 DEF Flattens, t

LEMMA FlattensExist ==
  ASSUME NEW T, NEW ss \in Seq(Seq(T))
  PROVE  \E f : Flattens(T, ss, f)
<1> DEFINE S == {k \in Nat : \A t \in Seq(Seq(T)) : Len(t) = k => \E f : Flattens(T, t, f)}
<1>1. 0 \in S
  <2> SUFFICES ASSUME NEW t \in Seq(Seq(T)), Len(t) = 0 PROVE \E f : Flattens(T, t, f)
    OBVIOUS
  <2>1. Flattens(T, t, <<>>)
    BY DEF Flattens, Flattened
  <2>2. QED
    BY <2>1
<1>2. ASSUME NEW k \in Nat, k \in S PROVE k + 1 \in S
  <2> SUFFICES ASSUME NEW t \in Seq(Seq(T)), Len(t) = k + 1 PROVE \E f : Flattens(T, t, f)
    OBVIOUS
  <2>1. PICK r \in Seq(Seq(T)), e \in Seq(T) : t = Append(r, e)
    <3>1. t # <<>>
      BY <1>2
    <3>2. QED
      BY <3>1, SequenceEmptyOrAppend
  <2>2. Len(r) = k
    BY <1>2, <2>1
  <2>3. PICK f : Flattens(T, r, f)
    BY <1>2, <2>2
  <2>4. QED
    BY <2>1, <2>3, FlattenGrows
<1>3. Len(ss) \in S
  <2> DEFINE m == Len(ss)
  <2> HIDE DEF S
  <2>1. m \in Nat
    OBVIOUS
  <2> HIDE DEF m
  <2>2. \A k \in 0 .. m - 1 : k \in S => k + 1 \in S
    BY <1>2, <2>1
  <2>3. 0 .. m \subseteq S
    BY <1>1, <2>1, <2>2, InductionUpTo
  <2>4. QED
    BY <2>1, <2>3 DEF m
<1>4. QED
  BY <1>3

LEMMA FlattenIsLast ==
  ASSUME NEW T, NEW ss \in Seq(Seq(T)), NEW f, Flattens(T, ss, f), ss # <<>>
  PROVE  FlattenSeq(ss) = f[Len(ss)] /\ f[Len(ss)] \in Seq(T)
<1> DEFINE n == Len(ss)
           flatten == CHOOSE g : g = Flattened(ss, g)
           S == {k \in 0 .. n : k # 0 => flatten[k] = f[k]}
<1>1. n \in Nat /\ n # 0
  OBVIOUS
<1>2. f = Flattened(ss, f)
  BY DEF Flattens
<1>3. flatten = Flattened(ss, flatten)
  BY <1>2, Zenon
<1> HIDE DEF flatten
<1>4. 0 \in S
  BY <1>1
<1>5. ASSUME NEW k \in 0 .. n - 1, k \in S PROVE k + 1 \in S
  <2>1. k + 1 \in 1 .. n /\ (k + 1) - 1 = k
    BY <1>1
  <2>2. Flattened(ss, flatten)[k + 1] = Flattened(ss, f)[k + 1]
    BY <1>1, <1>5, <2>1 DEF Flattened
  <2>3. QED
    BY <1>1, <1>2, <1>3, <2>1, <2>2
<1>6. n \in S
  <2> HIDE DEF S
  <2>1. 0 .. n \subseteq S
    BY <1>1, <1>4, <1>5, InductionUpTo
  <2>2. QED
    BY <1>1, <2>1
<1>7. flatten[n] = f[n] /\ f[n] \in Seq(T)
  BY <1>1, <1>6 DEF Flattens
<1>8. FlattenSeq(ss) = flatten[n]
  BY <1>1 DEF FlattenSeq, flatten, Flattened
<1>9. QED
  BY <1>7, <1>8

LEMMA FlattenProperties ==
  ASSUME NEW T, NEW ss \in Seq(Seq(T)), NEW s \in Seq(T)
  PROVE  /\ FlattenSeq(ss) \in Seq(T)
         /\ FlattenSeq(Append(ss, s)) = FlattenSeq(ss) \o s
<1>1. PICK f : Flattens(T, ss, f)
  BY FlattensExist
<1>2. PICK g : /\ Flattens(T, Append(ss, s), g)
               /\ g[Len(ss) + 1] = IF ss = <<>> THEN s ELSE f[Len(ss)] \o s
  BY <1>1, FlattenGrows
<1>3. Append(ss, s) \in Seq(Seq(T)) /\ Append(ss, s) # <<>> /\ Len(Append(ss, s)) = Len(ss) + 1
  BY AppendProperties
<1>4. FlattenSeq(Append(ss, s)) = g[Len(ss) + 1]
  BY <1>2, <1>3, FlattenIsLast
<1>5. CASE ss = <<>>
  <2>1. FlattenSeq(ss) = <<>>
    BY <1>5 DEF FlattenSeq
  <2>2. <<>> \in Seq(T) /\ <<>> \o s = s
    OBVIOUS
  <2>3. QED
    BY <1>2, <1>4, <1>5, <2>1, <2>2
<1>6. CASE ss # <<>>
  BY <1>1, <1>2, <1>4, <1>6, FlattenIsLast
<1>7. QED
  BY <1>5, <1>6

LEMMA FlattenOfNothing == FlattenSeq(<<>>) = <<>>
  BY DEF FlattenSeq

Places(ss, f) == [i \in 1 .. Len(ss) + 1 |-> IF i = 1 THEN 0 ELSE Len(f[i - 1])]

(* Each part of a sequence of sequences is in it, from its place on.       *)
LEMMA FlattenPlaces ==
  ASSUME NEW T, NEW ss \in Seq(Seq(T)), ss # <<>>, NEW f, Flattens(T, ss, f)
  PROVE  LET g == Places(ss, f)
         IN  /\ FlattenSeq(ss) \in Seq(T) /\ Len(FlattenSeq(ss)) = g[Len(ss) + 1]
             /\ \A i \in 1 .. Len(ss) : g[i] \in Nat /\ g[i + 1] = g[i] + Len(ss[i])
             /\ \A i \in 1 .. Len(ss) : \A o \in 1 .. Len(ss[i]) :
                  FlattenSeq(ss)[g[i] + o] = ss[i][o]
<1> DEFINE n == Len(ss)
           g == Places(ss, f)
           S == {k \in 0 .. n - 1 :
                  \A i \in 1 .. k + 1 : \A o \in 1 .. Len(ss[i]) :
                    g[i] + o \in 1 .. Len(f[k + 1]) /\ f[k + 1][g[i] + o] = ss[i][o]}
<1>1. n \in Nat \ {0} /\ \A i \in 1 .. n : ss[i] \in Seq(T) /\ Len(ss[i]) \in Nat
  OBVIOUS
<1>2. \A i \in 1 .. n : /\ f[i] \in Seq(T) /\ Len(f[i]) \in Nat
                        /\ f[i] = IF i = 1 THEN ss[i] ELSE f[i - 1] \o ss[i]
  <2>1. f \in [1 .. n -> Seq(T)]
    BY DEF Flattens
  <2>2. f = Flattened(ss, f)
    BY DEF Flattens
  <2>3. \A i \in 1 .. n : Flattened(ss, f)[i] = IF i = 1 THEN ss[i] ELSE f[i - 1] \o ss[i]
    BY DEF Flattened
  <2> HIDE DEF n
  <2>4. QED
    <3> TAKE i \in 1 .. n
    <3>1. f[i] \in Seq(T)
      BY <2>1
    <3>2. Len(f[i]) \in Nat
      BY <3>1, LenProperties
    <3>3. f[i] = Flattened(ss, f)[i]
      BY <2>2
    <3>4. QED
      BY <2>3, <3>1, <3>2, <3>3
<1>3. g[1] = 0 /\ \A i \in 1 .. n : g[i + 1] = Len(f[i])
  <2>0. g = [i \in 1 .. n + 1 |-> IF i = 1 THEN 0 ELSE Len(f[i - 1])]
    BY DEF Places
  <2> HIDE DEF n, g
  <2>1. \A i \in 1 .. n : i + 1 \in 1 .. n + 1 /\ i + 1 # 1 /\ (i + 1) - 1 = i
    BY <1>1
  <2>2. 1 \in 1 .. n + 1
    BY <1>1
  <2>3. QED
    BY <2>0, <2>1, <2>2
<1> HIDE DEF n, g
<1>4. \A i \in 1 .. n : g[i] \in Nat /\ g[i + 1] = g[i] + Len(ss[i])
  <2> TAKE i \in 1 .. n
  <2>1. CASE i = 1
    BY <1>1, <1>2, <1>3, <2>1
  <2>2. CASE i # 1
    <3>1. i - 1 \in 1 .. n /\ (i - 1) + 1 = i
      BY <1>1, <2>2
    <3>2. g[i] = Len(f[i - 1]) /\ f[i - 1] \in Seq(T) /\ f[i] = f[i - 1] \o ss[i]
      BY <1>2, <1>3, <2>2, <3>1
    <3>3. Len(f[i - 1] \o ss[i]) = Len(f[i - 1]) + Len(ss[i])
      BY <1>1, <3>2
    <3>4. QED
      BY <1>2, <1>3, <3>1, <3>2, <3>3
  <2>3. QED
    BY <2>1, <2>2
<1>5. 0 \in S
  <2>1. f[1] = ss[1] /\ 1 \in 1 .. n
    BY <1>1, <1>2
  <2>2. \A o \in 1 .. Len(ss[1]) : g[1] + o = o
    BY <1>1, <1>3
  <2>3. \A i \in 1 .. 0 + 1 : i = 1
    OBVIOUS
  <2>4. QED
    BY <1>1, <2>1, <2>2, <2>3
<1>6. ASSUME NEW k \in 0 .. (n - 1) - 1, k \in S PROVE k + 1 \in S
  <2> DEFINE j == k + 1
  <2>1. j \in 1 .. n - 1 /\ j \in 0 .. n - 1 /\ j + 1 \in 1 .. n /\ j \in 1 .. n /\ j + 1 # 1 /\ (j + 1) - 1 = j
    BY <1>1
  <2>2. f[j + 1] = f[j] \o ss[j + 1] /\ f[j] \in Seq(T) /\ ss[j + 1] \in Seq(T)
    BY <1>1, <1>2, <2>1
  <2>3. g[j + 1] = Len(f[j]) /\ Len(f[j]) \in Nat /\ Len(ss[j + 1]) \in Nat
    BY <1>1, <1>2, <1>3, <2>1
  <2> HIDE DEF j
  <2>4. /\ Len(f[j + 1]) = Len(f[j]) + Len(ss[j + 1])
        /\ \A p \in 1 .. Len(f[j]) : f[j + 1][p] = f[j][p]
        /\ \A o \in 1 .. Len(ss[j + 1]) : f[j + 1][Len(f[j]) + o] = ss[j + 1][o]
    <3> DEFINE a == f[j]
               b == ss[j + 1]
    <3> HIDE DEF a, b
    <3>1. a \in Seq(T) /\ b \in Seq(T)
      BY <2>2 DEF a, b
    <3>2. /\ Len(a \o b) = Len(a) + Len(b)
          /\ \A p \in 1 .. Len(a) : (a \o b)[p] = a[p]
          /\ \A o \in 1 .. Len(b) : (a \o b)[Len(a) + o] = b[o]
      BY <3>1
    <3>3. QED
      BY <2>2, <3>2 DEF a, b
  <2>7. /\ \A p \in 1 .. Len(f[j]) : p \in 1 .. Len(f[j + 1])
        /\ \A o \in 1 .. Len(ss[j + 1]) : Len(f[j]) + o \in 1 .. Len(f[j + 1])
    <3> DEFINE a == Len(f[j])
               b == Len(ss[j + 1])
               c == Len(f[j + 1])
    <3>1. a \in Nat /\ b \in Nat /\ c = a + b
      BY <2>3, <2>4
    <3> HIDE DEF a, b, c
    <3>2. (\A p \in 1 .. a : p \in 1 .. c) /\ (\A o \in 1 .. b : a + o \in 1 .. c)
      BY <3>1
    <3>3. QED
      BY <3>2 DEF a, b, c
  <2>5. ASSUME NEW i \in 1 .. j + 1, NEW o \in 1 .. Len(ss[i])
        PROVE  g[i] + o \in 1 .. Len(f[j + 1]) /\ f[j + 1][g[i] + o] = ss[i][o]
    <3>1. CASE i = j + 1
      <4>1. o \in 1 .. Len(ss[j + 1]) /\ g[i] = Len(f[j])
        BY <2>3, <3>1
      <4>2. Len(f[j]) + o \in 1 .. Len(f[j + 1])
        BY <2>3, <2>7, <4>1
      <4>3. f[j + 1][Len(f[j]) + o] = ss[j + 1][o]
        BY <2>4, <4>1
      <4>4. QED
        BY <3>1, <4>1, <4>2, <4>3
    <3>2. CASE i # j + 1
      <4>1. i \in 1 .. j
        BY <2>1, <3>2
      <4>2. g[i] + o \in 1 .. Len(f[j]) /\ f[j][g[i] + o] = ss[i][o]
        BY <1>6, <4>1 DEF j
      <4> DEFINE p == g[i] + o
      <4> HIDE DEF p
      <4>3. p \in 1 .. Len(f[j]) /\ f[j][p] = ss[i][o]
        BY <4>2 DEF p
      <4>4. p \in 1 .. Len(f[j + 1])
        BY <2>7, <4>3
      <4>5. f[j + 1][p] = f[j][p]
        BY <2>4, <4>3
      <4>6. QED
        BY <4>3, <4>4, <4>5 DEF p
    <3>3. QED
      BY <3>1, <3>2
  <2>6. QED
    BY <2>1, <2>5 DEF j
<1>7. n - 1 \in S
  <2> HIDE DEF S
  <2>1. n - 1 \in Nat
    BY <1>1
  <2>2. 0 .. n - 1 \subseteq S
    BY <1>5, <1>6, <2>1, InductionUpTo
  <2>3. QED
    BY <2>1, <2>2
<1>8. FlattenSeq(ss) = f[n] /\ f[n] \in Seq(T)
  BY FlattenIsLast DEF n
<1>9. Len(f[n]) = g[n + 1]
  <2>1. n \in 1 .. n
    BY <1>1
  <2>2. QED
    BY <1>3, <2>1
<1>10. ASSUME NEW i \in 1 .. n, NEW o \in 1 .. Len(ss[i]) PROVE f[n][g[i] + o] = ss[i][o]
  <2> DEFINE m == n - 1
  <2>1. m + 1 = n
    BY <1>1
  <2>2. \A j \in 1 .. m + 1 : \A p \in 1 .. Len(ss[j]) : f[m + 1][g[j] + p] = ss[j][p]
    BY <1>7
  <2> HIDE DEF m
  <2>3. QED
    BY <2>1, <2>2
<1>11. \A i \in 1 .. n : \A o \in 1 .. Len(ss[i]) : FlattenSeq(ss)[g[i] + o] = ss[i][o]
  BY <1>8, <1>10
<1>12. FlattenSeq(ss) \in Seq(T) /\ Len(FlattenSeq(ss)) = g[n + 1]
  BY <1>8, <1>9
<1>13. QED
  BY <1>4, <1>11, <1>12 DEF n, g

----------------------------------------------------------------------------
(* Sets in order                                                           *)

StrictlyOrders(R, S) ==
  /\ \A x \in S : <<x, x>> \notin R
  /\ \A x, y, z \in S : <<x, y>> \in R /\ <<y, z>> \in R => <<x, z>> \in R
  /\ \A x, y \in S : x # y => <<x, y>> \in R \/ <<y, x>> \in R

Rank(R, S, x) == Cardinality({y \in S : <<y, x>> \in R})

Sorted(R, S) == [k \in 1 .. Cardinality(S) |-> CHOOSE x \in S : Rank(R, S, x) = k - 1]

(* Each place is that of one member, and they come in their order.         *)
LEMMA RanksAreTaken ==
  ASSUME NEW S, IsFiniteSet(S), NEW R, StrictlyOrders(R, S)
  PROVE  /\ \A x, y \in S : <<x, y>> \in R => Rank(R, S, x) < Rank(R, S, y)
         /\ \A x \in S : Rank(R, S, x) \in 0 .. Cardinality(S) - 1
         /\ \A k \in 0 .. Cardinality(S) - 1 : \E x \in S : Rank(R, S, x) = k
<1> DEFINE B(x) == {y \in S : <<y, x>> \in R}
           n == Cardinality(S)
           f == [x \in S |-> Rank(R, S, x)]
<1>1. n \in Nat /\ \A x \in S : IsFiniteSet(B(x)) /\ Cardinality(B(x)) \in Nat
  BY FS_CardinalityType, FS_Subset
<1>2. ASSUME NEW x \in S, NEW y \in S, <<x, y>> \in R PROVE Rank(R, S, x) < Rank(R, S, y)
  <2>1. x \notin B(x) /\ B(x) \cup {x} \in SUBSET B(y)
    BY <1>2 DEF StrictlyOrders
  <2>2. Cardinality(B(x) \cup {x}) = Cardinality(B(x)) + 1
    BY <1>1, <2>1, FS_AddElement
  <2>3. Cardinality(B(x) \cup {x}) <= Cardinality(B(y))
    BY <1>1, <2>1, FS_Subset
  <2>4. Rank(R, S, x) = Cardinality(B(x)) /\ Rank(R, S, y) = Cardinality(B(y))
    BY DEF Rank
  <2> HIDE DEF B
  <2>5. Cardinality(B(x)) \in Nat /\ Cardinality(B(y)) \in Nat
    BY <1>1
  <2>6. QED
    BY <2>2, <2>3, <2>4, <2>5
<1>3. ASSUME NEW x \in S PROVE Rank(R, S, x) \in 0 .. n - 1
  <2>1. B(x) \in SUBSET (S \ {x})
    BY DEF StrictlyOrders
  <2>2. IsFiniteSet(S \ {x}) /\ Cardinality(S \ {x}) = n - 1
    BY FS_RemoveElement
  <2>3. Cardinality(B(x)) <= n - 1
    <3>1. Cardinality(B(x)) <= Cardinality(S \ {x})
      BY <2>1, <2>2, FS_Subset
    <3>2. QED
      BY <2>2, <3>1
  <2>4. Rank(R, S, x) = Cardinality(B(x))
    BY DEF Rank
  <2> HIDE DEF B, n
  <2>5. QED
    BY <1>1, <2>3, <2>4
<1>4. f \in Injection(S, 0 .. n - 1)
  <2>1. ASSUME NEW x \in S, NEW y \in S, f[x] = f[y], x # y PROVE FALSE
    <3>1. f[x] \in Nat /\ f[y] \in Nat
      BY <1>3
    <3>2. f[x] < f[y] \/ f[y] < f[x]
      BY <1>2, <2>1 DEF StrictlyOrders
    <3> HIDE DEF f
    <3>3. QED
      BY <2>1, <3>1, <3>2
  <2>2. f \in [S -> 0 .. n - 1]
    BY <1>3
  <2>3. QED
    BY <2>1, <2>2 DEF Injection, IsInjective
<1>5. IsFiniteSet(0 .. n - 1) /\ Cardinality(0 .. n - 1) = n
  <2> HIDE DEF n
  <2>1. 0 \in Int /\ n - 1 \in Int /\ (n - 1) - 0 + 1 = n /\ (0 > n - 1 => n = 0)
    BY <1>1
  <2>2. QED
    BY <2>1, FS_Interval
<1>6. f \in Surjection(S, 0 .. n - 1)
  BY <1>4, <1>5, FS_Injection
<1>7. \A k \in 0 .. n - 1 : \E x \in S : f[x] = k
  BY <1>6 DEF Surjection
<1>8. QED
  BY <1>2, <1>3, <1>7

(* ... so that the sequence of them has each once, in their order.         *)
LEMMA SortedProperties ==
  ASSUME NEW S, IsFiniteSet(S), NEW R, StrictlyOrders(R, S)
  PROVE  LET s == Sorted(R, S)
         IN  /\ s \in Seq(S) /\ Len(s) = Cardinality(S)
             /\ \A x \in S : \E k \in DOMAIN s : s[k] = x
             /\ \A j, k \in DOMAIN s : j < k => <<s[j], s[k]>> \in R
<1> DEFINE n == Cardinality(S)
           s == Sorted(R, S)
<1>1. n \in Nat
  BY FS_CardinalityType
<1>2. /\ DOMAIN s = 1 .. n /\ s = [k \in 1 .. n |-> s[k]]
      /\ \A k \in 1 .. n : s[k] \in S /\ Rank(R, S, s[k]) = k - 1
  <2>1. \A k \in 1 .. n : k - 1 \in 0 .. n - 1
    BY <1>1
  <2>2. \A k \in 1 .. n : \E x \in S : Rank(R, S, x) = k - 1
    BY <2>1, RanksAreTaken
  <2>3. QED
    BY <2>2 DEF Sorted
<1> HIDE DEF s
<1>3. s \in Seq(S) /\ Len(s) = n
  <2> HIDE DEF n
  <2>1. s \in [1 .. n -> S]
    BY <1>2
  <2>2. QED
    BY <1>1, <2>1
<1>4. ASSUME NEW x \in S, NEW y \in S, Rank(R, S, x) = Rank(R, S, y) PROVE x = y
  <2>1. Rank(R, S, x) \in Int
    BY RanksAreTaken
  <2>2. ~(Rank(R, S, x) < Rank(R, S, y)) /\ ~(Rank(R, S, y) < Rank(R, S, x))
    BY <1>4, <2>1
  <2>3. <<x, y>> \notin R /\ <<y, x>> \notin R
    BY <2>2, RanksAreTaken
  <2>4. QED
    BY <2>3 DEF StrictlyOrders
<1>5. ASSUME NEW x \in S PROVE \E k \in DOMAIN s : s[k] = x
  <2> DEFINE k == Rank(R, S, x) + 1
  <2>1. Rank(R, S, x) \in 0 .. n - 1
    BY RanksAreTaken
  <2> HIDE DEF n
  <2>2. k \in 1 .. n /\ k - 1 = Rank(R, S, x)
    BY <1>1, <2>1
  <2>3. s[k] \in S /\ Rank(R, S, s[k]) = Rank(R, S, x)
    BY <1>2, <2>2
  <2>4. QED
    BY <1>2, <1>4, <2>2, <2>3
<1>6. ASSUME NEW j \in DOMAIN s, NEW k \in DOMAIN s, j < k PROVE <<s[j], s[k]>> \in R
  <2>1. s[j] \in S /\ s[k] \in S /\ Rank(R, S, s[j]) = j - 1 /\ Rank(R, S, s[k]) = k - 1
    BY <1>2, <1>6
  <2>2. j \in Int /\ k \in Int
    BY <1>1, <1>2
  <2>3. ~(Rank(R, S, s[k]) < Rank(R, S, s[j])) /\ Rank(R, S, s[j]) # Rank(R, S, s[k])
    BY <1>6, <2>1, <2>2
  <2>4. <<s[k], s[j]>> \notin R
    BY <2>1, <2>3, RanksAreTaken
  <2>5. s[j] # s[k]
    BY <2>3
  <2>6. QED
    BY <2>1, <2>4, <2>5 DEF StrictlyOrders
<1>7. QED
  BY <1>3, <1>5, <1>6 DEF s, n

=============================================================================
