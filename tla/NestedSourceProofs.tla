------------------------- MODULE NestedSourceProofs -------------------------
(***************************************************************************)
(* NestedSource, for any tasks, archives, members and uris.                *)
(*                                                                         *)
(* A member is asked for, and the member that is its container, and so on, *)
(* each under its lock.  What the uris are made of plays no part in it,    *)
(* but that a uri leads to the member that it is the uri of (UrisName).    *)
(* That it does, and that a walk which counts the containers it has        *)
(* entered agrees with a read that counts the segments of a uri, follows   *)
(* from how uris are put together (UrisJoined).                            *)
(***************************************************************************)
EXTENDS NestedSource, SequenceLemmas, FiniteSetTheorems

----------------------------------------------------------------------------
(* Uris: what join_uri puts together, split_uri takes apart, for words of  *)
(* any length, whatever characters are in them.                            *)
(*                                                                         *)
(* The scan is a recursive function, that of its LET: it is the one that   *)
(* satisfies its equation (Scan), by induction on the length of the word.  *)

Chars == STRING \cup {Separator, Escape}
Words == Seq(Chars)

LEMMA Marks == Separator \in Chars /\ Escape \in Chars /\ Separator # Escape
<1>1. Separator # Escape
  BY DEF Separator, Escape
<1>2. QED
  BY <1>1 DEF Chars

LEMMA WordsConcat ==
  ASSUME NEW a \in Words, NEW b \in Words
  PROVE  a \o b \in Words
  BY DEF Words

LEMMA FlattenWords ==
  ASSUME NEW ss \in Seq(Words), NEW s \in Words
  PROVE  /\ FlattenSeq(ss) \in Words
         /\ FlattenSeq(Append(ss, s)) = FlattenSeq(ss) \o s
  BY FlattenProperties DEF Words

LEMMA WordsAssociate ==
  ASSUME NEW a \in Words, NEW b \in Words, NEW c \in Words
  PROVE  (a \o b) \o c = a \o (b \o c)
  BY ConcatAssociative DEF Words

(* One character, on what follows it.                                      *)
Grown(c, segments) == <<<<c>> \o Head(segments)>> \o Tail(segments)

(* What the scan makes of w from each place on: the equation of SplitUri.  *)
Scan(w, f) ==
  [i \in 1 .. Len(w) + 1 |->
     CASE i > Len(w) -> <<<<>>>>
       [] i < Len(w) /\ w[i] = Escape -> Grown(w[i + 1], f[i + 2])
       [] i <= Len(w) /\ w[i] = Separator -> <<<<>>>> \o f[i + 1]
       [] OTHER -> Grown(w[i], f[i + 1])]

Segmented == Seq(Words) \ {<<>>}

Scans(w, f) == f \in [1 .. Len(w) + 1 -> Segmented] /\ f = Scan(w, f)

LEMMA GrownType ==
  ASSUME NEW c \in Chars, NEW s \in Segmented
  PROVE  /\ Grown(c, s) \in Segmented
         /\ Head(Grown(c, s)) = <<c>> \o Head(s) /\ Tail(Grown(c, s)) = Tail(s)
<1> DEFINE h == <<c>> \o Head(s)
           r == Tail(s)
<1>1. Head(s) \in Words /\ r \in Seq(Words)
  BY HeadTailProperties DEF Segmented
<1>2. h \in Words
  BY <1>1 DEF Words
<1> HIDE DEF h, r
<1>3. <<h>> \o r \in Seq(Words) /\ <<h>> \o r # <<>>
      /\ Head(<<h>> \o r) = h /\ Tail(<<h>> \o r) = r
  BY <1>1, <1>2
<1>4. QED
  BY <1>3 DEF Grown, Segmented, h, r

LEMMA MarkType ==
  ASSUME NEW s \in Segmented
  PROVE  /\ <<<<>>>> \o s \in Segmented
         /\ Head(<<<<>>>> \o s) = <<>> /\ Tail(<<<<>>>> \o s) = s
<1> DEFINE h == <<>>
<1>1. h \in Words
  BY DEF Words
<1> HIDE DEF h
<1>2. <<h>> \o s \in Seq(Words) /\ <<h>> \o s # <<>>
      /\ Head(<<h>> \o s) = h /\ Tail(<<h>> \o s) = s
  BY <1>1 DEF Segmented
<1>3. QED
  BY <1>2 DEF Segmented, h

(* One more character in front: the rest is scanned as before.             *)
First(c, w, f) ==
  IF w # <<>> /\ c = Escape THEN Grown(w[1], f[2])
  ELSE IF c = Separator THEN <<<<>>>> \o f[1] ELSE Grown(c, f[1])

LEMMA ScanCons ==
  ASSUME NEW c \in Chars, NEW w \in Words, NEW f, Scans(w, f)
  PROVE  \E g : /\ Scans(<<c>> \o w, g) /\ g[1] = First(c, w, f)
                /\ \A i \in 1 .. Len(w) + 1 : g[i + 1] = f[i]
<1> DEFINE n == Len(w)
           v == <<c>> \o w
           first == First(c, w, f)
           g == [i \in 1 .. n + 2 |-> IF i = 1 THEN first ELSE f[i - 1]]
<1>1. /\ n \in Nat /\ (w # <<>> <=> 1 < n + 1) /\ v \in Words /\ Len(v) = n + 1 /\ v[1] = c
      /\ \A i \in 1 .. n : v[i + 1] = w[i] /\ w[i] \in Chars
      /\ \A i \in 2 .. n + 1 : v[i] = w[i - 1]
  BY DEF Words
<1> HIDE DEF v
<1>2. \A i \in 1 .. n + 1 : f[i] \in Segmented
  BY DEF Scans
<1>3. first \in Segmented
  <2>1. CASE w # <<>> /\ c = Escape
    <3>1. w[1] \in Chars /\ f[2] \in Segmented
      BY <1>1, <1>2, <2>1
    <3>2. first = Grown(w[1], f[2])
      BY <2>1 DEF First
    <3>3. QED
      BY <3>1, <3>2, GrownType
  <2>2. CASE ~(w # <<>> /\ c = Escape)
    <3>1. f[1] \in Segmented
      BY <1>1, <1>2
    <3>2. first = <<<<>>>> \o f[1] \/ first = Grown(c, f[1])
      BY <2>2 DEF First
    <3>3. QED
      BY <3>1, <3>2, GrownType, MarkType
  <2>3. QED
    BY <2>1, <2>2
<1> HIDE DEF first
<1>4. g \in [1 .. Len(v) + 1 -> Segmented]
  BY <1>1, <1>2, <1>3
<1>5. /\ g[1] = first /\ \A i \in 1 .. n + 1 : g[i + 1] = f[i]
      /\ \A i \in 2 .. n + 2 : g[i] = f[i - 1]
  BY <1>1
<1>6. DOMAIN g = 1 .. Len(v) + 1
  BY <1>1
<1> HIDE DEF g
<1>7. Scan(v, g)[1] = g[1]
  <2>1. 1 <= Len(v) /\ ~(1 > Len(v)) /\ (1 < Len(v) <=> 1 < n + 1) /\ v[1] = c /\ 1 \in 1 .. Len(v) + 1
    BY <1>1
  <2>2. g[2] = f[1] /\ (1 < n + 1 => g[3] = f[2] /\ v[2] = w[1])
    BY <1>1, <1>5
  <2>3. Scan(v, g)[1] = CASE 1 < n + 1 /\ c = Escape -> Grown(v[2], g[3])
                          [] c = Separator -> <<<<>>>> \o g[2]
                          [] OTHER -> Grown(c, g[2])
    BY <2>1 DEF Scan
  <2>4. QED
    BY <1>1, <1>5, <2>2, <2>3, Marks DEF First, first
<1>8. ASSUME NEW i \in 2 .. n + 2 PROVE Scan(v, g)[i] = g[i]
  <2>1. i - 1 \in 1 .. n + 1 /\ g[i] = f[i - 1]
    BY <1>1, <1>5
  <2>2. f[i - 1] = Scan(w, f)[i - 1]
    BY DEF Scans
  <2>3. /\ i > Len(v) <=> i - 1 > n
        /\ i < Len(v) <=> i - 1 < n
        /\ i <= Len(v) <=> i - 1 <= n
        /\ i \in 1 .. Len(v) + 1
    BY <1>1
  <2>4. i - 1 <= n => v[i] = w[i - 1] /\ g[i + 1] = f[(i - 1) + 1]
    BY <1>1, <1>5
  <2>5. i - 1 < n => v[i + 1] = w[(i - 1) + 1] /\ g[i + 2] = f[(i - 1) + 2]
    BY <1>1, <1>5
  <2>6. i - 1 > n \/ i - 1 <= n
    BY <1>1
  <2>7. Scan(v, g)[i] = CASE i - 1 > n -> <<<<>>>>
                          [] i - 1 < n /\ v[i] = Escape -> Grown(v[i + 1], g[i + 2])
                          [] i - 1 <= n /\ v[i] = Separator -> <<<<>>>> \o g[i + 1]
                          [] OTHER -> Grown(v[i], g[i + 1])
    BY <2>3 DEF Scan
  <2>8. Scan(w, f)[i - 1] = CASE i - 1 > n -> <<<<>>>>
                          [] i - 1 < n /\ w[i - 1] = Escape -> Grown(w[(i - 1) + 1], f[(i - 1) + 2])
                          [] i - 1 <= n /\ w[i - 1] = Separator -> <<<<>>>> \o f[(i - 1) + 1]
                          [] OTHER -> Grown(w[i - 1], f[(i - 1) + 1])
    BY <2>1 DEF Scan
  <2>9. CASE i - 1 > n
    BY <2>1, <2>2, <2>7, <2>8, <2>9
  <2>10. CASE i - 1 <= n
    <3>1. ~(i - 1 > n) /\ i - 1 \in Nat
      BY <1>1, <2>10
    <3>2. CASE i - 1 < n
      BY <2>1, <2>2, <2>4, <2>5, <2>7, <2>8, <2>10, <3>1, <3>2
    <3>3. CASE ~(i - 1 < n)
      BY <2>1, <2>2, <2>4, <2>7, <2>8, <2>10, <3>1, <3>3
    <3>4. QED
      BY <3>2, <3>3
  <2>11. QED
    BY <2>6, <2>9, <2>10
<1>9. g = Scan(v, g)
  <2>1. DOMAIN Scan(v, g) = 1 .. Len(v) + 1 /\ Scan(v, g) = [i \in 1 .. Len(v) + 1 |-> Scan(v, g)[i]]
    BY DEF Scan
  <2>2. \A i \in 1 .. Len(v) + 1 : i = 1 \/ i \in 2 .. n + 2
    BY <1>1
  <2>3. \A i \in 1 .. Len(v) + 1 : Scan(v, g)[i] = g[i]
    BY <1>7, <1>8, <2>2
  <2>4. QED
    BY <1>4, <2>1, <2>3
<1>10. QED
  BY <1>4, <1>5, <1>9 DEF Scans, v, first

(* Every word is scanned in one way, and SplitUri says which.              *)
LEMMA ScansExist ==
  ASSUME NEW w \in Words
  PROVE  \E f : Scans(w, f)
<1> DEFINE S == {k \in Nat : \A v \in Words : Len(v) = k => \E f : Scans(v, f)}
<1>1. 0 \in S
  <2> SUFFICES ASSUME NEW v \in Words, Len(v) = 0 PROVE \E f : Scans(v, f)
    OBVIOUS
  <2> DEFINE f == [i \in 1 .. 1 |-> <<<<>>>>]
  <2>1. <<<<>>>> \in Segmented
    BY DEF Segmented, Words
  <2>2. f \in [1 .. 1 -> Segmented]
    BY <2>1
  <2>3. Scan(v, f) = f
    BY DEF Scan
  <2>4. Scans(v, f)
    BY <2>2, <2>3 DEF Scans
  <2>5. QED
    BY <2>4
<1>2. ASSUME NEW k \in Nat, k \in S PROVE k + 1 \in S
  <2> SUFFICES ASSUME NEW v \in Words, Len(v) = k + 1 PROVE \E f : Scans(v, f)
    OBVIOUS
  <2> DEFINE c == Head(v)
             w1 == Tail(v)
  <2>1. c \in Chars /\ w1 \in Words /\ Len(w1) = k /\ v = <<c>> \o w1
    <3>1. v # <<>> /\ v \in Seq(Chars)
      BY <1>2 DEF Words
    <3>2. c \in Chars /\ w1 \in Seq(Chars) /\ Len(w1) = k
          /\ c = v[1] /\ \A i \in 1 .. k : w1[i] = v[i + 1]
      BY <3>1, HeadTailProperties
    <3> HIDE DEF c, w1
    <3> DEFINE t == <<c>> \o w1
    <3>3. t \in Seq(Chars) /\ Len(t) = k + 1 /\ t[1] = c
          /\ \A i \in 2 .. k + 1 : t[i] = w1[i - 1]
      BY <3>2
    <3> HIDE DEF t
    <3>4. \A i \in 1 .. k + 1 : v[i] = t[i]
      <4>1. \A i \in 2 .. k + 1 : i - 1 \in 1 .. k /\ (i - 1) + 1 = i
        OBVIOUS
      <4>2. \A i \in 2 .. k + 1 : v[i] = t[i]
        BY <3>2, <3>3, <4>1
      <4>3. QED
        BY <3>2, <3>3, <4>2
    <3>5. v = t
      BY <3>1, <3>3, <3>4, SeqEqual
    <3>6. QED
      BY <3>2, <3>5 DEF Words, t
  <2> HIDE DEF c, w1
  <2>2. PICK f : Scans(w1, f)
    BY <1>2, <2>1
  <2>3. QED
    BY <2>1, <2>2, ScanCons
<1>3. Len(w) \in S
  <2> HIDE DEF S
  <2>1. Len(w) \in Nat
    BY DEF Words
  <2>2. 0 .. Len(w) \subseteq S
    BY <1>1, <1>2, <2>1, InductionUpTo
  <2>3. QED
    BY <2>1, <2>2
<1>4. QED
  BY <1>3

LEMMA SplitIsScan ==
  ASSUME NEW w \in Words, NEW f, Scans(w, f)
  PROVE  SplitUri(w) = f[1] /\ f[1] \in Segmented
<1> DEFINE n == Len(w)
           split == CHOOSE g : g = Scan(w, g)
           S == {k \in Nat : \A i \in 1 .. n + 1 : n + 1 - k <= i => split[i] = f[i]}
<1>1. n \in Nat
  BY DEF Words
<1>2. f = Scan(w, f)
  BY DEF Scans
<1>3. split = Scan(w, split)
  BY <1>2, Zenon
<1> HIDE DEF split
<1>4. 0 \in S
  <2>1. ASSUME NEW i \in 1 .. n + 1, n + 1 - 0 <= i PROVE split[i] = f[i]
    <3>1. i > Len(w)
      BY <1>1, <2>1
    <3>2. Scan(w, split)[i] = <<<<>>>> /\ Scan(w, f)[i] = <<<<>>>>
      BY <3>1 DEF Scan
    <3>3. QED
      BY <1>2, <1>3, <3>2
  <2>2. QED
    BY <2>1
<1>5. ASSUME NEW k \in 0 .. n - 1, k \in S PROVE k + 1 \in S
  <2>1. ASSUME NEW i \in 1 .. n + 1, n + 1 - (k + 1) <= i PROVE split[i] = f[i]
    <3>1. CASE n + 1 - k <= i
      BY <1>5, <3>1
    <3>2. CASE ~(n + 1 - k <= i)
      <4>1. i = n - k /\ i \in Nat
        BY <1>1, <2>1, <3>2
      <4>2. i + 1 \in 1 .. n + 1 /\ n + 1 - k <= i + 1 /\ (i < n => i + 2 \in 1 .. n + 1)
            /\ n + 1 - k <= i + 2
        BY <1>1, <4>1
      <4>3. split[i + 1] = f[i + 1] /\ (i < n => split[i + 2] = f[i + 2])
        BY <1>5, <4>2
      <4>4. Scan(w, split)[i] = Scan(w, f)[i]
        BY <4>3 DEF Scan
      <4>5. QED
        BY <1>2, <1>3, <4>4
    <3>3. QED
      BY <3>1, <3>2
  <2>2. k + 1 \in Nat
    OBVIOUS
  <2>3. QED
    BY <2>1, <2>2
<1>6. n \in S
  <2> HIDE DEF S
  <2>1. 0 .. n \subseteq S
    BY <1>1, <1>4, <1>5, InductionUpTo
  <2>2. QED
    BY <1>1, <2>1
<1>7. split[1] = f[1]
  BY <1>1, <1>6
<1>8. SplitUri(w) = split[1]
  BY DEF SplitUri, split, Scan, Grown
<1>9. QED
  BY <1>1, <1>7, <1>8 DEF Scans

LEMMA SplitType ==
  ASSUME NEW w \in Words
  PROVE  SplitUri(w) \in Segmented
  BY ScansExist, SplitIsScan

LEMMA SplitOfNothing == SplitUri(<<>>) = <<<<>>>>
<1> DEFINE w == <<>>
<1>1. w \in Words /\ Len(w) = 0
  BY DEF Words
<1> HIDE DEF w
<1>2. PICK f : Scans(w, f)
  BY <1>1, ScansExist
<1>3. f[1] = Scan(w, f)[1] /\ Scan(w, f)[1] = <<<<>>>>
  BY <1>1, <1>2 DEF Scans, Scan
<1>4. SplitUri(w) = <<<<>>>>
  BY <1>1, <1>2, <1>3, SplitIsScan
<1>5. QED
  BY <1>4 DEF w

LEMMA SplitCons ==
  ASSUME NEW c \in Chars, NEW w \in Words, c # Escape \/ w = <<>>
  PROVE  SplitUri(<<c>> \o w) =
           IF c = Separator THEN <<<<>>>> \o SplitUri(w) ELSE Grown(c, SplitUri(w))
<1>1. PICK f : Scans(w, f)
  BY ScansExist
<1>2. PICK g : Scans(<<c>> \o w, g) /\ g[1] = First(c, w, f)
  BY <1>1, ScanCons
<1>3. <<c>> \o w \in Words
  BY DEF Words
<1>4. SplitUri(w) = f[1] /\ SplitUri(<<c>> \o w) = g[1]
  BY <1>1, <1>2, <1>3, SplitIsScan
<1>5. QED
  BY <1>2, <1>4 DEF First

LEMMA SplitEscaped ==
  ASSUME NEW c \in Chars, NEW w \in Words
  PROVE  SplitUri(<<Escape>> \o (<<c>> \o w)) = Grown(c, SplitUri(w))
<1> DEFINE v == <<c>> \o w
<1>1. PICK f : Scans(w, f)
  BY ScansExist
<1>2. /\ v \in Words /\ v # <<>> /\ v[1] = c /\ 1 \in 1 .. Len(w) + 1 /\ 1 + 1 = 2
      /\ Escape \in Chars
  <2>1. /\ v \in Words /\ v # <<>> /\ v[1] = c /\ Len(w) \in Nat
    BY DEF Words
  <2>2. QED
    BY <2>1, Marks
<1>3. PICK g : Scans(v, g) /\ g[2] = f[1]
  BY <1>1, <1>2, ScanCons
<1> HIDE DEF v
<1>4. PICK h : Scans(<<Escape>> \o v, h) /\ h[1] = First(Escape, v, g)
  BY <1>2, <1>3, ScanCons
<1>5. <<Escape>> \o v \in Words
  BY <1>2 DEF Words
<1>6. SplitUri(w) = f[1] /\ SplitUri(<<Escape>> \o v) = h[1]
  BY <1>1, <1>4, <1>5, SplitIsScan
<1>7. QED
  BY <1>2, <1>3, <1>4, <1>6 DEF First, v

----------------------------------------------------------------------------
(* What is joined comes apart the same                                     *)

Marked(c) == IF c \in {Separator, Escape} THEN <<Escape, c>> ELSE <<c>>

LEMMA EscapedProperties ==
  ASSUME NEW s \in Words, NEW c \in Chars
  PROVE  /\ Escaped(<<>>) = <<>>
         /\ Escaped(s) \in Words
         /\ Marked(c) \in Words
         /\ Escaped(Append(s, c)) = Escaped(s) \o Marked(c)
<1> DEFINE Each(w) == [i \in DOMAIN w |-> Marked(w[i])]
<1>1. \A w : Escaped(w) = FlattenSeq(Each(w))
  BY DEF Escaped, Marked
<1>2. \A x \in Chars : Marked(x) \in Words
  BY Marks DEF Marked, Words
<1>3. Each(s) \in Seq(Words)
  <2>1. DOMAIN s = 1 .. Len(s) /\ Len(s) \in Nat /\ \A i \in 1 .. Len(s) : s[i] \in Chars
    BY DEF Words
  <2>2. \A i \in 1 .. Len(s) : Marked(s[i]) \in Words
    BY <1>2, <2>1
  <2>3. QED
    BY <2>1, <2>2
<1>4. Each(Append(s, c)) = Append(Each(s), Marked(c))
  <2> DEFINE t == Append(s, c)
             r == Append(Each(s), Marked(c))
  <2>1. DOMAIN t = 1 .. Len(s) + 1 /\ Len(s) \in Nat /\ t[Len(s) + 1] = c
        /\ \A i \in 1 .. Len(s) : t[i] = s[i]
    BY DEF Words
  <2>2. Len(Each(s)) = Len(s) /\ DOMAIN Each(s) = 1 .. Len(s)
        /\ \A i \in 1 .. Len(s) : Each(s)[i] = Marked(s[i])
    BY DEF Words
  <2> HIDE DEF t, Each
  <2>3. Marked(c) \in Words
    BY <1>2
  <2>4. r \in Seq(Words) /\ Len(r) = Len(s) + 1 /\ r[Len(s) + 1] = Marked(c)
        /\ \A i \in 1 .. Len(s) : r[i] = Each(s)[i]
    BY <1>3, <2>2, <2>3, AppendProperties
  <2> HIDE DEF r
  <2>5. DOMAIN r = 1 .. Len(s) + 1 /\ r = [i \in 1 .. Len(s) + 1 |-> r[i]]
    BY <2>1, <2>4
  <2>6. Each(t) = [i \in 1 .. Len(s) + 1 |-> Marked(t[i])]
    BY <2>1 DEF Each
  <2>7. \A i \in 1 .. Len(s) + 1 : r[i] = Marked(t[i])
    BY <2>1, <2>2, <2>4
  <2>8. Each(t) = r
    BY <2>5, <2>6, <2>7
  <2>9. QED
    BY <2>8 DEF t, r
<1>5. Each(<<>>) = <<>>
  OBVIOUS
<1> HIDE DEF Each
<1>6. QED
  BY <1>1, <1>2, <1>3, <1>4, <1>5, FlattenWords, FlattenOfNothing

(* What stands in front of a word is split off as it was before it was     *)
(* escaped.                                                                *)
LEMMA SplitOfEscaped ==
  ASSUME NEW s \in Words, NEW w \in Words
  PROVE  /\ Escaped(s) \o w \in Words
         /\ SplitUri(Escaped(s) \o w) = <<s \o Head(SplitUri(w))>> \o Tail(SplitUri(w))
<1> DEFINE Good(v) == \A x \in Words :
             SplitUri(Escaped(v) \o x) = <<v \o Head(SplitUri(x))>> \o Tail(SplitUri(x))
           S == {k \in Nat : \A v \in Words : Len(v) = k => Good(v)}
<1>1. 0 \in S
  <2> SUFFICES ASSUME NEW v \in Words, Len(v) = 0, NEW x \in Words
               PROVE  SplitUri(Escaped(v) \o x) = <<v \o Head(SplitUri(x))>> \o Tail(SplitUri(x))
    OBVIOUS
  <2>1. v = <<>>
    BY DEF Words
  <2>2. Escaped(v) = <<>>
    BY <2>1, Marks, EscapedProperties
  <2> DEFINE y == SplitUri(x)
  <2>3. y \in Seq(Words) /\ y # <<>>
    BY SplitType DEF Segmented
  <2> HIDE DEF y
  <2>4. <<>> \o x = x
    BY DEF Words
  <2>5. Head(y) \in Words
    BY <2>3
  <2>6. <<>> \o Head(y) = Head(y)
    BY <2>5 DEF Words
  <2>7. <<Head(y)>> \o Tail(y) = y
    BY <2>3
  <2>8. QED
    BY <2>1, <2>2, <2>4, <2>6, <2>7 DEF y
<1>2. ASSUME NEW k \in Nat, k \in S PROVE k + 1 \in S
  <2> SUFFICES ASSUME NEW v \in Words, Len(v) = k + 1, NEW x \in Words
               PROVE  SplitUri(Escaped(v) \o x) = <<v \o Head(SplitUri(x))>> \o Tail(SplitUri(x))
    OBVIOUS
  <2>1. PICK r \in Words, c \in Chars : v = Append(r, c)
    <3>1. v # <<>> /\ v \in Seq(Chars)
      BY <1>2 DEF Words
    <3>2. QED
      BY <3>1, SequenceEmptyOrAppend DEF Words
  <2>2. Len(r) = k
    BY <1>2, <2>1 DEF Words
  <2> DEFINE z == Marked(c) \o x
             y == SplitUri(x)
  <2>3. Marked(c) \in Words /\ Escaped(r) \in Words /\ Escaped(v) = Escaped(r) \o Marked(c)
    BY <2>1, EscapedProperties
  <2>4. z \in Words /\ Escaped(v) \o x = Escaped(r) \o z
    BY SMTT(30), <2>3, ConcatAssociative DEF Words
  <2>5. y \in Segmented
    BY SplitType
  <2>6. SplitUri(z) = Grown(c, y)
    <3>1. CASE c \in {Separator, Escape}
      <4>1. Marked(c) = <<Escape, c>>
        BY <3>1 DEF Marked
      <4>2. <<Escape, c>> \o x = <<Escape>> \o (<<c>> \o x)
        BY Marks DEF Words
      <4>3. QED
        BY <4>1, <4>2, SplitEscaped
    <3>2. CASE c \notin {Separator, Escape}
      BY <3>2, SplitCons DEF Marked
    <3>3. QED
      BY <3>1, <3>2
  <2>7. SplitUri(Escaped(r) \o z) = <<r \o Head(SplitUri(z))>> \o Tail(SplitUri(z))
    BY <1>2, <2>2, <2>4
  <2>8. Head(SplitUri(z)) = <<c>> \o Head(y) /\ Tail(SplitUri(z)) = Tail(y)
    BY <2>5, <2>6, GrownType
  <2> HIDE DEF y, z
  <2>9. r \o (<<c>> \o Head(y)) = v \o Head(y)
    <3>1. Head(y) \in Words
      BY <2>5 DEF Segmented
    <3>2. <<c>> \in Words /\ v = r \o <<c>>
      BY <2>1, AppendIsConcat DEF Words
    <3> DEFINE h == Head(y)
               d == <<c>>
    <3>3. h \in Words /\ d \in Words
      BY <3>1, <3>2
    <3> HIDE DEF h, d
    <3>4. (r \o d) \o h = r \o (d \o h)
      BY <3>3, WordsAssociate
    <3>5. QED
      BY <3>2, <3>4 DEF h, d
  <2>10. QED
    BY <2>4, <2>7, <2>8, <2>9 DEF y
<1>3. Len(s) \in S
  <2> HIDE DEF S
  <2>1. Len(s) \in Nat
    BY DEF Words
  <2>2. 0 .. Len(s) \subseteq S
    BY <1>1, <1>2, <2>1, InductionUpTo
  <2>3. QED
    BY <2>1, <2>2
<1>4. Escaped(s) \o w \in Words
  BY Marks, EscapedProperties DEF Words
<1>5. QED
  BY <1>3, <1>4

Joint(segs, i) == (IF i = 1 THEN <<>> ELSE <<Separator>>) \o Escaped(segs[i])

LEMMA JoinProperties ==
  ASSUME NEW ss \in Seq(Words), NEW s \in Words
  PROVE  /\ JoinUri(ss) \in Words
         /\ ss = <<>> => JoinUri(Append(ss, s)) = Escaped(s)
         /\ ss # <<>> => JoinUri(Append(ss, s)) = JoinUri(ss) \o (<<Separator>> \o Escaped(s))
<1> DEFINE Each(w) == [i \in DOMAIN w |-> Joint(w, i)]
           t == Append(ss, s)
           n == Len(ss)
<1>1. \A w : JoinUri(w) = FlattenSeq(Each(w))
  BY DEF JoinUri, Joint
<1>2. /\ n \in Nat /\ DOMAIN ss = 1 .. n /\ DOMAIN t = 1 .. n + 1 /\ t[n + 1] = s
      /\ \A i \in 1 .. n : t[i] = ss[i] /\ ss[i] \in Words
  OBVIOUS
<1>3. \A x \in Words : Escaped(x) \in Words /\ <<Separator>> \o Escaped(x) \in Words
                       /\ <<>> \o Escaped(x) = Escaped(x)
  BY Marks, EscapedProperties DEF Words
<1> HIDE DEF t
<1>4. Joint(t, n + 1) \in Words /\ \A i \in 1 .. n : Joint(ss, i) \in Words /\ Joint(t, i) = Joint(ss, i)
  BY <1>2, <1>3 DEF Joint
<1>5. Each(ss) \in Seq(Words) /\ Len(Each(ss)) = n
      /\ \A i \in 1 .. n : Each(ss)[i] = Joint(ss, i)
  BY <1>2, <1>4
<1>6. Each(t) = Append(Each(ss), Joint(t, n + 1))
  <2> DEFINE e == Each(ss)
             r == Append(e, Joint(t, n + 1))
  <2> HIDE DEF e
  <2>1. e \in Seq(Words) /\ Len(e) = n /\ \A i \in 1 .. n : e[i] = Joint(ss, i)
    BY <1>5 DEF e
  <2>2. r \in Seq(Words) /\ Len(r) = n + 1 /\ r[n + 1] = Joint(t, n + 1)
        /\ \A i \in 1 .. n : r[i] = e[i]
    BY <1>4, <2>1, AppendProperties
  <2> HIDE DEF r
  <2>3. r = [i \in 1 .. n + 1 |-> r[i]]
    BY <1>2, <2>2
  <2>4. \A i \in 1 .. n + 1 : r[i] = Joint(t, i)
    BY <1>2, <1>4, <2>1, <2>2
  <2>5. Each(t) = r
    BY <1>2, <2>3, <2>4
  <2>6. QED
    BY <2>5 DEF r, e
<1>7. ss = <<>> => Joint(t, n + 1) = Escaped(s)
  BY <1>2, <1>3 DEF Joint
<1>8. ss # <<>> => Joint(t, n + 1) = <<Separator>> \o Escaped(s)
  <2>1. ss # <<>> => n + 1 # 1
    BY <1>2
  <2>2. QED
    BY <1>2, <2>1 DEF Joint
<1> HIDE DEF Each
<1>9. FlattenSeq(Each(ss)) \in Words /\ FlattenSeq(Each(t)) = FlattenSeq(Each(ss)) \o Joint(t, n + 1)
  BY <1>4, <1>5, <1>6, FlattenWords
<1>10. ss = <<>> => FlattenSeq(Each(ss)) = <<>>
  <2>1. ss = <<>> => Each(ss) = <<>>
    BY <1>5
  <2>2. QED
    BY <2>1, FlattenOfNothing
<1>11. ss = <<>> => JoinUri(t) = Escaped(s)
  BY <1>1, <1>3, <1>7, <1>9, <1>10
<1>12. QED
  BY <1>1, <1>8, <1>9, <1>11 DEF t

LEMMA OneWord ==
  ASSUME NEW t \in Seq(Words), Len(t) = 1
  PROVE  t[1] \in Words /\ <<>> \in Seq(Words) /\ t = <<t[1]>>
  OBVIOUS

LEMMA SplitOfJoined ==
  ASSUME NEW ss \in Seq(Words), ss # <<>>, NEW w \in Words, Head(SplitUri(w)) = <<>>
  PROVE  SplitUri(JoinUri(ss) \o w) = ss \o Tail(SplitUri(w))
<1> DEFINE S == {k \in Nat : \A t \in Seq(Words) : Len(t) = k + 1 =>
                   \A x \in Words : Head(SplitUri(x)) = <<>> =>
                     SplitUri(JoinUri(t) \o x) = t \o Tail(SplitUri(x))}
<1>1. ASSUME NEW s \in Words, NEW x \in Words, Head(SplitUri(x)) = <<>>
      PROVE  /\ Escaped(s) \o x \in Words
             /\ SplitUri(Escaped(s) \o x) = <<s>> \o Tail(SplitUri(x))
  <2>1. s \o <<>> = s
    BY DEF Words
  <2>2. Escaped(s) \o x \in Words
        /\ SplitUri(Escaped(s) \o x) = <<s \o Head(SplitUri(x))>> \o Tail(SplitUri(x))
    BY SplitOfEscaped
  <2>3. QED
    BY <1>1, <2>1, <2>2
<1>2. 0 \in S
  <2> SUFFICES ASSUME NEW t \in Seq(Words), Len(t) = 1, NEW x \in Words, Head(SplitUri(x)) = <<>>
               PROVE  SplitUri(JoinUri(t) \o x) = t \o Tail(SplitUri(x))
    OBVIOUS
  <2>1. t[1] \in Words /\ <<>> \in Seq(Words) /\ t = <<t[1]>>
    BY OneWord
  <2>2. JoinUri(t) = Escaped(t[1])
    <3>1. Append(<<>>, t[1]) = <<t[1]>>
      OBVIOUS
    <3>2. QED
      BY <2>1, <3>1, JoinProperties
  <2>3. QED
    BY <1>1, <2>1, <2>2
<1>3. ASSUME NEW k \in Nat, k \in S PROVE k + 1 \in S
  <2> SUFFICES ASSUME NEW t \in Seq(Words), Len(t) = (k + 1) + 1,
                      NEW x \in Words, Head(SplitUri(x)) = <<>>
               PROVE  SplitUri(JoinUri(t) \o x) = t \o Tail(SplitUri(x))
    BY <1>3
  <2>1. PICK r \in Seq(Words), s \in Words : t = Append(r, s)
    <3>1. t # <<>>
      BY <1>3
    <3>2. QED
      BY <3>1, SequenceEmptyOrAppend
  <2>2. Len(r) = k + 1 /\ r # <<>>
    BY <1>3, <2>1
  <2> DEFINE y == Tail(SplitUri(x))
             m == Escaped(s) \o x
             v == <<Separator>> \o m
  <2>3. JoinUri(r) \in Words /\ JoinUri(t) = JoinUri(r) \o (<<Separator>> \o Escaped(s))
    BY <2>1, <2>2, JoinProperties
  <2>4. m \in Words /\ SplitUri(m) = <<s>> \o y
    BY <1>1
  <2>5. v \in Words /\ JoinUri(t) \o x = JoinUri(r) \o v
    <3> DEFINE p == <<Separator>>
               e == Escaped(s)
               j == JoinUri(r)
    <3>1. p \in Words /\ e \in Words /\ j \in Words
      BY <2>3, Marks, EscapedProperties DEF Words
    <3> HIDE DEF p, e, j
    <3>2. p \o e \in Words /\ e \o x \in Words /\ p \o (e \o x) \in Words
      BY <3>1, WordsConcat
    <3>3. (j \o (p \o e)) \o x = j \o ((p \o e) \o x) /\ (p \o e) \o x = p \o (e \o x)
      BY <3>1, <3>2, WordsConcat
    <3>4. QED
      BY <2>3, <3>2, <3>3 DEF p, e, j
  <2>6. SplitUri(v) = <<<<>>>> \o SplitUri(m)
    BY <2>4, Marks, SplitCons
  <2>7. Head(SplitUri(v)) = <<>> /\ Tail(SplitUri(v)) = <<s>> \o y
    BY <2>4, <2>6, SplitType, MarkType
  <2>8. SplitUri(JoinUri(r) \o v) = r \o Tail(SplitUri(v))
    BY <1>3, <2>2, <2>5, <2>7
  <2>9. r \o (<<s>> \o y) = t \o y
    <3>1. y \in Seq(Words)
      BY SplitType DEF Segmented
    <3> HIDE DEF y
    <3> DEFINE one == <<s>>
    <3>2. one \in Seq(Words) /\ t = r \o one
      BY <2>1, AppendIsConcat
    <3> HIDE DEF one
    <3>3. (r \o one) \o y = r \o (one \o y)
      BY <3>1, <3>2, ConcatAssociative
    <3>4. QED
      BY <3>2, <3>3 DEF one
  <2>10. QED
    BY <2>5, <2>7, <2>8, <2>9
<1>4. Len(ss) - 1 \in S
  <2> HIDE DEF S
  <2>1. Len(ss) - 1 \in Nat
    OBVIOUS
  <2>2. 0 .. Len(ss) - 1 \subseteq S
    BY <1>2, <1>3, <2>1, InductionUpTo
  <2>3. QED
    BY <2>1, <2>2
<1>5. QED
  BY <1>4

(* "The inverse of split_uri" (container_uri.py:80): whatever characters   *)
(* the names hold, what join_uri puts together split_uri takes apart.      *)
THEOREM RoundTrip ==
  ASSUME NEW ss \in Seq(Words), ss # <<>>
  PROVE  SplitUri(JoinUri(ss)) = ss
<1> DEFINE w == <<>>
<1>1. w \in Words /\ SplitUri(w) = <<w>>
  BY SplitOfNothing DEF Words
<1>2. Head(SplitUri(w)) = <<>> /\ Tail(SplitUri(w)) = <<>>
  <2>1. Head(<<w>>) = w /\ Tail(<<w>>) = <<>>
    OBVIOUS
  <2>2. QED
    BY <1>1, <2>1
<1>3. SplitUri(JoinUri(ss) \o w) = ss \o Tail(SplitUri(w))
  BY <1>1, <1>2, SplitOfJoined
<1>4. JoinUri(ss) \o w = JoinUri(ss) /\ ss \o <<>> = ss
  BY JoinProperties DEF Words
<1>5. QED
  BY <1>2, <1>3, <1>4

----------------------------------------------------------------------------
(* The chains of members that tasks are busy with                          *)

AtWork == {"lock", "fetch", "write"}

StackTypes ==
  /\ DOMAIN materialised = Members
  /\ holder \in [Members -> Tasks \cup {None}]
  /\ asked \in [Tasks -> {"path", "bytes", "walk", "nothing"}]
  /\ pc \in [Tasks -> AtWork \cup {"idle", "walk", "enter"}]
  /\ stack \in [Tasks -> Seq(Members)]
  /\ \A t \in Tasks : pc[t] \in AtWork <=> stack[t] # <<>>

(* The places in stack[t] whose locks it holds: not that of the member it  *)
(* waits for the lock of, nor that of one it only reads.                   *)
Held(t) ==
  {k \in 1 .. Len(stack[t]) : /\ pc[t] = "lock" => k # Len(stack[t])
                              /\ asked[t] = "bytes" => k # 1}

HoldsItsLocks(t) ==
  /\ \A k \in Held(t) : holder[stack[t][k]] = t
  /\ \A j, k \in Held(t) : stack[t][j] = stack[t][k] => j = k
  /\ pc[t] = "write" => Len(stack[t]) \in Held(t)

(* The lock of a member is kept from before it is looked up until it has   *)
(* its path: nobody else gives it one.                                     *)
LocksInv ==
  /\ StackTypes
  /\ \A u \in Members : holder[u] # None => materialised[u] = None
  /\ \A t \in Tasks : HoldsItsLocks(t)

(* A file is whole, or a cancelled task's write is at it or has failed.    *)
Explained(f) ==
  \/ disk[f] \in Members
  \/ /\ disk[f] = Torn
     /\ \/ f \in spoiled
        \/ \E w \in writes : w.by = None /\ w.at = "open" /\ w.file = f

Written == [by : Tasks \cup {None}, file : Files, data : Members, at : {"queue", "open", "cut"}]

(* Nothing is ever in a file but members of the name the file ends in, or  *)
(* parts of them; and what is in the file of a member is explained from    *)
(* before the member is said to have it.                                   *)
FilesInv ==
  /\ disk \in [Files -> Members \cup {Torn, None}]
  /\ target \in [Tasks -> Files \cup {None}]
  /\ writes \subseteq Written /\ spoiled \subseteq Files
  /\ \A f \in Files : disk[f] \in Members => Base[disk[f]] = f[2]
  /\ \A w \in writes :
       /\ Base[w.data] = w.file[2]
       /\ w.at # "queue" => disk[w.file] # None
       /\ w.by # None => /\ pc[w.by] = "write" /\ w.file = target[w.by]
                         /\ \A v \in writes : v.by = w.by => v = w
                         /\ w.at = "cut" => Explained(w.file)
  /\ \A t \in Tasks : pc[t] = "write" =>
       /\ target[t] \in Files /\ target[t][2] = Base[Last(stack[t])]
       /\ Explained(target[t]) \/ \E w \in writes : w.by = t
  /\ \A u \in Members : materialised[u] # None =>
       /\ materialised[u] \in Files /\ materialised[u][2] = Base[u]
       /\ Explained(materialised[u])

(* A step of t: it leaves what others hold alone.                          *)
StepOf(t) ==
  /\ \A o \in Tasks \ {t} : stack'[o] = stack[o] /\ pc'[o] = pc[o] /\ asked'[o] = asked[o]
  /\ \A u \in Members : holder'[u] # holder[u] => /\ holder[u] \in {None, t}
                                                 /\ holder'[u] \in {None, t}

----------------------------------------------------------------------------
(* Stacks                                                                  *)

LEMMA StackEnds ==
  ASSUME NEW s \in Seq(Members), s # <<>>
  PROVE  /\ Len(s) \in Nat \ {0} /\ Last(s) = s[Len(s)] /\ Last(s) \in Members
         /\ Front(s) \in Seq(Members) /\ Len(Front(s)) = Len(s) - 1
         /\ \A k \in 1 .. Len(s) - 1 : Front(s)[k] = s[k]
<1>1. Len(s) \in Nat \ {0}
  OBVIOUS
<1>2. Last(s) = s[Len(s)] /\ Last(s) \in Members
  BY <1>1 DEF Last
<1>3. QED
  BY <1>1, <1>2, FrontProperties

LEMMA StackGrows ==
  ASSUME NEW s \in Seq(Members), NEW c \in Members
  PROVE  /\ Append(s, c) \in Seq(Members) /\ Len(Append(s, c)) = Len(s) + 1
         /\ \A k \in 1 .. Len(s) : Append(s, c)[k] = s[k]
  OBVIOUS

LEMMA StepLocks ==
  ASSUME LocksInv, StackTypes', NEW t \in Tasks, StepOf(t), HoldsItsLocks(t)',
         \A u \in Members : holder'[u] # None => materialised'[u] = None
  PROVE  LocksInv'
<1>1. ASSUME NEW o \in Tasks, o # t PROVE HoldsItsLocks(o)'
  <2>1. Held(o)' = Held(o) /\ stack'[o] = stack[o] /\ pc'[o] = pc[o]
    BY <1>1 DEF StepOf, Held
  <2>2. ASSUME NEW k \in Held(o) PROVE holder'[stack[o][k]] = o
    <3>1. holder[stack[o][k]] = o /\ stack[o][k] \in Members
      BY <1>1 DEF LocksInv, StackTypes, HoldsItsLocks, Held
    <3>2. o # None
      BY NestedAssumption
    <3>3. QED
      BY <1>1, <3>1, <3>2 DEF StepOf
  <2>3. HoldsItsLocks(o)
    BY <1>1 DEF LocksInv
  <2>4. QED
    BY <2>1, <2>2, <2>3 DEF HoldsItsLocks
<1>2. QED
  BY <1>1 DEF LocksInv

(* What a task asked for is over.                                          *)
LEMMA RefusedLocks ==
  ASSUME LocksInv, UNCHANGED materialised, NEW t \in Tasks,
         NEW locks \in [Members -> Tasks \cup {None}], Refused(t, locks),
         \A u \in Members : locks[u] # holder[u] =>
           locks[u] = t /\ holder[u] = None /\ materialised[u] = None
  PROVE  LocksInv'
<1>1. /\ stack' = [stack EXCEPT ![t] = <<>>] /\ holder' = Unlocked(t, locks)
      /\ \/ pc' = [pc EXCEPT ![t] = "walk"] /\ asked' = asked
         \/ pc' = [pc EXCEPT ![t] = "idle"] /\ asked' = [asked EXCEPT ![t] = "nothing"]
  BY DEF Refused
<1>2. /\ DOMAIN holder' = Members
      /\ \A u \in Members : holder'[u] = IF locks[u] = t THEN None ELSE locks[u]
  BY <1>1 DEF Unlocked
<1>3. StackTypes'
  <2>1. holder' \in [Members -> Tasks \cup {None}]
    BY <1>1 DEF Unlocked
  <2>2. <<>> \in Seq(Members)
    OBVIOUS
  <2>3. QED
    BY <1>1, <2>1, <2>2 DEF LocksInv, StackTypes, AtWork
<1>4. StepOf(t)
  BY <1>1, <1>2 DEF StepOf, LocksInv, StackTypes
<1>5. HoldsItsLocks(t)'
  <2>1. stack'[t] = <<>> /\ pc'[t] # "write"
    BY <1>1 DEF LocksInv, StackTypes
  <2>2. Held(t)' = {}
    BY <2>1 DEF Held
  <2>3. QED
    BY <2>1, <2>2 DEF HoldsItsLocks
<1>6. \A u \in Members : holder'[u] # None => materialised'[u] = None
  BY <1>2 DEF LocksInv
<1>7. QED
  BY <1>3, <1>4, <1>5, <1>6, StepLocks

(* A task has the path of the last of its stack, and may have let go of it.*)
LEMMA ReturnedLocks ==
  ASSUME LocksInv, NEW t \in Tasks, pc[t] \in AtWork, Return(t),
         DOMAIN materialised' = Members, holder' \in [Members -> Tasks \cup {None}],
         \A u \in Members : holder'[u] # holder[u] => u = Last(stack[t]) /\ holder'[u] = None,
         holder' # holder => pc[t] = "write",
         \A u \in Members : holder'[u] # None => materialised'[u] = None
  PROVE  LocksInv'
<1> DEFINE s == stack[t]
<1>1. /\ s \in Seq(Members) /\ s # <<>> /\ Len(s) \in Nat \ {0} /\ Last(s) = s[Len(s)]
      /\ Front(s) \in Seq(Members) /\ Len(Front(s)) = Len(s) - 1
      /\ \A k \in 1 .. Len(s) - 1 : Front(s)[k] = s[k]
  BY StackEnds DEF LocksInv, StackTypes
<1>2. /\ stack' = [stack EXCEPT ![t] = Front(s)]
      /\ pc' \in [Tasks -> AtWork \cup {"idle", "walk", "enter"}]
      /\ pc'[t] \in {"fetch", "enter", "idle"}
      /\ pc'[t] = "fetch" <=> Front(s) # <<>>
      /\ \A o \in Tasks \ {t} : pc'[o] = pc[o]
      /\ asked' = asked \/ (asked' = [asked EXCEPT ![t] = "nothing"] /\ Front(s) = <<>>)
  BY DEF Return, LocksInv, StackTypes, AtWork
<1>3. StackTypes'
  BY <1>1, <1>2 DEF LocksInv, StackTypes, AtWork
<1>4. StepOf(t)
  <2>1. pc[t] = "write" => holder[Last(s)] = t
    BY <1>1 DEF LocksInv, HoldsItsLocks
  <2>2. QED
    BY <1>1, <1>2, <2>1 DEF StepOf, LocksInv, StackTypes
<1>5. HoldsItsLocks(t)'
  <2>1. stack'[t] = Front(s)
    BY <1>2 DEF LocksInv, StackTypes
  <2>2. ASSUME NEW k \in Held(t)' PROVE k \in Held(t) /\ k \in 1 .. Len(s) - 1 /\ stack'[t][k] = s[k]
    <3>1. k \in 1 .. Len(s) - 1
      BY <1>1, <2>1, <2>2 DEF Held
    <3>2. asked'[t] = asked[t]
      <4>1. Front(s) # <<>>
        BY <1>1, <3>1
      <4>2. QED
        BY <1>2, <4>1
    <3>3. QED
      BY <1>1, <2>1, <2>2, <3>1, <3>2 DEF Held
  <2>3. ASSUME NEW k \in Held(t)' PROVE holder'[stack'[t][k]] = t
    <3>1. k \in Held(t) /\ k \in 1 .. Len(s) - 1 /\ stack'[t][k] = s[k]
      BY <2>2
    <3>2. holder[s[k]] = t /\ s[k] \in Members
      BY <1>1, <3>1 DEF LocksInv, HoldsItsLocks
    <3>3. holder' # holder => s[k] # Last(s)
      BY <1>1, <3>1 DEF LocksInv, HoldsItsLocks
    <3>4. holder'[s[k]] = holder[s[k]]
      BY <3>2, <3>3
    <3>5. QED
      BY <3>1, <3>2, <3>4
  <2>4. pc'[t] # "write"
    BY <1>2
  <2>5. QED
    BY <2>2, <2>3, <2>4 DEF HoldsItsLocks, LocksInv
<1>6. QED
  BY <1>3, <1>4, <1>5, StepLocks

(* A task goes for the bytes of the last of its stack, or for the lock of  *)
(* what that lies in.                                                      *)
LEMMA ResolvedLocks ==
  ASSUME LocksInv, UNCHANGED materialised, NEW t \in Tasks, pc[t] = "lock",
         holder[Last(stack[t])] = None, materialised[Last(stack[t])] = None,
         Resolve(t, stack[t], [holder EXCEPT ![Last(stack[t])] = t])
  PROVE  LocksInv'
<1>0. None \notin Tasks
  BY NestedAssumption
<1> DEFINE s == stack[t]
           u == Last(s)
           locks == [holder EXCEPT ![u] = t]
<1>1. /\ s \in Seq(Members) /\ s # <<>> /\ Len(s) \in Nat \ {0}
      /\ u = s[Len(s)] /\ u \in Members
  BY StackEnds DEF LocksInv, StackTypes
<1>2. /\ locks \in [Members -> Tasks \cup {None}]
      /\ locks[u] = t /\ \A v \in Members \ {u} : locks[v] = holder[v]
      /\ holder[u] = None /\ materialised[u] = None
  BY <1>1 DEF LocksInv, StackTypes
<1> DEFINE deeper == Container[u] \in Members
           next == IF deeper THEN Append(s, Container[u]) ELSE s
<1>3. \/ Refused(t, locks)
      \/ /\ pc' = [pc EXCEPT ![t] = IF deeper THEN "lock" ELSE "fetch"]
         /\ stack' = [stack EXCEPT ![t] = next] /\ holder' = locks /\ asked' = asked
  BY DEF Resolve
<1>4. /\ next \in Seq(Members) /\ next # <<>>
      /\ Len(next) = (IF deeper THEN Len(s) + 1 ELSE Len(s))
      /\ \A k \in 1 .. Len(s) : next[k] = s[k]
  BY <1>1, StackGrows
<1> HIDE DEF s, u, locks, next
<1>5. CASE Refused(t, locks)
  BY <1>2, <1>5, RefusedLocks
<1>6. ASSUME /\ pc' = [pc EXCEPT ![t] = IF deeper THEN "lock" ELSE "fetch"]
             /\ stack' = [stack EXCEPT ![t] = next] /\ holder' = locks /\ asked' = asked
      PROVE  LocksInv'
  <2>1. StackTypes'
    BY <1>2, <1>4, <1>6 DEF LocksInv, StackTypes, AtWork
  <2>2. StepOf(t)
    BY <1>2, <1>6 DEF StepOf, LocksInv, StackTypes
  <2>3. /\ stack'[t] = next /\ pc'[t] = (IF deeper THEN "lock" ELSE "fetch")
        /\ asked'[t] = asked[t]
    BY <1>6 DEF LocksInv, StackTypes
  <2>4. ASSUME NEW k \in Held(t)'
        PROVE  k \in 1 .. Len(s) /\ stack'[t][k] = s[k] /\ (k # Len(s) => k \in Held(t))
    <3>1. k \in 1 .. Len(s)
      BY <1>1, <1>4, <2>3, <2>4 DEF Held
    <3>2. QED
      BY <1>4, <2>3, <2>4, <3>1 DEF Held, s
  <2>5. \A k \in Held(t) : k \in 1 .. Len(s) /\ s[k] \in Members /\ holder[s[k]] = t
    BY <1>1 DEF LocksInv, HoldsItsLocks, Held, s
  <2>6. \A k \in Held(t) : s[k] # u
    BY <1>0, <1>2, <2>5
  <2>7. ASSUME NEW k \in Held(t)' PROVE holder'[stack'[t][k]] = t
    BY <1>1, <1>2, <1>6, <2>4, <2>5, <2>6
  <2>8. ASSUME NEW j \in Held(t)', NEW k \in Held(t)', stack'[t][j] = stack'[t][k] PROVE j = k
    BY <1>1, <2>4, <2>6, <2>8 DEF LocksInv, HoldsItsLocks, s
  <2>9. HoldsItsLocks(t)'
    BY <2>3, <2>7, <2>8 DEF HoldsItsLocks
  <2>10. \A v \in Members : holder'[v] # None => materialised'[v] = None
    BY <1>2, <1>6 DEF LocksInv
  <2>11. QED
    BY <2>1, <2>2, <2>9, <2>10, StepLocks
<1>7. QED
  BY <1>3, <1>5, <1>6

(* A task asks, and waits for a lock or for bytes; or it lists and enters. *)
LEMMA OtherwiseLocks ==
  ASSUME LocksInv, UNCHANGED <<materialised, holder>>, NEW t \in Tasks,
         pc[t] \notin AtWork,
         NEW s \in Seq(Members), stack' = [stack EXCEPT ![t] = s],
         NEW at \in {"lock", "fetch", "idle", "walk", "enter"}, pc' = [pc EXCEPT ![t] = at],
         NEW a \in {"path", "bytes", "walk", "nothing"}, asked' = [asked EXCEPT ![t] = a],
         at \in AtWork <=> s # <<>>,
         \/ Len(s) = 0
         \/ at = "lock" /\ Len(s) = 1
         \/ at = "lock" /\ Len(s) = 2 /\ a = "bytes"
         \/ at = "fetch" /\ Len(s) = 1 /\ a = "bytes"
  PROVE  LocksInv'
<1>1. StackTypes'
  BY DEF LocksInv, StackTypes, AtWork
<1>2. StepOf(t)
  BY DEF StepOf, LocksInv, StackTypes
<1>3. stack'[t] = s /\ pc'[t] = at /\ asked'[t] = a
  BY DEF LocksInv, StackTypes
<1>4. ASSUME NEW k \in Held(t)' PROVE FALSE
  <2>1. /\ k \in 1 .. Len(s) /\ Len(s) \in Nat
        /\ at = "lock" => k # Len(s)
        /\ a = "bytes" => k # 1
    BY <1>3, <1>4 DEF Held
  <2>2. Len(s) # 0
    BY <2>1
  <2>3. CASE at = "lock"
    <3>1. k # Len(s) /\ (Len(s) # 1 => Len(s) = 2 /\ a = "bytes")
      BY <2>1, <2>2, <2>3
    <3>2. Len(s) \in {1, 2}
      BY <3>1
    <3>3. \A n \in {1, 2} : \A j \in 1 .. n : j # n => n = 2 /\ j = 1
      OBVIOUS
    <3>4. Len(s) = 2 /\ k = 1
      BY <2>1, <3>1, <3>2, <3>3
    <3>5. QED
      BY <2>1, <3>1, <3>4
  <2>4. CASE at = "fetch" /\ Len(s) = 1 /\ a = "bytes"
    BY <2>1, <2>4
  <2>5. QED
    BY <2>2, <2>3, <2>4
<1>5. HoldsItsLocks(t)'
  BY <1>3, <1>4 DEF HoldsItsLocks
<1>6. QED
  BY <1>1, <1>2, <1>5, StepLocks DEF LocksInv

(* The write of t: what it has the lock of is the last of its stack.       *)
LEMMA WriterHolds ==
  ASSUME LocksInv, NEW t \in Tasks, pc[t] = "write"
  PROVE  /\ Last(stack[t]) \in Members /\ holder[Last(stack[t])] = t
         /\ materialised[Last(stack[t])] = None
<1>1. /\ Len(stack[t]) \in Held(t) /\ Last(stack[t]) = stack[t][Len(stack[t])]
      /\ Last(stack[t]) \in Members
  BY StackEnds DEF LocksInv, HoldsItsLocks, StackTypes, AtWork
<1>2. holder[Last(stack[t])] = t
  BY <1>1 DEF LocksInv, HoldsItsLocks
<1>3. QED
  BY <1>1, <1>2, NestedAssumption DEF LocksInv

LEMMA InitLocks == Init => LocksInv
<1> SUFFICES ASSUME Init PROVE LocksInv
  OBVIOUS
<1>1. <<>> \in Seq(Members) /\ Len(<<>>) = 0
  OBVIOUS
<1>2. StackTypes
  BY <1>1 DEF Init, StackTypes, AtWork
<1>3. \A t \in Tasks : Held(t) = {} /\ pc[t] = "idle"
  BY <1>1 DEF Init, Held
<1>4. QED
  BY <1>2, <1>3 DEF Init, LocksInv, HoldsItsLocks

LEMMA NextLocks == LocksInv /\ [Next]_vars => LocksInv'
<1> SUFFICES ASSUME LocksInv, [Next]_vars PROVE LocksInv'
  OBVIOUS
<1>0. None \notin Tasks /\ None \notin Members
  BY NestedAssumption DEF Items
<1> USE <1>0
<1>1. /\ pc = [t \in Tasks |-> pc[t]] /\ stack = [t \in Tasks |-> stack[t]]
      /\ asked = [t \in Tasks |-> asked[t]] /\ holder \in [Members -> Tasks \cup {None}]
      /\ DOMAIN materialised = Members
      /\ \A u \in Members : holder[u] # None => materialised[u] = None
  BY DEF LocksInv, StackTypes
<1>2. ASSUME NEW t \in Tasks, NEW u \in Members, AskPath(t, u) PROVE LocksInv'
  <2>1. <<u>> \in Seq(Members) /\ Len(<<u>>) = 1 /\ <<u>> # <<>>
    OBVIOUS
  <2>2. pc[t] \notin AtWork
    BY <1>2 DEF AskPath, AtWork
  <2>3. QED
    BY <1>2, <2>1, <2>2, OtherwiseLocks DEF AskPath, AtWork
<1>3. ASSUME NEW t \in Tasks, NEW u \in Members, AskBytes(t, u) PROVE LocksInv'
  <2>1. pc[t] \notin AtWork
    BY <1>3 DEF AskBytes, AtWork
  <2>2. CASE Container[u] \in Members
    <3>1. <<u, Container[u]>> \in Seq(Members) /\ Len(<<u, Container[u]>>) = 2
          /\ <<u, Container[u]>> # <<>>
      BY <2>2
    <3>2. QED
      BY <1>3, <2>1, <2>2, <3>1, OtherwiseLocks DEF AskBytes, AtWork
  <2>3. CASE Container[u] \notin Members
    <3>1. <<u>> \in Seq(Members) /\ Len(<<u>>) = 1 /\ <<u>> # <<>>
      OBVIOUS
    <3>2. QED
      BY <1>3, <2>1, <2>3, <3>1, OtherwiseLocks DEF AskBytes, AtWork
  <2>4. QED
    BY <2>2, <2>3
<1>4. ASSUME NEW t \in Tasks, Lock(t) PROVE LocksInv'
  <2>1. pc[t] = "lock" /\ pc[t] \in AtWork /\ holder[Last(stack[t])] = None
        /\ UNCHANGED materialised
    BY <1>4 DEF Lock, Locked, AtWork
  <2>2. CASE materialised[Last(stack[t])] # None
    BY <1>1, <1>4, <2>1, <2>2, ReturnedLocks DEF Lock
  <2>3. CASE materialised[Last(stack[t])] = None
    BY <1>4, <2>1, <2>3, ResolvedLocks DEF Lock
  <2>4. QED
    BY <2>2, <2>3
<1>5. ASSUME NEW t \in Tasks, Fetch(t) PROVE LocksInv'
  <2>1. pc[t] = "fetch" /\ pc[t] \in AtWork /\ UNCHANGED <<materialised, holder>>
    BY <1>5 DEF Fetch, AtWork
  <2>2. CASE Return(t)
    BY <1>1, <2>1, <2>2, ReturnedLocks
  <2>3. ASSUME pc' = [pc EXCEPT ![t] = "write"], UNCHANGED <<stack, asked>>,
               ~(asked[t] = "bytes" /\ Len(stack[t]) = 1)
        PROVE  LocksInv'
    <3>1. StackTypes'
      BY <2>1, <2>3 DEF LocksInv, StackTypes, AtWork
    <3>2. StepOf(t)
      BY <2>1, <2>3 DEF StepOf, LocksInv, StackTypes
    <3>3. pc'[t] = "write"
      BY <1>1, <2>3
    <3>4. Held(t)' = Held(t)
      BY <2>1, <2>3, <3>3 DEF Held
    <3>5. Len(stack[t]) \in Held(t)
      <4>1. Len(stack[t]) \in Nat \ {0}
        BY <2>1, StackEnds DEF LocksInv, StackTypes
      <4>2. QED
        BY <2>1, <2>3, <4>1 DEF Held
    <3>6. HoldsItsLocks(t)'
      BY <2>1, <2>3, <3>4, <3>5 DEF HoldsItsLocks, LocksInv
    <3>7. QED
      BY <1>1, <2>1, <3>1, <3>2, <3>6, StepLocks
  <2>4. QED
    BY <1>5, <2>2, <2>3 DEF Fetch
<1>6. ASSUME NEW t \in Tasks, Refuse(t) \/ FailWrite(t) PROVE LocksInv'
  BY <1>1, <1>6, RefusedLocks DEF Refuse, FailWrite
<1>7. ASSUME NEW t \in Tasks, Register(t) PROVE LocksInv'
  <2> DEFINE u == Last(stack[t])
  <2>1. /\ pc[t] = "write" /\ pc[t] \in AtWork /\ Return(t)
        /\ materialised' = [materialised EXCEPT ![u] = target[t]]
        /\ holder' = [holder EXCEPT ![u] = None]
    BY <1>7 DEF Register, AtWork
  <2>2. u \in Members
    BY <2>1, WriterHolds
  <2> HIDE DEF u
  <2>3. /\ holder' \in [Members -> Tasks \cup {None}] /\ DOMAIN materialised' = Members
        /\ holder'[u] = None
        /\ \A v \in Members \ {u} : holder'[v] = holder[v] /\ materialised'[v] = materialised[v]
    BY <1>1, <2>1, <2>2
  <2>4. QED
    BY <1>1, <2>1, <2>3, ReturnedLocks DEF u
<1>8. ASSUME NEW t \in Tasks, Cancel(t) PROVE LocksInv'
  <2>1. /\ pc' = [pc EXCEPT ![t] = "idle"] /\ asked' = [asked EXCEPT ![t] = "nothing"]
        /\ stack' = [stack EXCEPT ![t] = <<>>] /\ holder' = Unlocked(t, holder)
        /\ UNCHANGED materialised
    BY <1>8 DEF Cancel
  <2>2. /\ holder' \in [Members -> Tasks \cup {None}]
        /\ \A u \in Members : holder'[u] = IF holder[u] = t THEN None ELSE holder[u]
    BY <1>1, <2>1 DEF Unlocked
  <2>3. <<>> \in Seq(Members)
    OBVIOUS
  <2>4. StackTypes'
    BY <2>1, <2>2, <2>3 DEF LocksInv, StackTypes, AtWork
  <2>5. StepOf(t)
    BY <1>1, <2>1, <2>2 DEF StepOf
  <2>6. stack'[t] = <<>> /\ pc'[t] = "idle"
    BY <1>1, <2>1
  <2>7. Held(t)' = {}
    BY <2>6 DEF Held
  <2>8. HoldsItsLocks(t)'
    BY <2>6, <2>7 DEF HoldsItsLocks
  <2>9. QED
    BY <1>1, <2>1, <2>2, <2>4, <2>5, <2>8, StepLocks
<1>9. ASSUME NEW t \in Tasks, pc[t] \notin AtWork, UNCHANGED <<materialised, holder, stack>>,
             NEW at \in {"idle", "walk"}, pc' = [pc EXCEPT ![t] = at],
             NEW a \in {"path", "bytes", "walk", "nothing"}, asked' = [asked EXCEPT ![t] = a]
      PROVE  LocksInv'
  <2>1. stack[t] = <<>> /\ <<>> \in Seq(Members) /\ Len(<<>>) = 0 /\ at \notin AtWork
    BY <1>9 DEF LocksInv, StackTypes, AtWork
  <2>2. stack' = [stack EXCEPT ![t] = <<>>]
    BY <1>1, <1>9, <2>1
  <2>3. QED
    BY ZenonT(30), <1>9, <2>1, <2>2, OtherwiseLocks
<1>10. ASSUME NEW t \in Tasks, \E a \in Archives : AskWalk(t, a) PROVE LocksInv'
  BY <1>9, <1>10 DEF AskWalk, AtWork
<1>11. ASSUME NEW t \in Tasks, Enter(t) \/ EndWalk(t) PROVE LocksInv'
  <2>1. asked[t] \in {"path", "bytes", "walk", "nothing"} /\ asked = [asked EXCEPT ![t] = asked[t]]
    BY <1>1 DEF LocksInv, StackTypes
  <2>2. QED
    BY <1>9, <1>11, <2>1 DEF Enter, EndWalk, AtWork
<1>12. ASSUME UNCHANGED <<materialised, holder, asked, pc, stack>> PROVE LocksInv'
  <2>1. StackTypes'
    BY <1>12 DEF LocksInv, StackTypes
  <2>2. \A t \in Tasks : Held(t)' = Held(t)
    BY <1>12 DEF Held
  <2>3. \A t \in Tasks : HoldsItsLocks(t)'
    BY <1>12, <2>2 DEF HoldsItsLocks, LocksInv
  <2>4. QED
    BY <1>12, <2>1, <2>3 DEF LocksInv
<1>13. ASSUME NEW t \in Tasks, List(t) PROVE LocksInv'
  <2> DEFINE u == ItemAt(EntryUri[Head(todo[t]).of])
  <2>1. /\ pc[t] = "walk" /\ UNCHANGED <<materialised, holder, asked>>
        /\ IF u \in Members
           THEN pc' = [pc EXCEPT ![t] = "lock"] /\ stack' = [stack EXCEPT ![t] = <<u>>]
           ELSE UNCHANGED <<pc, stack>>
    BY <1>13 DEF List
  <2> HIDE DEF u
  <2>2. CASE u \in Members
    <3>1. <<u>> \in Seq(Members) /\ Len(<<u>>) = 1 /\ <<u>> # <<>>
      BY <2>2
    <3>2. asked[t] \in {"path", "bytes", "walk", "nothing"}
          /\ asked' = [asked EXCEPT ![t] = asked[t]] /\ pc[t] \notin AtWork
      BY <1>1, <2>1 DEF LocksInv, StackTypes, AtWork
    <3>3. QED
      BY <2>1, <2>2, <3>1, <3>2, OtherwiseLocks DEF AtWork
  <2>3. CASE u \notin Members
    BY <1>12, <2>1, <2>3
  <2>4. QED
    BY <2>2, <2>3
<1>14. QED
  BY <1>2, <1>3, <1>4, <1>5, <1>6, <1>7, <1>8, <1>10, <1>11, <1>12, <1>13
     DEF Next, Empty, Write, FailLate, vars, files

(* A member has one path, and keeps it, whoever asks for it at the same    *)
(* time, whatever is refused or cancelled.                                 *)
THEOREM PathsAreStable == Spec => StablePaths
<1>1. LocksInv /\ [Next]_vars =>
        \A u \in Members : materialised[u] # None => materialised'[u] = materialised[u]
  <2> SUFFICES ASSUME LocksInv, [Next]_vars, NEW u \in Members, materialised[u] # None
               PROVE  materialised'[u] = materialised[u]
    OBVIOUS
  <2>1. ASSUME NEW t \in Tasks, Register(t) PROVE materialised'[u] = materialised[u]
    <3>1. Last(stack[t]) # u
      BY <2>1, WriterHolds DEF Register
    <3>2. QED
      BY <2>1, <3>1 DEF Register
  <2>2. QED
    BY <2>1 DEF Next, vars, AskPath, AskBytes, AskWalk, Lock, Fetch, Refuse, FailWrite, Cancel,
                List, Enter, EndWalk, Empty, Write, FailLate
<1>2. QED
  BY <1>1, InitLocks, NextLocks, PTL DEF Spec, StablePaths

----------------------------------------------------------------------------
(* The files                                                               *)

LEMMA NamedInFiles ==
  ASSUME NEW u \in Members
  PROVE  FileName(u) \in Files /\ FileName(u)[2] = Base[u]
<1> DEFINE there == {v \in Members : materialised[v] # None}
<1>1. there \subseteq Members
  OBVIOUS
<1> HIDE DEF there
<1>2. /\ IsFiniteSet(there) /\ Cardinality(there) <= Cardinality(Members)
      /\ Cardinality(there) \in Nat /\ Cardinality(Members) \in Nat
  BY <1>1, NestedAssumption, FS_Subset, FS_CardinalityType
<1>3. Cardinality(there) \in 0 .. Cardinality(Members)
  BY <1>2
<1>4. Base[u] \in Bases
  BY DEF Bases
<1>5. FileName(u) = <<Cardinality(there), Base[u]>>
  BY DEF FileName, there
<1>6. QED
  BY <1>3, <1>4, <1>5 DEF Files

(* A step that writes nothing.                                             *)
LEMMA FilesLeftAlone ==
  ASSUME FilesInv, UNCHANGED <<materialised, files, target>>, NEW t \in Tasks,
         pc[t] # "write", pc'[t] # "write",
         \A o \in Tasks \ {t} : stack'[o] = stack[o] /\ pc'[o] = pc[o]
  PROVE  FilesInv'
<1>1. \A w \in writes : w.by # None => w.by \in Tasks \ {t}
  BY DEF FilesInv, Written
<1>2. \A f : Explained(f)' = Explained(f)
  BY DEF Explained, files
<1>3. QED
  BY <1>1, <1>2 DEF FilesInv, files

(* Two writes of one file are of one member, which no two tasks write.     *)
LEMMA FilesApart ==
  ASSUME BasesApart, LocksInv, FilesInv, NEW w \in writes
  PROVE  /\ \A v \in writes : v.file = w.file => v.data = w.data
         /\ w.at # "queue" => ~Mixed(w)
         /\ w.by # None => /\ \A u \in Members : materialised[u] = w.file => w.file = None
                           /\ \A o \in Tasks : pc[o] = "write" /\ target[o] = w.file => o = w.by
<1>1. w \in Written /\ Base[w.data] = w.file[2] /\ w.data \in Members
  BY DEF FilesInv, Written
<1>2. \A v \in writes : v.file = w.file => v.data = w.data
  BY <1>1 DEF FilesInv, Written, BasesApart
<1>3. ASSUME w.at # "queue" PROVE ~Mixed(w)
  <2>1. disk[w.file] \in {Torn, w.data}
    BY <1>1, <1>3 DEF FilesInv, Written, BasesApart
  <2>2. QED
    BY <1>2, <2>1 DEF Mixed
<1>4. ASSUME w.by # None
      PROVE  /\ \A u \in Members : materialised[u] = w.file => w.file = None
             /\ \A o \in Tasks : pc[o] = "write" /\ target[o] = w.file => o = w.by
  <2> DEFINE t == w.by
             x == Last(stack[t])
  <2>1. t \in Tasks /\ pc[t] = "write" /\ w.file = target[t] /\ w.file[2] = Base[x]
    BY <1>1, <1>4 DEF FilesInv, Written
  <2>2. x \in Members /\ holder[x] = t /\ materialised[x] = None
    BY <2>1, WriterHolds
  <2>3. ASSUME NEW u \in Members, materialised[u] = w.file, w.file # None PROVE FALSE
    <3>1. Base[u] = Base[x]
      BY <2>1, <2>3 DEF FilesInv
    <3>2. QED
      BY <2>2, <2>3, <3>1 DEF BasesApart
  <2>4. ASSUME NEW o \in Tasks, pc[o] = "write", target[o] = w.file PROVE o = t
    <3>1. Last(stack[o]) \in Members /\ holder[Last(stack[o])] = o
      BY <2>4, WriterHolds
    <3>2. Base[Last(stack[o])] = Base[x]
      BY <2>1, <2>4 DEF FilesInv
    <3>3. QED
      BY <2>2, <3>1, <3>2 DEF BasesApart
  <2>5. QED
    BY <2>3, <2>4
<1>5. QED
  BY <1>2, <1>3, <1>4

LEMMA InitFiles == Init => FilesInv
  BY NestedAssumption DEF Init, FilesInv, Items

(* A thread empties the file of w, ...                                     *)
LEMMA EmptyFiles ==
  ASSUME BasesApart, LocksInv, FilesInv, NEW w \in writes, Empty(w)
  PROVE  FilesInv'
<1> DEFINE Cut(v) == [v EXCEPT !.at = IF v = w THEN "open"
                                      ELSE IF v.file = w.file /\ @ = "open" THEN "cut" ELSE @]
<1>0. None \notin Tasks /\ None \notin Members /\ Torn \notin Members /\ Torn # None
  BY NestedAssumption DEF Items
<1>1. /\ w.at = "queue" /\ disk' = [disk EXCEPT ![w.file] = Torn]
      /\ spoiled' = spoiled \ {w.file} /\ writes' = {Cut(v) : v \in writes}
      /\ UNCHANGED <<materialised, target, pc, stack>>
  BY DEF Empty
<1>2. w \in Written /\ w.file \in Files
  BY DEF FilesInv, Written
<1>3. ASSUME NEW v \in writes
      PROVE  /\ Cut(v) \in Written /\ Cut(v).by = v.by
             /\ Cut(v).file = v.file /\ Cut(v).data = v.data
             /\ Cut(v).at = IF v = w THEN "open"
                            ELSE IF v.file = w.file /\ v.at = "open" THEN "cut" ELSE v.at
             /\ v.file # w.file => Cut(v) = v
  <2>1. v \in Written
    BY DEF FilesInv
  <2>2. QED
    BY <1>2, <2>1 DEF Written
<1> HIDE DEF Cut
<1>4. /\ disk'[w.file] = Torn /\ \A f \in Files \ {w.file} : disk'[f] = disk[f]
      /\ disk' \in [Files -> Members \cup {Torn, None}]
  BY <1>1, <1>2 DEF FilesInv
<1>5. writes' \subseteq Written /\ spoiled' \subseteq Files
  BY <1>1, <1>3 DEF FilesInv
<1>6. ASSUME NEW f \in Files, Explained(f), f # w.file PROVE Explained(f)'
  <2>1. \A v \in writes : v.file = f => v \in writes'
    BY <1>1, <1>3, <1>6
  <2>2. QED
    BY <1>1, <1>4, <1>6, <2>1 DEF Explained
<1>7. w.by = None => Explained(w.file)'
  <2>1. Cut(w) \in writes' /\ Cut(w).by = w.by /\ Cut(w).at = "open" /\ Cut(w).file = w.file
    BY <1>1, <1>3
  <2>2. QED
    BY <1>4, <2>1 DEF Explained
<1>8. ASSUME NEW u \in Members, materialised'[u] # None
      PROVE  /\ materialised'[u] \in Files /\ materialised'[u][2] = Base[u]
             /\ Explained(materialised[u])'
  <2>1. /\ materialised[u] \in Files /\ materialised[u][2] = Base[u] /\ Explained(materialised[u])
        /\ materialised'[u] = materialised[u]
    BY <1>1, <1>8 DEF FilesInv
  <2>2. materialised[u] = w.file => w.by = None
    BY <1>8, <2>1, FilesApart
  <2>3. QED
    BY <1>6, <1>7, <2>1, <2>2
<1>9. ASSUME NEW t \in Tasks, pc'[t] = "write"
      PROVE  /\ target'[t] \in Files /\ target'[t][2] = Base[Last(stack'[t])]
             /\ Explained(target[t])' \/ \E v \in writes' : v.by = t
  <2>1. /\ target[t] \in Files /\ target[t][2] = Base[Last(stack[t])]
        /\ Explained(target[t]) \/ \E v \in writes : v.by = t
        /\ pc[t] = "write" /\ target'[t] = target[t] /\ stack'[t] = stack[t]
    BY <1>1, <1>9 DEF FilesInv
  <2>2. (\E v \in writes : v.by = t) => \E v \in writes' : v.by = t
    BY <1>1, <1>3
  <2>3. target[t] = w.file /\ w.by # None => w.by = t
    BY <2>1, FilesApart
  <2>4. QED
    BY <1>6, <1>7, <2>1, <2>2, <2>3
<1>10. ASSUME NEW x \in writes'
       PROVE  /\ Base[x.data] = x.file[2]
              /\ x.at # "queue" => disk'[x.file] # None
              /\ x.by # None => /\ pc'[x.by] = "write" /\ x.file = target'[x.by]
                                /\ \A v \in writes' : v.by = x.by => v = x
                                /\ x.at = "cut" => Explained(x.file)'
  <2>1. PICK v \in writes : x = Cut(v)
    BY <1>1
  <2>2. /\ v \in Written /\ Base[v.data] = v.file[2] /\ v.file \in Files
        /\ v.at # "queue" => disk[v.file] # None
    BY DEF FilesInv, Written
  <2>3. x.at # "queue" => disk'[x.file] # None
    BY <1>0, <1>3, <1>4, <2>1, <2>2
  <2>4. ASSUME x.by # None
        PROVE  /\ pc'[x.by] = "write" /\ x.file = target'[x.by]
               /\ \A y \in writes' : y.by = x.by => y = x
               /\ x.at = "cut" => Explained(x.file)'
    <3>1. /\ pc[v.by] = "write" /\ v.file = target[v.by] /\ v.by \in Tasks
          /\ \A y \in writes : y.by = v.by => y = v
          /\ v.at = "cut" => Explained(v.file)
      BY <1>3, <2>1, <2>2, <2>4 DEF FilesInv, Written
    <3>2. \A y \in writes' : y.by = x.by => y = x
      BY <1>1, <1>3, <2>1, <3>1
    <3>3. v.file = w.file /\ v # w => w.by = None
      BY <3>1, FilesApart
    <3>4. x.at = "cut" => Explained(x.file)'
      BY <1>3, <1>6, <1>7, <2>1, <2>2, <3>1, <3>3
    <3>5. QED
      BY <1>1, <1>3, <2>1, <3>1, <3>2, <3>4
  <2>5. QED
    BY <1>3, <2>1, <2>2, <2>3, <2>4
<1>11. \A f \in Files : disk'[f] \in Members => Base[disk'[f]] = f[2]
  BY <1>0, <1>4 DEF FilesInv
<1>12. target' \in [Tasks -> Files \cup {None}]
  BY <1>1 DEF FilesInv
<1>13. QED
  BY <1>4, <1>5, <1>8, <1>9, <1>10, <1>11, <1>12 DEF FilesInv

(* ... and is done with it, ...                                            *)
LEMMA DoneFiles ==
  ASSUME FilesInv, NEW w \in writes, writes' = writes \ {w},
         UNCHANGED <<materialised, target, pc, stack>>, spoiled' \subseteq Files,
         disk' \in [Files -> Members \cup {Torn, None}],
         \A f \in Files : disk'[f] \in Members => Base[disk'[f]] = f[2],
         \A f \in Files : disk[f] # None => disk'[f] # None,
         \A f \in Files : Explained(f) => Explained(f)',
         w.by # None => Explained(w.file)'
  PROVE  FilesInv'
<1>1. \A v \in writes : v \in Written /\ v.file \in Files /\ v.by \in Tasks \cup {None}
  BY DEF FilesInv, Written
<1>2. ASSUME NEW x \in writes'
      PROVE  /\ Base[x.data] = x.file[2]
             /\ x.at # "queue" => disk'[x.file] # None
             /\ x.by # None => /\ pc'[x.by] = "write" /\ x.file = target'[x.by]
                               /\ \A v \in writes' : v.by = x.by => v = x
                               /\ x.at = "cut" => Explained(x.file)'
  BY <1>1 DEF FilesInv
<1>3. ASSUME NEW t \in Tasks, pc'[t] = "write"
      PROVE  /\ target'[t] \in Files /\ target'[t][2] = Base[Last(stack'[t])]
             /\ Explained(target[t])' \/ \E v \in writes' : v.by = t
  <2>1. /\ target[t] \in Files /\ target[t][2] = Base[Last(stack[t])]
        /\ Explained(target[t]) \/ \E v \in writes : v.by = t
    BY <1>3 DEF FilesInv
  <2>2. w.by = t => Explained(target[t])'
    BY NestedAssumption DEF FilesInv
  <2>3. QED
    BY <2>1, <2>2
<1>4. ASSUME NEW u \in Members, materialised'[u] # None
      PROVE  /\ materialised'[u] \in Files /\ materialised'[u][2] = Base[u]
             /\ Explained(materialised[u])'
  BY <1>4 DEF FilesInv
<1>5. writes' \subseteq Written /\ target' \in [Tasks -> Files \cup {None}]
  BY DEF FilesInv
<1>6. QED
  BY <1>2, <1>3, <1>4, <1>5 DEF FilesInv

(* ... all written, ...                                                    *)
LEMMA WriteFiles ==
  ASSUME BasesApart, LocksInv, FilesInv, NEW w \in writes, Write(w)
  PROVE  FilesInv'
<1>0. None \notin Members /\ Torn \notin Members /\ Torn # None
  BY NestedAssumption DEF Items
<1>1. /\ w \in Written /\ w.file \in Files /\ w.data \in Members /\ Base[w.data] = w.file[2]
      /\ w.at \in {"open", "cut"} /\ disk[w.file] # None
  BY DEF FilesInv, Written, Write
<1>2. /\ writes' = writes \ {w} /\ UNCHANGED <<materialised, spoiled, target, pc, stack>>
      /\ \/ disk' = [disk EXCEPT ![w.file] = w.data]
         \/ w.at = "cut" /\ disk' = [disk EXCEPT ![w.file] = disk[w.file]]
  BY FilesApart DEF Write
<1>3. CASE disk' = [disk EXCEPT ![w.file] = w.data]
  <2>1. /\ disk' \in [Files -> Members \cup {Torn, None}] /\ disk'[w.file] = w.data
        /\ \A f \in Files \ {w.file} : disk'[f] = disk[f]
    BY <1>1, <1>3 DEF FilesInv
  <2>2. \A f \in Files : disk'[f] \in Members => Base[disk'[f]] = f[2]
    BY <1>1, <2>1 DEF FilesInv
  <2>3. Explained(w.file)'
    BY <1>1, <2>1 DEF Explained
  <2>4. \A f \in Files : Explained(f) => Explained(f)'
    BY <1>2, <2>1, <2>3 DEF Explained
  <2>5. \A f \in Files : disk[f] # None => disk'[f] # None
    BY <1>0, <1>1, <2>1
  <2>6. spoiled' \subseteq Files
    BY <1>2 DEF FilesInv
  <2>7. QED
    BY <1>2, <2>1, <2>2, <2>3, <2>4, <2>5, <2>6, DoneFiles
<1>4. CASE w.at = "cut" /\ disk' = [disk EXCEPT ![w.file] = disk[w.file]]
  <2>1. disk' = disk /\ spoiled' \subseteq Files
    BY <1>2, <1>4 DEF FilesInv
  <2>2. \A f \in Files : Explained(f) => Explained(f)'
    BY <1>2, <1>4, <2>1 DEF Explained
  <2>3. w.by # None => Explained(w.file)'
    BY <1>1, <1>4, <2>2 DEF FilesInv
  <2>4. QED
    BY <1>2, <2>1, <2>2, <2>3, DoneFiles DEF FilesInv
<1>5. QED
  BY <1>2, <1>3, <1>4

(* ... or not.                                                             *)
LEMMA FailLateFiles ==
  ASSUME BasesApart, LocksInv, FilesInv, NEW w \in writes, FailLate(w)
  PROVE  FilesInv'
<1>1. w \in Written /\ w.file \in Files
  BY DEF FilesInv, Written
<1>2. /\ writes' = writes \ {w} /\ disk' = disk /\ w.by = None
      /\ spoiled' = spoiled \cup {f \in {w.file} : w.at = "open"}
      /\ UNCHANGED <<materialised, target, pc, stack>>
  BY FilesApart DEF FailLate, Break
<1>3. spoiled' \subseteq Files
  BY <1>1, <1>2 DEF FilesInv
<1>4. \A f \in Files : Explained(f) => Explained(f)'
  BY <1>2 DEF Explained
<1>5. QED
  BY <1>2, <1>3, <1>4, DoneFiles DEF FilesInv

LEMMA NextFiles == UrisName /\ BasesApart /\ LocksInv /\ FilesInv /\ [Next]_vars => FilesInv'
<1> SUFFICES ASSUME UrisName, BasesApart, LocksInv, FilesInv, [Next]_vars PROVE FilesInv'
  OBVIOUS
<1>0. None \notin Tasks /\ None \notin Members /\ Torn \notin Members /\ Torn # None
  BY NestedAssumption DEF Items
<1> USE <1>0
<1>1. /\ pc = [t \in Tasks |-> pc[t]] /\ stack = [t \in Tasks |-> stack[t]]
      /\ DOMAIN materialised = Members
  BY DEF LocksInv, StackTypes
<1>2. ASSUME NEW t \in Tasks, \E u \in Members : AskPath(t, u) \/ AskBytes(t, u) PROVE FilesInv'
  BY <1>1, <1>2, FilesLeftAlone DEF AskPath, AskBytes
<1>3. ASSUME NEW t \in Tasks, \/ Lock(t) \/ Refuse(t) \/ List(t) \/ Enter(t) \/ EndWalk(t)
                              \/ \E a \in Archives : AskWalk(t, a)
      PROVE  FilesInv'
  <2>1. UNCHANGED <<materialised, files, target>> /\ pc[t] # "write"
    BY <1>3 DEF Lock, Refuse, List, Enter, EndWalk, AskWalk
  <2>2. CASE Lock(t) \/ Refuse(t)
    BY <1>1, <2>1, <2>2, FilesLeftAlone DEF Lock, Return, Resolve, Refuse, Refused
  <2>3. CASE List(t) \/ Enter(t) \/ EndWalk(t) \/ \E a \in Archives : AskWalk(t, a)
    BY <1>1, <2>1, <2>3, FilesLeftAlone DEF List, Enter, EndWalk, AskWalk
  <2>4. QED
    BY <1>3, <2>2, <2>3
<1>4. ASSUME NEW t \in Tasks, Fetch(t) PROVE FilesInv'
  <2> DEFINE u == Last(stack[t])
  <2>1. /\ pc[t] = "fetch" /\ UNCHANGED <<materialised, disk, spoiled>>
        /\ \/ Return(t) /\ UNCHANGED <<writes, target>>
           \/ \E m \in Contained(u) :
                /\ pc' = [pc EXCEPT ![t] = "write"]
                /\ target' = [target EXCEPT ![t] = FileName(u)]
                /\ writes' = writes \cup {Given(t, FileName(u), m)}
                /\ UNCHANGED stack
    BY <1>4 DEF Fetch
  <2>2. CASE Return(t) /\ UNCHANGED <<writes, target>>
    BY <1>1, <2>1, <2>2, FilesLeftAlone DEF Return, files
  <2>3. ASSUME NEW m \in Contained(u),
               pc' = [pc EXCEPT ![t] = "write"],
               target' = [target EXCEPT ![t] = FileName(u)],
               writes' = writes \cup {Given(t, FileName(u), m)},
               UNCHANGED stack
        PROVE  FilesInv'
    <3>1. u \in Members
      BY <2>1, StackEnds DEF LocksInv, StackTypes, AtWork
    <3>2. m = u
      BY <2>3, <3>1 DEF Contained, UrisName
    <3>3. FileName(u) \in Files /\ FileName(u)[2] = Base[u]
      BY <3>1, NamedInFiles
    <3>4. \A w \in writes : w.by # t
      BY <2>1 DEF FilesInv, Written
    <3> DEFINE f == FileName(u)
               new == Given(t, f, m)
    <3>5. /\ new \in Written /\ new.by = t /\ new.file = f /\ new.data = u /\ new.at = "queue"
      BY <3>1, <3>2, <3>3 DEF Given, Written
    <3>6. /\ pc'[t] = "write" /\ target'[t] = f /\ stack' = stack
          /\ \A o \in Tasks \ {t} : pc'[o] = pc[o] /\ target'[o] = target[o]
          /\ target' \in [Tasks -> Files \cup {None}]
      BY <1>1, <2>3, <3>3 DEF FilesInv
    <3>7. writes' = writes \cup {new} /\ f \in Files /\ f[2] = Base[Last(stack[t])]
      BY <2>3, <3>3
    <3> HIDE DEF f, new, u
    <3>8. writes' \subseteq Written
      BY <3>5, <3>7 DEF FilesInv
    <3>9. \A g : Explained(g) => Explained(g)'
      BY <2>1, <3>7 DEF Explained
    <3>10. ASSUME NEW w \in writes'
           PROVE  /\ Base[w.data] = w.file[2]
                  /\ w.at # "queue" => disk'[w.file] # None
                  /\ w.by # None => /\ pc'[w.by] = "write" /\ w.file = target'[w.by]
                                    /\ \A v \in writes' : v.by = w.by => v = w
                                    /\ w.at = "cut" => Explained(w.file)'
      <4>1. CASE w = new
        BY <3>4, <3>5, <3>6, <3>7, <4>1 DEF u
      <4>2. CASE w \in writes
        <5>1. w.by \in Tasks \cup {None} /\ w.by # t
          BY <3>4, <4>2 DEF FilesInv, Written
        <5>2. QED
          BY <2>1, <3>5, <3>6, <3>7, <3>9, <4>2, <5>1 DEF FilesInv
      <4>3. QED
        BY <3>7, <4>1, <4>2
    <3>11. ASSUME NEW o \in Tasks, pc'[o] = "write"
           PROVE  /\ target'[o] \in Files /\ target'[o][2] = Base[Last(stack'[o])]
                  /\ Explained(target[o])' \/ \E w \in writes' : w.by = o
      BY <2>1, <3>5, <3>6, <3>7, <3>9, <3>11 DEF FilesInv
    <3>12. QED
      BY <2>1, <3>6, <3>8, <3>9, <3>10, <3>11 DEF FilesInv
  <2>4. QED
    BY <2>1, <2>2, <2>3
<1>5. ASSUME NEW t \in Tasks, FailWrite(t) PROVE FilesInv'
  <2>1. PICK w \in writes : w.by = t /\ Break(w)
    BY <1>5 DEF FailWrite
  <2>2. /\ target' = [target EXCEPT ![t] = None] /\ UNCHANGED <<materialised, spoiled>>
        /\ stack' = [stack EXCEPT ![t] = <<>>]
        /\ pc' = [pc EXCEPT ![t] = "walk"] \/ pc' = [pc EXCEPT ![t] = "idle"]
    BY <1>5 DEF FailWrite, Refused
  <2>3. writes' = writes \ {w} /\ disk' = disk
    BY <2>1, FilesApart DEF Break
  <2>4. /\ pc'[t] # "write" /\ target' \in [Tasks -> Files \cup {None}]
        /\ \A o \in Tasks \ {t} : pc'[o] = pc[o] /\ target'[o] = target[o] /\ stack'[o] = stack[o]
    BY <1>1, <2>2 DEF FilesInv
  <2>5. \A v \in writes' : v \in writes /\ v.by # t /\ v.by \in Tasks \cup {None}
    BY <2>1, <2>3 DEF FilesInv, Written
  <2>6. \A o \in Tasks \ {t} : \A v \in writes : v.by = o => v \in writes'
    BY <2>1, <2>3
  <2>7. \A g : Explained(g) => Explained(g)'
    BY <2>1, <2>2, <2>3 DEF Explained
  <2>8. QED
    BY <2>2, <2>3, <2>4, <2>5, <2>6, <2>7 DEF FilesInv
<1>6. ASSUME NEW w \in writes, Empty(w) PROVE FilesInv'
  BY <1>6, EmptyFiles
<1>7. ASSUME NEW w \in writes, Write(w) \/ FailLate(w) PROVE FilesInv'
  <2>1. CASE Write(w)
    BY <2>1, WriteFiles
  <2>2. CASE FailLate(w)
    BY <2>2, FailLateFiles
  <2>3. QED
    BY <1>7, <2>1, <2>2
<1>8. ASSUME NEW t \in Tasks, Register(t) PROVE FilesInv'
  <2> DEFINE u == Last(stack[t])
  <2>1. /\ pc[t] = "write" /\ (\A w \in writes : w.by # t) /\ UNCHANGED files
        /\ materialised' = [materialised EXCEPT ![u] = target[t]]
        /\ target' = [target EXCEPT ![t] = None]
        /\ stack' = [stack EXCEPT ![t] = Front(stack[t])]
        /\ pc' = [pc EXCEPT ![t] = IF Front(stack[t]) # <<>> THEN "fetch"
                                  ELSE IF asked[t] = "walk" THEN "enter" ELSE "idle"]
    BY <1>8 DEF Register, Return
  <2>2. u \in Members /\ target[t] \in Files /\ target[t][2] = Base[u] /\ Explained(target[t])
    BY <2>1, WriterHolds DEF FilesInv
  <2> HIDE DEF u
  <2>3. /\ pc'[t] # "write" /\ target' \in [Tasks -> Files \cup {None}]
        /\ \A o \in Tasks \ {t} : pc'[o] = pc[o] /\ target'[o] = target[o] /\ stack'[o] = stack[o]
    BY <1>1, <2>1 DEF FilesInv
  <2>4. materialised'[u] = target[t] /\ \A v \in Members \ {u} : materialised'[v] = materialised[v]
    BY <1>1, <2>1, <2>2
  <2>5. \A w \in writes : w.by # None => w.by \in Tasks \ {t}
    BY <2>1 DEF FilesInv, Written
  <2>6. \A g : Explained(g)' = Explained(g)
    BY <2>1 DEF Explained, files
  <2>7. QED
    BY <2>1, <2>2, <2>3, <2>4, <2>5, <2>6 DEF FilesInv, files
<1>9. ASSUME NEW t \in Tasks, Cancel(t) PROVE FilesInv'
  <2> DEFINE Left(w) == [w EXCEPT !.by = IF @ = t THEN None ELSE @]
  <2>1. /\ pc' = [pc EXCEPT ![t] = "idle"] /\ target' = [target EXCEPT ![t] = None]
        /\ stack' = [stack EXCEPT ![t] = <<>>] /\ UNCHANGED <<materialised, disk, spoiled>>
        /\ writes' = {Left(w) : w \in writes}
    BY <1>9 DEF Cancel
  <2>2. /\ pc'[t] # "write" /\ target' \in [Tasks -> Files \cup {None}]
        /\ \A o \in Tasks \ {t} : pc'[o] = pc[o] /\ target'[o] = target[o] /\ stack'[o] = stack[o]
    BY <1>1, <2>1 DEF FilesInv
  <2>3. ASSUME NEW w \in writes
        PROVE  /\ Left(w) \in Written
               /\ Left(w).by = (IF w.by = t THEN None ELSE w.by)
               /\ Left(w).file = w.file /\ Left(w).data = w.data /\ Left(w).at = w.at
               /\ w.by # t => Left(w) = w
    <3>1. w \in Written
      BY DEF FilesInv
    <3>2. QED
      BY <3>1 DEF Written
  <2> HIDE DEF Left
  <2>4. writes' \subseteq Written
    BY <2>1, <2>3
  <2>5. ASSUME NEW v \in writes', v.by # None PROVE v \in writes /\ v.by \in Tasks \ {t}
    <3>1. PICK w \in writes : v = Left(w)
      BY <2>1
    <3>2. w.by # t
      BY <2>3, <2>5, <3>1
    <3>3. v = w
      BY <2>3, <3>1, <3>2
    <3>4. QED
      BY <2>4, <2>5, <3>2, <3>3 DEF Written
  <2>6. \A v \in writes' : Base[v.data] = v.file[2] /\ (v.at # "queue" => disk'[v.file] # None)
    BY <2>1, <2>3 DEF FilesInv
  <2>7. \A o \in Tasks \ {t} : (\E w \in writes : w.by = o) => \E v \in writes' : v.by = o
    BY <2>1, <2>3
  <2>8. \A g : Explained(g) => Explained(g)'
    <3>1. \A w \in writes : w.by = None => w \in writes'
      BY <2>1, <2>3
    <3>2. QED
      BY <2>1, <3>1 DEF Explained
  <2>9. ASSUME NEW v \in writes', v.by # None
        PROVE  /\ pc'[v.by] = "write" /\ v.file = target'[v.by]
               /\ \A x \in writes' : x.by = v.by => x = v
               /\ v.at = "cut" => Explained(v.file)'
    BY <2>2, <2>5, <2>8, <2>9 DEF FilesInv
  <2>10. QED
    BY <2>1, <2>2, <2>4, <2>6, <2>7, <2>8, <2>9 DEF FilesInv
<1>10. ASSUME UNCHANGED vars PROVE FilesInv'
  <2>1. \A g : Explained(g)' = Explained(g)
    BY <1>10 DEF vars, files, Explained
  <2>2. QED
    BY <1>10, <2>1 DEF vars, files, FilesInv
<1>11. QED
  BY <1>2, <1>3, <1>4, <1>5, <1>6, <1>7, <1>8, <1>9, <1>10 DEF Next

(* The path of a member leads to its bytes, whoever wrote which files at   *)
(* the same time, and never to those of another, as long as no two members *)
(* have one base name.  What a cancelled task has left to be written may   *)
(* empty the file while it is written once more, and spoil it when that    *)
(* fails: nothing else does.  Where two members have one base name, the    *)
(* run nested_collision shows the one written over the other.              *)
THEOREM FilesAreOwn ==
  ASSUME UrisName, BasesApart
  PROVE  Spec => []FilesHoldTheirMember
<1>1. FilesInv => FilesHoldTheirMember
  <2> SUFFICES ASSUME FilesInv, NEW u \in Members, materialised[u] # None,
                      disk[materialised[u]] # u
               PROVE  /\ disk[materialised[u]] = Torn
                      /\ \/ materialised[u] \in spoiled
                         \/ \E w \in writes : /\ w.by = None /\ w.at = "open"
                                               /\ w.file = materialised[u] /\ w.data = u
    BY Zenon DEF FilesHoldTheirMember
  <2> DEFINE f == materialised[u]
  <2>1. f \in Files /\ f[2] = Base[u] /\ Explained(f)
    BY DEF FilesInv
  <2>2. disk[f] \notin Members
    BY <2>1 DEF FilesInv, BasesApart
  <2>3. \A w \in writes : w.file = f => w.data = u
    BY <2>1 DEF FilesInv, Written, BasesApart
  <2>4. QED
    BY <2>1, <2>2, <2>3 DEF Explained
<1>2. FilesInv /\ LocksInv /\ [Next]_vars => FilesInv'
  BY NextFiles
<1>3. QED
  BY <1>1, <1>2, InitLocks, NextLocks, InitFiles, PTL DEF Spec

----------------------------------------------------------------------------
(* What the uris say of where a member is                                  *)

LEMMA SegmentsType ==
  ASSUME NEW x \in Items
  PROVE  /\ Segments[x] \in Seq(Words) /\ Segments[x] # <<>>
         /\ Len(Segments[x]) \in Nat \ {0} /\ Address[x] \in Words
<1>1. STRING \subseteq Chars
  BY DEF Chars
<1>2. Address[x] \in Words
  BY <1>1, NestedAssumption, SeqMonotonic DEF Words
<1>3. Segments[x] = SplitUri(Address[x])
  BY DEF Segments
<1>4. Segments[x] \in Seq(Words) /\ Segments[x] # <<>>
  BY <1>2, <1>3, SplitType DEF Segmented
<1>5. QED
  BY <1>2, <1>4

LEMMA NameType ==
  ASSUME NEW u \in Members
  PROVE  Name[u] \in Words /\ Parent[u] \in Items /\ u \in Items
<1>1. STRING \subseteq Chars
  BY DEF Chars
<1>2. QED
  BY <1>1, NestedAssumption, SeqMonotonic DEF Words, Items

(* What was joined is what the code takes apart: a member is where its uri *)
(* says.                                                                   *)
LEMMA SegmentsGrow ==
  ASSUME UrisJoined, NEW u \in Members
  PROVE  Segments[u] = Append(Segments[Parent[u]], Name[u])
<1> DEFINE ss == Append(Segments[Parent[u]], Name[u])
<1>1. ss \in Seq(Words) /\ ss # <<>>
  BY NameType, SegmentsType, AppendProperties
<1>2. Address[u] = JoinUri(ss)
  BY DEF UrisJoined, EntryUri
<1>3. Segments[u] = SplitUri(Address[u])
  BY DEF Segments, Items
<1> HIDE DEF ss
<1>4. QED
  BY <1>1, <1>2, <1>3, RoundTrip DEF ss

LEMMA SegmentsLonger ==
  ASSUME UrisJoined, NEW u \in Members
  PROVE  /\ Parent[u] \in Items /\ Len(Segments[Parent[u]]) \in Nat
         /\ Len(Segments[u]) = Len(Segments[Parent[u]]) + 1
<1> DEFINE p == Segments[Parent[u]]
<1>1. Name[u] \in Words /\ Parent[u] \in Items
  BY NameType
<1>2. p \in Seq(Words) /\ Len(p) \in Nat
  BY <1>1, SegmentsType
<1>3. Segments[u] = Append(p, Name[u])
  BY SegmentsGrow
<1> HIDE DEF p
<1>4. Len(Segments[u]) = Len(p) + 1
  BY <1>1, <1>2, <1>3, AppendProperties
<1>5. QED
  BY <1>1, <1>2, <1>4 DEF p

LEMMA SegmentsJoin ==
  ASSUME UrisJoined, NEW x \in Items
  PROVE  JoinUri(Segments[x]) = Address[x]
<1>1. CASE x \in Archives
  BY <1>1 DEF UrisJoined
<1>2. CASE x \in Members
  BY <1>2, SegmentsGrow DEF UrisJoined, EntryUri
<1>3. QED
  BY <1>1, <1>2 DEF Items

LEMMA SegmentsTell ==
  ASSUME UrisJoined, NEW x \in Items, NEW y \in Items, Segments[x] = Segments[y]
  PROVE  x = y
  BY SegmentsJoin, NestedAssumption

LEMMA AddressLeads ==
  ASSUME NEW x \in Items
  PROVE  ItemAt(Address[x]) = x
  BY NestedAssumption DEF ItemAt

(* The container that a read goes to is what the member lies in.           *)
LEMMA ContainerIsParent ==
  ASSUME UrisJoined, NEW u \in Members
  PROVE  Container[u] = Parent[u] /\ Last(Segments[u]) = Name[u]
<1> DEFINE p == Segments[Parent[u]]
           s == Append(p, Name[u])
<1>1. Segments[u] = s /\ p \in Seq(Words) /\ Name[u] \in Words /\ Parent[u] \in Items
  BY SegmentsGrow, SegmentsType, NameType
<1> HIDE DEF p
<1>2. s \in Seq(Words) /\ s # <<>> /\ Len(s) = Len(p) + 1 /\ Len(p) \in Nat
      /\ s[Len(p) + 1] = Name[u] /\ \A i \in 1 .. Len(p) : s[i] = p[i]
  BY <1>1, AppendProperties
<1> HIDE DEF s
<1>3. Last(s) = Name[u]
  BY <1>2 DEF Last
<1>4. Front(s) = p
  <2>1. Front(s) \in Seq(Words) /\ Len(Front(s)) = Len(s) - 1
        /\ \A i \in 1 .. Len(s) - 1 : Front(s)[i] = s[i]
    BY <1>2, FrontProperties
  <2>2. QED
    BY <1>1, <1>2, <2>1, SeqEqual
<1>5. ContainerOf(Address[u]) = JoinUri(Front(Segments[u]))
  BY DEF ContainerOf, Segments, Items
<1>6. JoinUri(p) = Address[Parent[u]]
  BY <1>1, SegmentsJoin DEF p
<1>7. Container[u] = ItemAt(Address[Parent[u]])
  BY <1>1, <1>4, <1>5, <1>6 DEF Container
<1>8. QED
  BY <1>1, <1>3, <1>7, AddressLeads

----------------------------------------------------------------------------
(* What lies in what                                                       *)

(* The segments of x begin those of u.                                     *)
Begins(x, u) ==
  /\ Len(Segments[x]) < Len(Segments[u])
  /\ \A i \in 1 .. Len(Segments[x]) : Segments[x][i] = Segments[u][i]

LEMMA BeginsParent ==
  ASSUME UrisJoined, NEW u \in Members, NEW x \in Items
  PROVE  Begins(x, u) <=> x = Parent[u] \/ (Parent[u] \in Members /\ Begins(x, Parent[u]))
<1> DEFINE p == Segments[Parent[u]]
           s == Segments[u]
           r == Segments[x]
<1>1. /\ p \in Seq(Words) /\ Len(p) \in Nat \ {0} /\ Parent[u] \in Items
      /\ r \in Seq(Words) /\ Len(r) \in Nat \ {0}
      /\ Len(s) = Len(p) + 1 /\ \A i \in 1 .. Len(p) : s[i] = p[i]
  <2>1. s = Append(p, Name[u]) /\ Name[u] \in Words /\ Parent[u] \in Items
    BY SegmentsGrow, NameType
  <2>2. p \in Seq(Words) /\ Len(p) \in Nat \ {0} /\ r \in Seq(Words) /\ Len(r) \in Nat \ {0}
    BY <2>1, SegmentsType
  <2> HIDE DEF p, r, s
  <2>3. QED
    BY <2>1, <2>2, AppendProperties
<1>2. /\ Begins(x, u) <=> Len(r) < Len(s) /\ \A i \in 1 .. Len(r) : r[i] = s[i]
      /\ Begins(x, Parent[u]) <=> Len(r) < Len(p) /\ \A i \in 1 .. Len(r) : r[i] = p[i]
  BY DEF Begins
<1>3. r = p => x = Parent[u]
  BY <1>1, SegmentsTell
<1>4. Parent[u] \notin Members => Len(p) = 1
  BY <1>1 DEF UrisJoined, Items
<1>5. x = Parent[u] => r = p
  OBVIOUS
<1> HIDE DEF p, r, s
<1>6. ASSUME Begins(x, u) PROVE x = Parent[u] \/ (Parent[u] \in Members /\ Begins(x, Parent[u]))
  <2>1. CASE Len(r) = Len(p)
    <3>1. \A i \in 1 .. Len(r) : r[i] = p[i]
      BY <1>1, <1>2, <1>6, <2>1
    <3>2. r = p
      <4>1. r \in Seq(Words) /\ p \in Seq(Words)
        BY <1>1
      <4>2. QED
        BY <2>1, <3>1, <4>1, SeqEqual
    <3>3. QED
      BY <1>3, <3>2
  <2>2. CASE Len(r) # Len(p)
    <3>1. Len(r) < Len(p) /\ \A i \in 1 .. Len(r) : r[i] = p[i]
      BY <1>1, <1>2, <1>6, <2>2
    <3>2. QED
      BY <1>1, <1>2, <1>4, <3>1
  <2>3. QED
    BY <2>1, <2>2
<1>7. ASSUME x = Parent[u] \/ Begins(x, Parent[u]) PROVE Begins(x, u)
  BY <1>1, <1>2, <1>5, <1>7
<1>8. QED
  BY <1>6, <1>7

LEMMA AroundEquation ==
  ASSUME UrisJoined, NEW u \in Members
  PROVE  around[u] = {Parent[u]} \cup (IF Parent[u] \in Members THEN around[Parent[u]] ELSE {})
<1> DEFINE Outward(f) ==
             [v \in Members |->
                {Parent[v]} \cup (IF Parent[v] \in Members THEN f[Parent[v]] ELSE {})]
           f == [v \in Members |-> {x \in Items : Begins(x, v)}]
<1>1. \A v \in Members :
        f[v] = {Parent[v]} \cup (IF Parent[v] \in Members THEN f[Parent[v]] ELSE {})
  <2> TAKE v \in Members
  <2> DEFINE p == Parent[v]
  <2>1. p \in Items /\ f[v] = {x \in Items : Begins(x, v)}
    BY NameType
  <2>2. p \in Members => f[p] = {x \in Items : Begins(x, p)}
    OBVIOUS
  <2>3. \A x \in Items : Begins(x, v) <=> x = p \/ (p \in Members /\ Begins(x, p))
    BY BeginsParent
  <2> HIDE DEF f, p
  <2>4. f[v] = {p} \cup (IF p \in Members THEN f[p] ELSE {})
    BY <2>1, <2>2, <2>3
  <2>5. QED
    BY <2>4 DEF p
<1>2. f = Outward(f)
  BY <1>1
<1> HIDE DEF f
<1>3. around = CHOOSE g : g = Outward(g)
  BY DEF around
<1>4. around = Outward(around)
  BY <1>2, <1>3, Zenon
<1>5. QED
  BY <1>4

(* What is around u is what its segments begin with.                       *)
LEMMA AroundBegins ==
  ASSUME UrisJoined, NEW u \in Members
  PROVE  around[u] = {x \in Items : Begins(x, u)}
<1> DEFINE S == {k \in Nat : \A v \in Members :
                   Len(Segments[v]) <= k => around[v] = {x \in Items : Begins(x, v)}}
<1>1. \A v \in Members : v \in Items /\ Len(Segments[v]) \in Nat \ {0}
  BY NameType, SegmentsType
<1>2. 0 \in S
  BY <1>1
<1>3. ASSUME NEW k \in Nat, k \in S PROVE k + 1 \in S
  <2> SUFFICES ASSUME NEW v \in Members, Len(Segments[v]) <= k + 1
               PROVE  around[v] = {x \in Items : Begins(x, v)}
    OBVIOUS
  <2>1. Parent[v] \in Items /\ Len(Segments[Parent[v]]) \in Nat
        /\ Len(Segments[v]) = Len(Segments[Parent[v]]) + 1
    BY SegmentsLonger
  <2>2. Parent[v] \in Members => around[Parent[v]] = {x \in Items : Begins(x, Parent[v])}
    BY <1>3, <2>1
  <2>3. around[v] = {Parent[v]} \cup (IF Parent[v] \in Members THEN around[Parent[v]] ELSE {})
    BY AroundEquation
  <2>4. \A x \in Items : Begins(x, v) <=> x = Parent[v] \/ (Parent[v] \in Members /\ Begins(x, Parent[v]))
    BY BeginsParent
  <2>5. QED
    BY <2>1, <2>2, <2>3, <2>4
<1>4. Len(Segments[u]) \in S
  <2> HIDE DEF S
  <2>1. Len(Segments[u]) \in Nat
    BY <1>1
  <2>2. 0 .. Len(Segments[u]) \subseteq S
    BY <1>2, <1>3, <2>1, InductionUpTo
  <2>3. QED
    BY <2>1, <2>2
<1>5. QED
  BY <1>1, <1>4

LEMMA AroundType ==
  ASSUME UrisJoined, NEW u \in Members
  PROVE  /\ around[u] \subseteq Items /\ Parent[u] \in around[u] /\ u \notin around[u]
         /\ \A v \in Members : v \in around[u] => around[v] \subseteq around[u]
         /\ Parent[u] \in Archives => around[u] = {Parent[u]}
<1>1. \A x \in Items : Len(Segments[x]) \in Nat
  BY SegmentsType
<1>2. \A v \in Members : around[v] = {x \in Items : Begins(x, v)}
  BY AroundBegins
<1>3. u \in Items /\ Parent[u] \in Items
  BY NameType
<1>4. u \notin around[u]
  BY <1>1, <1>2, <1>3 DEF Begins
<1>5. ASSUME NEW v \in Members, v \in around[u], NEW x \in around[v] PROVE x \in around[u]
  <2>1. x \in Items /\ v \in Items /\ Begins(x, v) /\ Begins(v, u)
    BY <1>2, <1>5
  <2> DEFINE a == Segments[x]
             b == Segments[v]
             c == Segments[u]
  <2>2. /\ Len(a) \in Nat /\ Len(b) \in Nat /\ Len(c) \in Nat
        /\ Len(a) < Len(b) /\ Len(b) < Len(c)
        /\ \A i \in 1 .. Len(a) : a[i] = b[i]
        /\ \A i \in 1 .. Len(b) : b[i] = c[i]
    BY <1>1, <1>3, <2>1 DEF Begins
  <2> HIDE DEF a, b, c
  <2>3. Len(a) < Len(c) /\ \A i \in 1 .. Len(a) : a[i] = c[i]
    BY <2>2
  <2>4. Begins(x, u)
    BY <2>3 DEF Begins, a, c
  <2>5. QED
    BY <1>2, <2>1, <2>4
<1>6. around[u] = {Parent[u]} \cup (IF Parent[u] \in Members THEN around[Parent[u]] ELSE {})
  BY AroundEquation
<1>7. Parent[u] \in Archives => Parent[u] \notin Members
  BY NestedAssumption
<1>8. QED
  BY <1>2, <1>4, <1>5, <1>6, <1>7

(* The containers that a member is in are counted by its segments.         *)
LEMMA AroundCounted ==
  ASSUME UrisJoined, NEW u \in Members
  PROVE  /\ IsFiniteSet(around[u]) /\ Cardinality(around[u]) = Len(Segments[u]) - 1
         /\ Cardinality(around[u]) \in Nat \ {0}
<1> DEFINE Counted(v) == /\ IsFiniteSet(around[v])
                         /\ Cardinality(around[v]) = Len(Segments[v]) - 1
           S == {k \in Nat : \A v \in Members : Len(Segments[v]) <= k => Counted(v)}
<1>1. \A v \in Members : v \in Items /\ Len(Segments[v]) \in Nat \ {0}
  BY NameType, SegmentsType
<1>2. 0 \in S
  BY <1>1
<1>3. ASSUME NEW k \in Nat, k \in S PROVE k + 1 \in S
  <2> SUFFICES ASSUME NEW v \in Members, Len(Segments[v]) <= k + 1 PROVE Counted(v)
    OBVIOUS
  <2> DEFINE p == Parent[v]
  <2>1. /\ p \in Items /\ Len(Segments[p]) \in Nat /\ Len(Segments[v]) = Len(Segments[p]) + 1
    BY SegmentsLonger
  <2>2. CASE p \in Members
    <3>1. IsFiniteSet(around[p]) /\ Cardinality(around[p]) = Len(Segments[p]) - 1
      BY <1>3, <2>1, <2>2
    <3>2. p \notin around[p]
      BY <2>2, AroundType
    <3>3. around[v] = around[p] \cup {p}
      BY <2>2, AroundEquation
    <3> HIDE DEF p
    <3>4. IsFiniteSet(around[p] \cup {p}) /\ Cardinality(around[p] \cup {p}) = Cardinality(around[p]) + 1
      BY <3>1, <3>2, FS_AddElement
    <3>5. QED
      BY <2>1, <3>1, <3>3, <3>4
  <2>3. CASE p \notin Members
    <3>1. around[v] = {p} /\ Len(Segments[p]) = 1
      BY <2>1, <2>3, AroundEquation DEF UrisJoined, Items
    <3> HIDE DEF p
    <3>2. IsFiniteSet({p}) /\ Cardinality({p}) = 1
      BY FS_Singleton
    <3>3. QED
      BY <2>1, <3>1, <3>2
  <2>4. QED
    BY <2>2, <2>3
<1>4. Len(Segments[u]) \in S
  <2> HIDE DEF S
  <2>1. Len(Segments[u]) \in Nat
    BY <1>1
  <2>2. 0 .. Len(Segments[u]) \subseteq S
    BY <1>2, <1>3, <2>1, InductionUpTo
  <2>3. QED
    BY <2>1, <2>2
<1>5. Counted(u)
  BY <1>1, <1>4
<1>6. Len(Segments[u]) # 1
  <2>1. Parent[u] \in Items /\ Len(Segments[u]) = Len(Segments[Parent[u]]) + 1
    BY SegmentsLonger
  <2>2. Len(Segments[Parent[u]]) \in Nat \ {0}
    BY <2>1, SegmentsType
  <2>3. QED
    BY <2>1, <2>2
<1>7. QED
  BY <1>1, <1>5, <1>6

(* The way down from x to what lies in it begins with a child of x.        *)
LEMMA WayDown ==
  ASSUME UrisJoined, NEW u \in Members, NEW x \in around[u]
  PROVE  \E m \in Members : Parent[m] = x /\ (m = u \/ m \in around[u])
<1> DEFINE S == {k \in Nat : \A v \in Members : Len(Segments[v]) <= k /\ x \in around[v] =>
                   \E m \in Members : Parent[m] = x /\ (m = v \/ m \in around[v])}
<1>1. \A v \in Members : v \in Items /\ Len(Segments[v]) \in Nat \ {0}
  BY NameType, SegmentsType
<1>2. 0 \in S
  BY <1>1
<1>3. ASSUME NEW k \in Nat, k \in S PROVE k + 1 \in S
  <2> SUFFICES ASSUME NEW v \in Members, Len(Segments[v]) <= k + 1, x \in around[v]
               PROVE  \E m \in Members : Parent[m] = x /\ (m = v \/ m \in around[v])
    OBVIOUS
  <2>1. CASE x = Parent[v]
    BY <2>1
  <2>2. CASE x # Parent[v]
    <3>1. Parent[v] \in Members /\ x \in around[Parent[v]]
      BY <2>2, AroundEquation
    <3>2. Len(Segments[Parent[v]]) <= k
      BY SegmentsLonger
    <3>3. PICK m \in Members : Parent[m] = x /\ (m = Parent[v] \/ m \in around[Parent[v]])
      BY <1>3, <3>1, <3>2
    <3>4. Parent[v] \in around[v] /\ around[Parent[v]] \subseteq around[v]
      BY <3>1, AroundType
    <3>5. QED
      BY <3>3, <3>4
  <2>3. QED
    BY <2>1, <2>2
<1>4. Len(Segments[u]) \in S
  <2> HIDE DEF S
  <2>1. Len(Segments[u]) \in Nat
    BY <1>1
  <2>2. 0 .. Len(Segments[u]) \subseteq S
    BY <1>2, <1>3, <2>1, InductionUpTo
  <2>3. QED
    BY <2>1, <2>2
<1>5. QED
  BY <1>1, <1>4

(* A uri leads to the member that it was put together for                  *)
(* (_entry, nested_source.py:200): no two members of a container are        *)
(* found by the last segment of one uri, whatever characters their names   *)
(* are of, the separator and the escape among them.                        *)
THEOREM UrisTell == UrisJoined => UrisName
<1> SUFFICES ASSUME UrisJoined, NEW u \in Members, NEW m \in Members,
                    Parent[m] = Container[u], Name[m] = Last(Segments[u])
             PROVE  m = u
  BY DEF UrisName
<1>1. Parent[m] = Parent[u] /\ Name[m] = Name[u]
  BY ContainerIsParent
<1>2. EntryUri[m] = EntryUri[u]
  BY <1>1 DEF EntryUri
<1>3. Address[m] = Address[u] /\ m \in Items /\ u \in Items
  BY <1>2 DEF UrisJoined, Items
<1>4. QED
  BY <1>3, NestedAssumption

(* The containers that a walk has entered when it lists a member           *)
(* (_members_of, nested_source.py:394) are as many as a read of it counts  *)
(* by the segments of its uri (_resolve, nested_source.py:224).            *)
THEOREM DepthsAgree ==
  ASSUME UrisJoined
  PROVE  \A u \in Members : Depth[u] = Cardinality(around[u])
BY AroundCounted DEF Depth

----------------------------------------------------------------------------
(* What a walk has listed, and what it has yet to                          *)

(* u is x, or lies in it.                                                  *)
Under(u, x) == u = x \/ x \in around[u]

Apart(x, y) == x \in Members /\ y \in Members /\ ~Under(x, y) /\ ~Under(y, x)

(* What lies in one of Q or is one of them.                                *)
Covered(Q) == {u \in Members : \E q \in Q : Under(u, q)}

(* What a walk of a has to list that could not look into sk.               *)
Due(a, sk) ==
  {u \in Members : /\ a \in around[u]
                   /\ Cardinality(around[u]) <= MaxDepth
                   /\ around[u] \cap sk = {}}

Children(x) == {m \in Members : Parent[m] = x}

LEMMA ChildrenProperties ==
  ASSUME UrisJoined, NEW h \in Members, NEW m \in Members, Parent[m] = h
  PROVE  /\ around[m] = {h} \cup around[h]
         /\ Cardinality(around[m]) = Cardinality(around[h]) + 1
         /\ \A r \in Members : Apart(h, r) => Apart(m, r)
<1>1. around[m] = {h} \cup around[h]
  BY AroundEquation
<1>2. IsFiniteSet(around[h]) /\ h \notin around[h] /\ Cardinality(around[h]) \in Nat
  BY AroundType, AroundCounted
<1>3. Cardinality(around[h] \cup {h}) = Cardinality(around[h]) + 1
  BY <1>2, FS_AddElement
<1>4. ASSUME NEW r \in Members, Apart(h, r) PROVE Apart(m, r)
  <2>1. m # r
    BY <1>1, <1>4 DEF Apart, Under
  <2>2. r \notin around[m]
    BY <1>1, <1>4 DEF Apart, Under
  <2>3. m \in around[r] => h \in around[r]
    BY <1>1, AroundType
  <2>4. QED
    BY <1>4, <2>1, <2>2, <2>3 DEF Apart, Under
<1>5. QED
  BY <1>1, <1>3, <1>4

LEMMA SiblingsApart ==
  ASSUME UrisJoined, NEW m \in Members, NEW n \in Members, Parent[m] = Parent[n], m # n
  PROVE  Apart(m, n)
<1>1. around[m] = around[n]
  BY AroundEquation
<1>2. QED
  BY <1>1, AroundType DEF Apart, Under

(* The entry h has been listed and is left behind: nobody looks into it.   *)
LEMMA Leaving ==
  ASSUME UrisJoined
  PROVE  \A a, sk, R, h : h \in Due(a, sk) /\ (\A r \in R : Apart(h, r)) =>
           (Due(a, sk) \ Covered({h} \cup R)) \cup {h} = Due(a, sk \cup {h}) \ Covered(R)
<1> TAKE a, sk, R, h
<1> HAVE h \in Due(a, sk) /\ (\A r \in R : Apart(h, r))
<1>1. h \in Members /\ h \notin around[h] /\ h \notin Covered(R)
  BY AroundType DEF Due, Covered, Apart
<1>2. QED
  BY <1>1 DEF Due, Covered, Under

(* The entry h has been listed and what is in it comes next.               *)
LEMMA Entering ==
  ASSUME UrisJoined, NEW R, NEW h \in Members, \A r \in R : Apart(h, r)
  PROVE  /\ h \in Covered({h} \cup R)
         /\ Covered(Children(h) \cup R) = Covered({h} \cup R) \ {h}
<1>1. h \notin Covered(R)
  BY DEF Covered, Apart
<1>2. ASSUME NEW u \in Members
      PROVE  (\E m \in Children(h) : Under(u, m)) <=> h \in around[u]
  <2>1. h \in around[u] => \E m \in Members : Parent[m] = h /\ (m = u \/ m \in around[u])
    BY WayDown
  <2>2. ASSUME NEW m \in Members, Parent[m] = h, m = u \/ m \in around[u] PROVE h \in around[u]
    BY <2>2, AroundType
  <2>3. QED
    BY <2>1, <2>2 DEF Children, Under
<1>3. h \notin around[h]
  BY AroundType
<1>4. \A u \in Members : u \in Covered(Children(h) \cup R) <=> h \in around[u] \/ u \in Covered(R)
  BY <1>2 DEF Covered
<1>5. \A u \in Members : u \in Covered({h} \cup R) <=> u = h \/ h \in around[u] \/ u \in Covered(R)
  BY DEF Covered, Under
<1>6. Covered(Children(h) \cup R) \subseteq Members /\ Covered({h} \cup R) \subseteq Members
  BY DEF Covered
<1>7. QED
  BY <1>1, <1>3, <1>4, <1>5, <1>6

(* ... or is too deep to be looked into.                                   *)
LEMMA EnteringTooDeep ==
  ASSUME UrisJoined, NEW a, NEW sk, NEW R, NEW h \in Due(a, sk), \A r \in R : Apart(h, r),
         Cardinality(around[h]) >= MaxDepth
  PROVE  (Due(a, sk) \ Covered({h} \cup R)) \cup {h} = Due(a, sk) \ Covered(R)
<1>1. h \in Members /\ h \notin Covered(R)
  BY DEF Due, Covered, Apart
<1>2. ASSUME NEW u \in Due(a, sk), h \in around[u] PROVE FALSE
  <2>1. u \in Members /\ Cardinality(around[u]) <= MaxDepth
    BY DEF Due
  <2>2. around[h] \subseteq around[u] /\ h \notin around[h]
    BY <1>1, <1>2, <2>1, AroundType
  <2>3. IsFiniteSet(around[u]) /\ Cardinality(around[u]) \in Nat /\ Cardinality(around[h]) \in Nat
        /\ IsFiniteSet(around[h])
    BY <1>1, <2>1, AroundCounted
  <2>4. Cardinality(around[h] \cup {h}) = Cardinality(around[h]) + 1
    BY <2>2, <2>3, FS_AddElement
  <2>5. around[h] \cup {h} \subseteq around[u]
    BY <1>2, <2>2
  <2>6. Cardinality(around[h] \cup {h}) <= Cardinality(around[u])
    BY <2>3, <2>5, FS_Subset
  <2>7. QED
    BY <2>1, <2>3, <2>4, <2>6, NestedAssumption
<1>3. \A u \in Members : u \in Covered({h} \cup R) <=> u = h \/ h \in around[u] \/ u \in Covered(R)
  BY DEF Covered, Under
<1>4. Due(a, sk) \subseteq Members
  BY DEF Due
<1>5. QED
  BY <1>1, <1>2, <1>3, <1>4

(* A walk begins with what is in the archive, or ends at once.             *)
LEMMA Beginning ==
  ASSUME UrisJoined, NEW a \in Archives
  PROVE  /\ Due(a, {}) \ Covered(Children(a)) = {}
         /\ MaxDepth = 0 => Due(a, {}) = {}
         /\ Due(a, {a}) = {}
         /\ \A m \in Children(a) : around[m] = {a} /\ Cardinality(around[m]) = 1
<1>1. ASSUME NEW u \in Members, a \in around[u] PROVE u \in Covered(Children(a))
  BY <1>1, WayDown DEF Covered, Children, Under
<1>2. ASSUME NEW m \in Children(a) PROVE around[m] = {a} /\ Cardinality(around[m]) = 1
  <2>1. around[m] = {a}
    BY AroundType DEF Children
  <2>2. QED
    BY <2>1, FS_Singleton
<1>3. \A u \in Members : Cardinality(around[u]) \in Nat \ {0}
  BY AroundCounted
<1>4. QED
  BY <1>1, <1>2, <1>3, NestedAssumption DEF Due

----------------------------------------------------------------------------
(* What SetToSeq makes of a set: all of it, each once.                     *)
LEMMA SetToSeqProperties ==
  ASSUME NEW S, IsFiniteSet(S)
  PROVE  /\ SetToSeq(S) \in Seq(S)
         /\ {SetToSeq(S)[i] : i \in DOMAIN SetToSeq(S)} = S
         /\ \A i, j \in DOMAIN SetToSeq(S) : i # j => SetToSeq(S)[i] # SetToSeq(S)[j]
<1> DEFINE n == Cardinality(S)
           f == SetToSeq(S)
<1>1. n \in Nat /\ ExistsBijection(1 .. n, S)
  BY FS_CardinalityType
<1>2. \E g \in [1 .. n -> S] : IsInjective(g)
  BY <1>1 DEF ExistsBijection, Bijection, Injection, IsInjective
<1>3. f \in [1 .. n -> S] /\ IsInjective(f)
  BY <1>2 DEF SetToSeq
<1> HIDE DEF f
<1>4. f \in Injection(1 .. n, S)
  BY <1>3 DEF Injection
<1>5. IsFiniteSet(1 .. n) /\ Cardinality(1 .. n) = n
  BY <1>1, FS_Interval
<1>6. f \in Surjection(1 .. n, S)
  BY <1>4, <1>5, FS_Injection
<1>7. \A s \in S : \E i \in 1 .. n : f[i] = s
  BY <1>6 DEF Surjection
<1>8. f \in Seq(S) /\ DOMAIN f = 1 .. n
  BY <1>1, <1>3
<1>9. QED
  BY <1>3, <1>7, <1>8 DEF IsInjective, f

Entry == [of : Members, depth : Nat]
Of(td) == {td[i].of : i \in DOMAIN td}

(* The entries that a walk of a has yet to list: each within its bounds,   *)
(* apart from the others and from what it could not look into.             *)
Goes(a, td, sk) ==
  /\ td \in Seq(Entry)
  /\ \A i \in DOMAIN td :
       /\ td[i].of \in Due(a, sk)
       /\ td[i].depth + 1 = Cardinality(around[td[i].of])
       /\ \A s \in sk : Apart(s, td[i].of)
  /\ \A i, j \in DOMAIN td : i # j => Apart(td[i].of, td[j].of)

Uris(S) == {Address[u] : u \in S}

(* All that is due is listed but what is covered by an entry ...           *)
Looking(td, fd, sk) ==
  \E a \in Archives : Goes(a, td, sk) /\ fd = Uris(Due(a, sk) \ Covered(Of(td)))

(* ... and the first entry, once it is listed itself.                      *)
Listed(td, fd, sk) ==
  /\ td # <<>>
  /\ \E a \in Archives :
       /\ Goes(a, td, sk)
       /\ fd = Uris((Due(a, sk) \ Covered(Of(td))) \cup {Head(td).of})

LEMMA EntriesProperties ==
  ASSUME NEW x, NEW d \in Nat
  PROVE  /\ Entries(x, d) \in Seq(Entry)
         /\ d >= MaxDepth => Entries(x, d) = <<>>
         /\ d < MaxDepth => Of(Entries(x, d)) = Children(x)
         /\ \A i \in DOMAIN Entries(x, d) :
              Entries(x, d)[i].of \in Children(x) /\ Entries(x, d)[i].depth = d
         /\ \A i, j \in DOMAIN Entries(x, d) : i # j => Entries(x, d)[i].of # Entries(x, d)[j].of
<1>1. MaxDepth \in Nat /\ IsFiniteSet(Members)
  BY NestedAssumption
<1>2. CASE d >= MaxDepth
  <2>1. Entries(x, d) = <<>>
    BY <1>2 DEF Entries
  <2>2. <<>> \in Seq(Entry) /\ DOMAIN <<>> = {}
    OBVIOUS
  <2>3. QED
    BY <1>1, <1>2, <2>1, <2>2
<1>3. CASE d < MaxDepth
  <2> DEFINE C == Children(x)
             e == [m \in C |-> [of |-> m, depth |-> d]]
             S == {[of |-> m, depth |-> d] : m \in C}
             s == SetToSeq(S)
  <2>1. IsFiniteSet(C)
    BY <1>1, FS_Subset DEF Children
  <2>2. C \subseteq Members
    BY DEF Children
  <2> HIDE DEF C
  <2>3. e \in Surjection(C, S)
    BY DEF Surjection
  <2>4. IsFiniteSet(S)
    BY <2>1, <2>3, FS_Surjection
  <2>5. S \subseteq Entry /\ \A r \in S : r.of \in C /\ r.depth = d /\ r = [of |-> r.of, depth |-> d]
    BY <2>2 DEF Entry
  <2>6. C = {r.of : r \in S}
    <3>1. \A m \in C : [of |-> m, depth |-> d] \in S /\ [of |-> m, depth |-> d].of = m
      OBVIOUS
    <3>2. QED
      BY <2>5, <3>1
  <2>7. Entries(x, d) = s
    BY <1>1, <1>3 DEF Entries, C, Children
  <2> HIDE DEF S
  <2>8. /\ s \in Seq(S) /\ {s[i] : i \in DOMAIN s} = S
        /\ \A i, j \in DOMAIN s : i # j => s[i] # s[j]
    BY <2>4, SetToSeqProperties
  <2> HIDE DEF s
  <2>9. s \in Seq(Entry)
    BY <2>5, <2>8, SeqMonotonic
  <2>10. \A i \in DOMAIN s : s[i] \in S
    BY <2>8
  <2>11. Of(s) = C
    BY <2>6, <2>8, <2>10 DEF Of
  <2>12. \A i \in DOMAIN s : s[i].of \in C /\ s[i].depth = d
    BY <2>5, <2>10
  <2>13. \A i, j \in DOMAIN s : i # j => s[i].of # s[j].of
    BY <2>5, <2>8, <2>10
  <2>14. QED
    BY <1>1, <1>3, <2>7, <2>9, <2>11, <2>12, <2>13 DEF C
<1>4. QED
  BY <1>1, <1>2, <1>3

LEMMA GoesEntries ==
  ASSUME NEW td \in Seq(Entry), td # <<>>
  PROVE  /\ Head(td) = td[1] /\ 1 \in DOMAIN td /\ Head(td) \in Entry
         /\ Tail(td) \in Seq(Entry)
         /\ Of(td) = {Head(td).of} \cup Of(Tail(td))
         /\ \A i \in DOMAIN Tail(td) : i + 1 \in DOMAIN td /\ i + 1 # 1 /\ Tail(td)[i] = td[i + 1]
<1> DEFINE r == Tail(td)
<1>1. /\ DOMAIN td = 1 .. Len(td) /\ Len(td) \in Nat \ {0} /\ Head(td) = td[1]
      /\ r \in Seq(Entry) /\ DOMAIN r = 1 .. Len(td) - 1
      /\ \A i \in 1 .. Len(td) - 1 : r[i] = td[i + 1]
  BY HeadTailProperties
<1> HIDE DEF r
<1>2. \A i \in DOMAIN td : td[i] \in Entry
  OBVIOUS
<1>3. \A i \in DOMAIN r : i + 1 \in DOMAIN td /\ i + 1 # 1 /\ r[i] = td[i + 1]
  BY <1>1
<1>4. \A i \in DOMAIN td : i # 1 => i - 1 \in DOMAIN r /\ r[i - 1] = td[i]
  BY <1>1
<1>5. Of(td) = {td[1].of} \cup Of(r)
  <2>1. ASSUME NEW x \in Of(td) PROVE x \in {td[1].of} \cup Of(r)
    BY <1>4 DEF Of
  <2>2. ASSUME NEW x \in Of(r) PROVE x \in Of(td)
    BY <1>3 DEF Of
  <2>3. td[1].of \in Of(td)
    BY <1>1 DEF Of
  <2>4. QED
    BY <2>1, <2>2, <2>3
<1>6. QED
  BY <1>1, <1>2, <1>3, <1>5 DEF r

(* The first entry is done with, and may have been skipped.                *)
LEMMA GoesOn ==
  ASSUME UrisJoined, NEW a, NEW td, NEW sk, Goes(a, td, sk), td # <<>>
  PROVE  /\ Head(td) \in Entry /\ Head(td).of \in Due(a, sk)
         /\ Head(td).depth + 1 = Cardinality(around[Head(td).of])
         /\ Of(td) = {Head(td).of} \cup Of(Tail(td))
         /\ \A r \in Of(Tail(td)) : Apart(Head(td).of, r)
         /\ Goes(a, Tail(td), sk) /\ Goes(a, Tail(td), sk \cup {Head(td).of})
<1> DEFINE h == Head(td).of
           r == Tail(td)
<1>1. /\ Head(td) = td[1] /\ 1 \in DOMAIN td /\ Head(td) \in Entry /\ r \in Seq(Entry)
      /\ Of(td) = {h} \cup Of(r)
      /\ \A i \in DOMAIN r : i + 1 \in DOMAIN td /\ i + 1 # 1 /\ r[i] = td[i + 1]
  BY GoesEntries DEF Goes
<1>2. /\ h \in Due(a, sk) /\ Head(td).depth + 1 = Cardinality(around[h])
  BY <1>1 DEF Goes
<1>3. ASSUME NEW i \in DOMAIN r
      PROVE  /\ r[i].of \in Due(a, sk) /\ r[i].depth + 1 = Cardinality(around[r[i].of])
             /\ \A s \in sk : Apart(s, r[i].of)
             /\ Apart(h, r[i].of)
  BY <1>1 DEF Goes
<1>4. ASSUME NEW i \in DOMAIN r, NEW j \in DOMAIN r, i # j PROVE Apart(r[i].of, r[j].of)
  <2>1. i \in Nat /\ j \in Nat
    BY <1>1
  <2>2. i + 1 # j + 1
    BY <1>4, <2>1
  <2>3. QED
    BY <1>1, <2>2 DEF Goes
<1> HIDE DEF h, r
<1>5. \A i \in DOMAIN r : r[i].of \in Due(a, sk \cup {h})
  BY <1>3 DEF Due, Apart, Under
<1>6. Goes(a, r, sk) /\ Goes(a, r, sk \cup {h})
  BY <1>1, <1>3, <1>4, <1>5 DEF Goes
<1>7. \A x \in Of(r) : Apart(h, x)
  BY <1>3 DEF Of
<1>8. QED
  BY <1>1, <1>2, <1>6, <1>7 DEF h, r

(* What is in the first entry comes before the rest.                       *)
LEMMA GoesIn ==
  ASSUME UrisJoined, NEW a, NEW td, NEW sk, Goes(a, td, sk), td # <<>>,
         Head(td).depth + 1 < MaxDepth
  PROVE  LET new == Entries(Head(td).of, Head(td).depth + 1) \o Tail(td)
         IN  /\ Goes(a, new, sk)
             /\ Of(new) = Children(Head(td).of) \cup Of(Tail(td))
<1> DEFINE h == Head(td).of
           d == Head(td).depth + 1
           r == Tail(td)
           e == Entries(h, d)
           new == e \o r
<1>1. /\ Head(td) \in Entry /\ h \in Due(a, sk) /\ d = Cardinality(around[h])
      /\ (\A x \in Of(r) : Apart(h, x)) /\ Goes(a, r, sk)
  BY GoesOn
<1>2. h \in Members /\ d \in Nat
  BY <1>1 DEF Entry
<1>3. \A s \in sk : Apart(s, h)
  <2>1. Head(td) = td[1] /\ 1 \in DOMAIN td
    BY GoesEntries DEF Goes
  <2>2. QED
    BY <2>1 DEF Goes
<1>4. /\ e \in Seq(Entry) /\ Of(e) = Children(h)
      /\ \A i \in DOMAIN e : e[i].of \in Children(h) /\ e[i].depth = d
      /\ \A i, j \in DOMAIN e : i # j => e[i].of # e[j].of
  BY <1>2, EntriesProperties
<1>5. r \in Seq(Entry)
  BY <1>1 DEF Goes
<1>6. MaxDepth \in Nat /\ d < MaxDepth
  BY NestedAssumption
<1> HIDE DEF h, d, r, e
<1>7. ASSUME NEW m \in Children(h)
      PROVE  /\ m \in Members /\ m \in Due(a, sk) /\ d + 1 = Cardinality(around[m])
             /\ \A s \in sk : Apart(s, m)
             /\ \A x \in Of(r) : Apart(m, x) /\ Apart(x, m)
             /\ \A n \in Children(h) : n # m => Apart(m, n)
  <2>1. m \in Members /\ Parent[m] = h /\ \A n \in Children(h) : n \in Members /\ Parent[n] = h
    BY DEF Children
  <2>2. /\ around[m] = {h} \cup around[h]
        /\ Cardinality(around[m]) = d + 1
        /\ \A x \in Members : Apart(h, x) => Apart(m, x)
    BY <1>1, <1>2, <2>1, ChildrenProperties
  <2>3. m \in Due(a, sk)
    <3>1. h \notin sk
      BY <1>3 DEF Apart, Under
    <3>2. a \in around[h] /\ around[h] \cap sk = {}
      BY <1>1 DEF Due
    <3>3. Cardinality(around[m]) <= MaxDepth
      BY <1>2, <1>6, <2>2
    <3>4. a \in around[m] /\ around[m] \cap sk = {}
      BY <2>2, <3>1, <3>2
    <3>5. QED
      BY <2>1, <3>3, <3>4 DEF Due
  <2>4. \A x, y : Apart(x, y) <=> Apart(y, x)
    BY DEF Apart
  <2>5. \A x, y : Apart(x, y) => x \in Members /\ y \in Members
    BY DEF Apart
  <2>6. \A n \in Children(h) : n # m => Apart(m, n)
    BY <2>1, SiblingsApart
  <2>7. QED
    BY <1>1, <1>3, <2>1, <2>2, <2>3, <2>4, <2>5, <2>6
<1>8. /\ new \in Seq(Entry) /\ DOMAIN e = 1 .. Len(e) /\ DOMAIN r = 1 .. Len(r)
      /\ Len(e) \in Nat /\ Len(r) \in Nat /\ DOMAIN new = 1 .. Len(e) + Len(r)
      /\ \A i \in 1 .. Len(e) + Len(r) : new[i] = IF i <= Len(e) THEN e[i] ELSE r[i - Len(e)]
  BY <1>4, <1>5, ConcatProperties
<1> HIDE DEF new
<1>9. ASSUME NEW i \in DOMAIN new
      PROVE  \/ i \in DOMAIN e /\ new[i] = e[i]
             \/ i \notin DOMAIN e /\ i - Len(e) \in DOMAIN r /\ new[i] = r[i - Len(e)]
  BY <1>8
<1>10. ASSUME NEW i \in DOMAIN new
       PROVE  /\ new[i].of \in Due(a, sk)
              /\ new[i].depth + 1 = Cardinality(around[new[i].of])
              /\ \A s \in sk : Apart(s, new[i].of)
  <2>1. CASE i \in DOMAIN e /\ new[i] = e[i]
    BY <1>4, <1>7, <2>1
  <2>2. CASE i - Len(e) \in DOMAIN r /\ new[i] = r[i - Len(e)]
    BY <1>1, <2>2 DEF Goes
  <2>3. QED
    BY <1>9, <2>1, <2>2
<1>11. ASSUME NEW i \in DOMAIN new, NEW j \in DOMAIN new, i # j
       PROVE  Apart(new[i].of, new[j].of)
  <2>1. CASE i \in DOMAIN e /\ new[i] = e[i] /\ j \in DOMAIN e /\ new[j] = e[j]
    BY <1>4, <1>7, <1>11, <2>1
  <2>2. CASE i \in DOMAIN e /\ new[i] = e[i] /\ j - Len(e) \in DOMAIN r /\ new[j] = r[j - Len(e)]
    <3>1. new[j].of \in Of(r)
      BY <2>2 DEF Of
    <3>2. QED
      BY <1>4, <1>7, <2>2, <3>1
  <2>3. CASE i - Len(e) \in DOMAIN r /\ new[i] = r[i - Len(e)] /\ j \in DOMAIN e /\ new[j] = e[j]
    <3>1. new[i].of \in Of(r)
      BY <2>3 DEF Of
    <3>2. QED
      BY <1>4, <1>7, <2>3, <3>1
  <2>4. CASE /\ i - Len(e) \in DOMAIN r /\ new[i] = r[i - Len(e)]
             /\ j - Len(e) \in DOMAIN r /\ new[j] = r[j - Len(e)]
    <3>1. i - Len(e) # j - Len(e)
      BY <1>8, <1>11
    <3>2. QED
      BY <1>1, <2>4, <3>1 DEF Goes
  <2>5. QED
    BY <1>9, <2>1, <2>2, <2>3, <2>4
<1>12. Goes(a, new, sk)
  BY <1>8, <1>10, <1>11 DEF Goes
<1>13. Of(new) = Children(h) \cup Of(r)
  <2>1. ASSUME NEW x \in Of(new) PROVE x \in Of(e) \cup Of(r)
    BY <1>9 DEF Of
  <2>2. ASSUME NEW x \in Of(e) PROVE x \in Of(new)
    <3>1. \A i \in DOMAIN e : i \in DOMAIN new /\ new[i] = e[i]
      BY <1>8
    <3>2. QED
      BY <3>1 DEF Of
  <2>3. ASSUME NEW x \in Of(r) PROVE x \in Of(new)
    <3>1. \A i \in DOMAIN r : i + Len(e) \in DOMAIN new /\ new[i + Len(e)] = r[i]
      BY <1>8
    <3>2. QED
      BY <3>1 DEF Of
  <2>4. QED
    BY <1>4, <2>1, <2>2, <2>3
<1>14. QED
  BY <1>12, <1>13 DEF h, d, r, e, new

----------------------------------------------------------------------------
(* The steps of a walk                                                     *)

LEMMA WalkBegins ==
  ASSUME UrisJoined, NEW a \in Archives
  PROVE  Looking(Entries(a, 0), {}, {}) /\ Looking(<<>>, {}, {a})
<1> DEFINE e == Entries(a, 0)
<1>1. MaxDepth \in Nat
  BY NestedAssumption
<1>2. /\ e \in Seq(Entry)
      /\ 0 >= MaxDepth => e = <<>>
      /\ 0 < MaxDepth => Of(e) = Children(a)
      /\ \A i \in DOMAIN e : e[i].of \in Children(a) /\ e[i].depth = 0
      /\ \A i, j \in DOMAIN e : i # j => e[i].of # e[j].of
  BY EntriesProperties
<1>3. /\ Due(a, {}) \ Covered(Children(a)) = {} /\ Due(a, {a}) = {}
      /\ MaxDepth = 0 => Due(a, {}) = {}
      /\ \A m \in Children(a) : around[m] = {a} /\ Cardinality(around[m]) = 1
  BY Beginning
<1>4. \A m, n \in Children(a) : m # n => Apart(m, n)
  BY SiblingsApart DEF Children
<1>5. Uris({}) = {} /\ Of(<<>>) = {}
  BY DEF Uris, Of
<1>6. Goes(a, <<>>, {a})
  BY DEF Goes
<1>7. Looking(<<>>, {}, {a})
  <2>1. Uris(Due(a, {a}) \ Covered(Of(<<>>))) = {}
    BY <1>3, <1>5
  <2>2. QED
    BY <1>6, <2>1 DEF Looking
<1> HIDE DEF e
<1>8. Goes(a, e, {})
  <2>1. ASSUME NEW i \in DOMAIN e
        PROVE  /\ e[i].of \in Due(a, {}) /\ e[i].depth + 1 = Cardinality(around[e[i].of])
    <3>1. MaxDepth # 0
      <4>1. e # <<>>
        BY <2>1
      <4>2. QED
        BY <1>2, <4>1
    <3>2. 1 <= MaxDepth
      BY <1>1, <3>1
    <3>3. e[i].of \in Members /\ around[e[i].of] = {a} /\ Cardinality(around[e[i].of]) = 1
          /\ e[i].depth = 0
      BY <1>2, <1>3 DEF Children
    <3>4. QED
      BY <3>2, <3>3 DEF Due
  <2>2. \A i, j \in DOMAIN e : i # j => Apart(e[i].of, e[j].of)
    BY <1>2, <1>4
  <2>3. QED
    BY <1>2, <2>1, <2>2 DEF Goes
<1>9. Due(a, {}) \ Covered(Of(e)) = {}
  <2>1. CASE MaxDepth = 0
    BY <1>3, <2>1
  <2>2. CASE MaxDepth # 0
    <3>1. 0 < MaxDepth
      BY <1>1, <2>2
    <3>2. QED
      BY <1>2, <1>3, <3>1
  <2>3. QED
    BY <2>1, <2>2
<1>10. Looking(e, {}, {})
  BY <1>5, <1>8, <1>9 DEF Looking
<1>11. QED
  BY <1>7, <1>10 DEF e

LEMMA WalkLists ==
  ASSUME UrisJoined, NEW td, NEW fd, NEW sk, Looking(td, fd, sk), td # <<>>
  PROVE  /\ Head(td).of \in Members
         /\ Listed(td, fd \cup {EntryUri[Head(td).of]}, sk)
<1> DEFINE h == Head(td).of
<1>1. PICK a \in Archives : Goes(a, td, sk) /\ fd = Uris(Due(a, sk) \ Covered(Of(td)))
  BY DEF Looking
<1>2. h \in Members
  BY <1>1, GoesOn DEF Due
<1>3. EntryUri[h] = Address[h]
  BY <1>2 DEF UrisJoined
<1> HIDE DEF h
<1>4. fd \cup {Address[h]} = Uris((Due(a, sk) \ Covered(Of(td))) \cup {h})
  BY <1>1 DEF Uris
<1>5. QED
  BY <1>1, <1>2, <1>3, <1>4 DEF Listed, h

LEMMA WalkSkips ==
  ASSUME UrisJoined, NEW td, NEW fd, NEW sk, Listed(td, fd, sk)
  PROVE  Looking(Tail(td), fd, sk \cup {Head(td).of})
<1> DEFINE h == Head(td).of
           R == Of(Tail(td))
<1>1. PICK a \in Archives : /\ Goes(a, td, sk)
                            /\ fd = Uris((Due(a, sk) \ Covered(Of(td))) \cup {h})
  BY DEF Listed
<1>2. /\ h \in Due(a, sk) /\ Of(td) = {h} \cup R /\ \A r \in R : Apart(h, r)
      /\ Goes(a, Tail(td), sk \cup {h})
  BY <1>1, GoesOn DEF Listed
<1> HIDE DEF h, R
<1>3. (Due(a, sk) \ Covered({h} \cup R)) \cup {h} = Due(a, sk \cup {h}) \ Covered(R)
  <2>1. h \in Due(a, sk) /\ (\A r \in R : Apart(h, r))
    BY <1>2
  <2>2. QED
    BY <2>1, Leaving
<1>4. QED
  BY <1>1, <1>2, <1>3 DEF Looking, h, R

LEMMA WalkEnters ==
  ASSUME UrisJoined, NEW td, NEW fd, NEW sk, Listed(td, fd, sk)
  PROVE  Looking(Entries(Head(td).of, Head(td).depth + 1) \o Tail(td), fd, sk)
<1> DEFINE h == Head(td).of
           d == Head(td).depth + 1
           R == Of(Tail(td))
           new == Entries(h, d) \o Tail(td)
<1>1. PICK a \in Archives : /\ Goes(a, td, sk)
                            /\ fd = Uris((Due(a, sk) \ Covered(Of(td))) \cup {h})
  BY DEF Listed
<1>2. /\ Head(td) \in Entry /\ h \in Due(a, sk) /\ d = Cardinality(around[h])
      /\ Of(td) = {h} \cup R /\ (\A r \in R : Apart(h, r))
      /\ Goes(a, Tail(td), sk)
  BY <1>1, GoesOn DEF Listed
<1>3. MaxDepth \in Nat /\ d \in Nat
  BY <1>2, NestedAssumption DEF Entry
<1>4. CASE d < MaxDepth
  <2>1. Goes(a, new, sk) /\ Of(new) = Children(h) \cup R
    BY <1>1, <1>4, GoesIn DEF Listed
  <2> HIDE DEF h, R, new
  <2>2. (Due(a, sk) \ Covered({h} \cup R)) \cup {h} = Due(a, sk) \ Covered(Children(h) \cup R)
    <3>1. h \in Members /\ h \in Due(a, sk) /\ (\A r \in R : Apart(h, r))
      BY <1>2 DEF Due
    <3> DEFINE D == Due(a, sk)
               old == Covered({h} \cup R)
               rest == Covered(Children(h) \cup R)
    <3>2. h \in old /\ rest = old \ {h} /\ h \in D
      BY <3>1, Entering
    <3> HIDE DEF D, old, rest
    <3>3. (D \ old) \cup {h} = D \ rest
      BY <3>2
    <3>4. QED
      BY <3>3 DEF D, old, rest
  <2>3. Looking(new, fd, sk)
    BY <1>1, <1>2, <2>1, <2>2 DEF Looking
  <2>4. QED
    BY <2>3 DEF new, h
<1>5. CASE d >= MaxDepth
  <2>1. Entries(h, d) = <<>>
    BY <1>3, <1>5, EntriesProperties
  <2>2. Tail(td) \in Seq(Entry)
    BY <1>2 DEF Goes
  <2>3. new = Tail(td)
    BY <2>1, <2>2, ConcatEmptySeq
  <2> HIDE DEF h, R, new
  <2>4. (Due(a, sk) \ Covered({h} \cup R)) \cup {h} = Due(a, sk) \ Covered(R)
    BY <1>2, <1>5, EnteringTooDeep
  <2>5. Looking(new, fd, sk)
    BY <1>1, <1>2, <2>3, <2>4 DEF Looking, R
  <2>6. QED
    BY <2>5 DEF new, h
<1>6. QED
  BY <1>3, <1>4, <1>5

LEMMA WalkIsOver ==
  ASSUME NEW fd, NEW sk, Looking(<<>>, fd, sk)
  PROVE  \E a \in Archives : fd = Uris(Due(a, sk))
<1>1. Covered(Of(<<>>)) = {}
  BY DEF Covered, Of
<1>2. QED
  BY <1>1 DEF Looking

----------------------------------------------------------------------------
(* The walks                                                               *)

(* A task that walks has listed what it should have by now, and no other   *)
(* task has anything to list.                                              *)
WalkInv(t) ==
  /\ pc[t] \in {"walk", "enter"} => asked[t] = "walk"
  /\ asked[t] # "walk" => todo[t] = <<>> /\ found[t] = {} /\ skipped[t] = {}
  /\ asked[t] = "walk" =>
       /\ pc[t] # "idle"
       /\ pc[t] = "walk" => Looking(todo[t], found[t], skipped[t])
       /\ pc[t] # "walk" => Listed(todo[t], found[t], skipped[t])

WalksInv ==
  /\ DOMAIN todo = Tasks /\ DOMAIN found = Tasks /\ DOMAIN skipped = Tasks
  /\ \A t \in Tasks : WalkInv(t)

(* A step of t, for the walks.                                             *)
WalkStepOf(t) ==
  /\ DOMAIN todo' = Tasks /\ DOMAIN found' = Tasks /\ DOMAIN skipped' = Tasks
  /\ \A o \in Tasks \ {t} :
       /\ pc'[o] = pc[o] /\ asked'[o] = asked[o]
       /\ todo'[o] = todo[o] /\ found'[o] = found[o] /\ skipped'[o] = skipped[o]

LEMMA StepWalks ==
  ASSUME WalksInv, NEW t \in Tasks, WalkStepOf(t), WalkInv(t)'
  PROVE  WalksInv'
<1>1. ASSUME NEW o \in Tasks \ {t} PROVE WalkInv(o)'
  <2>1. WalkInv(o)
    BY DEF WalksInv
  <2>2. /\ pc'[o] = pc[o] /\ asked'[o] = asked[o]
        /\ todo'[o] = todo[o] /\ found'[o] = found[o] /\ skipped'[o] = skipped[o]
    BY DEF WalkStepOf
  <2>3. QED
    BY <2>1, <2>2 DEF WalkInv
<1>2. QED
  BY <1>1 DEF WalksInv, WalkStepOf

(* What t asked for goes on.                                               *)
LEMMA GoingOnWalks ==
  ASSUME WalksInv, NEW t \in Tasks, pc[t] \notin {"idle", "walk"}, UNCHANGED walkVars,
         \A o \in Tasks \ {t} : pc'[o] = pc[o] /\ asked'[o] = asked[o],
         \/ asked'[t] = asked[t] /\ pc'[t] \in AtWork
         \/ asked'[t] = asked[t] /\ asked[t] = "walk" /\ pc'[t] = "enter"
         \/ asked[t] # "walk" /\ asked'[t] = "nothing" /\ pc'[t] = "idle"
  PROVE  WalksInv'
<1>1. WalkInv(t) /\ todo' = todo /\ found' = found /\ skipped' = skipped
  BY DEF WalksInv, walkVars
<1>2. WalkInv(t)'
  BY <1>1 DEF WalkInv, AtWork
<1>3. WalkStepOf(t)
  BY <1>1 DEF WalkStepOf, WalksInv
<1>4. QED
  BY <1>2, <1>3, StepWalks

(* A task has the path of the last of its stack.                           *)
LEMMA ReturnedWalks ==
  ASSUME LocksInv, WalksInv, NEW t \in Tasks, pc[t] \in AtWork, Return(t)
  PROVE  WalksInv'
<1> DEFINE over == Front(stack[t]) = <<>> /\ asked[t] # "walk"
<1>1. /\ pc' = [pc EXCEPT ![t] = IF Front(stack[t]) # <<>> THEN "fetch"
                                ELSE IF asked[t] = "walk" THEN "enter" ELSE "idle"]
      /\ asked' = [asked EXCEPT ![t] = IF over THEN "nothing" ELSE @]
      /\ UNCHANGED walkVars
  BY DEF Return
<1>2. DOMAIN pc = Tasks /\ DOMAIN asked = Tasks /\ pc[t] \notin {"idle", "walk"}
  BY DEF LocksInv, StackTypes, AtWork
<1>3. QED
  BY <1>1, <1>2, GoingOnWalks DEF AtWork

(* What it asked for is over, and it could not look into what it listed.   *)
LEMMA RefusedWalks ==
  ASSUME UrisJoined, LocksInv, WalksInv, NEW t \in Tasks, pc[t] \in AtWork,
         NEW locks, Refused(t, locks)
  PROVE  WalksInv'
<1>1. /\ DOMAIN pc = Tasks /\ DOMAIN asked = Tasks /\ pc[t] \notin {"idle", "walk"}
      /\ DOMAIN todo = Tasks /\ DOMAIN found = Tasks /\ DOMAIN skipped = Tasks
      /\ WalkInv(t)
  BY DEF LocksInv, StackTypes, AtWork, WalksInv
<1>2. CASE asked[t] = "walk"
  <2>1. /\ pc' = [pc EXCEPT ![t] = "walk"]
        /\ todo' = [todo EXCEPT ![t] = Tail(@)]
        /\ skipped' = [skipped EXCEPT ![t] = @ \cup {Head(todo[t]).of}]
        /\ UNCHANGED <<asked, found>>
    BY <1>2 DEF Refused
  <2>2. Listed(todo[t], found[t], skipped[t])
    BY <1>1, <1>2 DEF WalkInv
  <2>3. Looking(Tail(todo[t]), found[t], skipped[t] \cup {Head(todo[t]).of})
    BY <2>2, WalkSkips
  <2>4. /\ todo'[t] = Tail(todo[t]) /\ skipped'[t] = skipped[t] \cup {Head(todo[t]).of}
        /\ found'[t] = found[t] /\ asked'[t] = "walk" /\ pc'[t] = "walk"
    BY <1>1, <1>2, <2>1
  <2>5. WalkInv(t)'
    BY <2>3, <2>4 DEF WalkInv
  <2>6. WalkStepOf(t)
    BY <1>1, <2>1 DEF WalkStepOf
  <2>7. QED
    BY <2>5, <2>6, StepWalks
<1>3. CASE asked[t] # "walk"
  <2>1. /\ pc' = [pc EXCEPT ![t] = "idle"]
        /\ asked' = [asked EXCEPT ![t] = "nothing"]
        /\ UNCHANGED walkVars
    BY <1>3 DEF Refused
  <2>2. QED
    BY <1>1, <1>3, <2>1, GoingOnWalks
<1>4. QED
  BY <1>2, <1>3

LEMMA InitWalks == Init => WalksInv
  BY DEF Init, WalksInv, WalkInv

LEMMA NextWalks ==
  ASSUME UrisJoined, LocksInv, WalksInv, [Next]_vars
  PROVE  WalksInv'
<1>1. /\ DOMAIN pc = Tasks /\ DOMAIN asked = Tasks
      /\ DOMAIN todo = Tasks /\ DOMAIN found = Tasks /\ DOMAIN skipped = Tasks
      /\ \A t \in Tasks : WalkInv(t)
  BY DEF LocksInv, StackTypes, WalksInv
<1>2. ASSUME NEW t \in Tasks, NEW u \in Members, AskPath(t, u) \/ AskBytes(t, u) PROVE WalksInv'
  <2>1. pc[t] = "idle" /\ UNCHANGED walkVars
    BY <1>2 DEF AskPath, AskBytes
  <2>2. /\ pc'[t] \in {"lock", "fetch"} /\ asked'[t] \in {"path", "bytes"}
        /\ \A o \in Tasks \ {t} : pc'[o] = pc[o] /\ asked'[o] = asked[o]
    BY <1>1, <1>2 DEF AskPath, AskBytes
  <2>3. WalkInv(t)'
    BY <1>1, <2>1, <2>2 DEF WalkInv, walkVars
  <2>4. WalkStepOf(t)
    BY <1>1, <2>1, <2>2 DEF WalkStepOf, walkVars
  <2>5. QED
    BY <2>3, <2>4, StepWalks
<1>3. ASSUME NEW t \in Tasks, NEW a \in Archives, AskWalk(t, a) PROVE WalksInv'
  <2>1. pc[t] = "idle" /\ todo[t] = <<>> /\ found[t] = {} /\ skipped[t] = {}
    BY <1>1, <1>3 DEF AskWalk, WalkInv
  <2>2. /\ pc'[t] = "walk" /\ asked'[t] = "walk" /\ found' = found
        /\ \/ todo'[t] = Entries(a, 0) /\ skipped'[t] = skipped[t]
           \/ todo'[t] = todo[t] /\ skipped'[t] = {a}
    BY <1>1, <1>3 DEF AskWalk
  <2>3. Looking(todo'[t], found'[t], skipped'[t])
    BY <2>1, <2>2, WalkBegins
  <2>4. WalkInv(t)'
    BY <2>2, <2>3 DEF WalkInv
  <2>5. WalkStepOf(t)
    BY <1>1, <1>3 DEF AskWalk, WalkStepOf
  <2>6. QED
    BY <2>4, <2>5, StepWalks
<1>4. ASSUME NEW t \in Tasks, Lock(t) PROVE WalksInv'
  <2> DEFINE locks == [holder EXCEPT ![Last(stack[t])] = t]
             deeper == Container[Last(stack[t])] \in Members
  <2>1. pc[t] = "lock" /\ (Return(t) \/ Resolve(t, stack[t], locks))
    BY <1>4 DEF Lock
  <2>2. CASE Return(t)
    BY <2>1, <2>2, ReturnedWalks DEF AtWork
  <2>3. CASE Refused(t, locks)
    BY <2>1, <2>3, RefusedWalks DEF AtWork
  <2>4. ASSUME pc' = [pc EXCEPT ![t] = IF deeper THEN "lock" ELSE "fetch"],
               UNCHANGED <<asked, walkVars>>
        PROVE  WalksInv'
    BY <1>1, <2>1, <2>4, GoingOnWalks DEF AtWork
  <2>5. QED
    BY <2>1, <2>2, <2>3, <2>4 DEF Resolve
<1>5. ASSUME NEW t \in Tasks, Fetch(t) PROVE WalksInv'
  <2>1. pc[t] = "fetch"
    BY <1>5 DEF Fetch
  <2>2. CASE Return(t)
    BY <2>1, <2>2, ReturnedWalks DEF AtWork
  <2>3. ASSUME pc' = [pc EXCEPT ![t] = "write"], UNCHANGED <<asked, walkVars>>
        PROVE  WalksInv'
    BY <1>1, <2>1, <2>3, GoingOnWalks DEF AtWork
  <2>4. QED
    BY <1>5, <2>2, <2>3 DEF Fetch
<1>6. ASSUME NEW t \in Tasks, Refuse(t) PROVE WalksInv'
  BY <1>6, RefusedWalks DEF Refuse, AtWork
<1>7. ASSUME NEW t \in Tasks, FailWrite(t) PROVE WalksInv'
  BY <1>7, RefusedWalks DEF FailWrite, AtWork
<1>8. ASSUME NEW t \in Tasks, Register(t) PROVE WalksInv'
  BY <1>8, ReturnedWalks DEF Register, AtWork
<1>9. ASSUME NEW t \in Tasks, Cancel(t) \/ EndWalk(t) PROVE WalksInv'
  <2>1. /\ pc'[t] = "idle" /\ asked'[t] = "nothing"
        /\ todo'[t] = <<>> /\ found'[t] = {} /\ skipped'[t] = {}
    BY <1>1, <1>9 DEF Cancel, EndWalk
  <2>2. WalkInv(t)'
    BY <2>1 DEF WalkInv
  <2>3. WalkStepOf(t)
    BY <1>1, <1>9 DEF WalkStepOf, Cancel, EndWalk
  <2>4. QED
    BY <2>2, <2>3, StepWalks
<1>10. ASSUME NEW t \in Tasks, List(t) PROVE WalksInv'
  <2> DEFINE h == Head(todo[t]).of
             uri == EntryUri[h]
  <2>1. /\ pc[t] = "walk" /\ todo[t] # <<>> /\ UNCHANGED <<asked, skipped>>
        /\ found' = [found EXCEPT ![t] = @ \cup {uri}]
        /\ ItemAt(uri) \in Members =>
             pc' = [pc EXCEPT ![t] = "lock"] /\ UNCHANGED todo
    BY <1>10 DEF List
  <2>2. asked[t] = "walk" /\ Looking(todo[t], found[t], skipped[t])
    BY <1>1, <2>1 DEF WalkInv
  <2>3. h \in Members /\ Listed(todo[t], found[t] \cup {uri}, skipped[t])
    BY <2>1, <2>2, WalkLists
  <2>4. ItemAt(uri) \in Members
    BY <2>3, AddressLeads DEF UrisJoined, Items
  <2>5. /\ pc'[t] = "lock" /\ asked'[t] = "walk" /\ todo'[t] = todo[t]
        /\ found'[t] = found[t] \cup {uri} /\ skipped'[t] = skipped[t]
    BY <1>1, <2>1, <2>2, <2>4
  <2>6. WalkInv(t)'
    BY <2>3, <2>5 DEF WalkInv
  <2>7. WalkStepOf(t)
    BY <1>1, <2>1, <2>4 DEF WalkStepOf
  <2>8. QED
    BY <2>6, <2>7, StepWalks
<1>11. ASSUME NEW t \in Tasks, Enter(t) PROVE WalksInv'
  <2> DEFINE e == Head(todo[t])
  <2>1. /\ pc[t] = "enter" /\ pc'[t] = "walk" /\ UNCHANGED <<asked, found>>
        /\ \/ /\ todo'[t] = Entries(e.of, e.depth + 1) \o Tail(todo[t])
              /\ skipped'[t] = skipped[t]
           \/ todo'[t] = Tail(todo[t]) /\ skipped'[t] = skipped[t] \cup {e.of}
    BY <1>1, <1>11 DEF Enter
  <2>2. asked[t] = "walk" /\ Listed(todo[t], found[t], skipped[t])
    BY <1>1, <2>1 DEF WalkInv
  <2>3. Looking(todo'[t], found'[t], skipped'[t])
    <3>1. Looking(Entries(e.of, e.depth + 1) \o Tail(todo[t]), found[t], skipped[t])
      BY <2>2, WalkEnters
    <3>2. Looking(Tail(todo[t]), found[t], skipped[t] \cup {e.of})
      BY <2>2, WalkSkips
    <3>3. QED
      BY <2>1, <3>1, <3>2
  <2>4. WalkInv(t)'
    BY <2>1, <2>2, <2>3 DEF WalkInv
  <2>5. WalkStepOf(t)
    BY <1>1, <1>11 DEF Enter, WalkStepOf
  <2>6. QED
    BY <2>4, <2>5, StepWalks
<1>12. ASSUME UNCHANGED <<asked, pc, walkVars>> PROVE WalksInv'
  BY <1>12 DEF WalksInv, WalkInv, walkVars
<1>13. QED
  BY <1>2, <1>3, <1>4, <1>5, <1>6, <1>7, <1>8, <1>9, <1>10, <1>11, <1>12
     DEF Next, Empty, Write, FailLate, vars, files, walkVars

(* A walk that comes to its end has listed what it should, and each member *)
(* by the uri that it can be read by: for any tree of archives in archives *)
(* with any names, while other tasks materialise, are refused and are      *)
(* cancelled as they like.                                                 *)
THEOREM WalksTrue ==
  ASSUME UrisJoined
  PROVE  Spec => []WalksAreTrue
<1>1. WalksInv => WalksAreTrue
  <2> SUFFICES ASSUME WalksInv, NEW t \in Tasks, asked[t] = "walk", pc[t] = "walk", todo[t] = <<>>
               PROVE  \E a \in Archives : found[t] = Uris(Due(a, skipped[t]))
    BY DEF WalksAreTrue, Uris, Due
  <2>1. Looking(<<>>, found[t], skipped[t])
    BY DEF WalksInv, WalkInv
  <2>2. QED
    BY <2>1, WalkIsOver
<1>2. WalksInv /\ LocksInv /\ [Next]_vars => WalksInv'
  BY NextWalks
<1>3. QED
  BY <1>1, <1>2, InitLocks, NextLocks, InitWalks, PTL DEF Spec

----------------------------------------------------------------------------
(* The chains of locks                                                     *)

(* Every lock that t has is that of a member it is busy with, and of those *)
(* each lies further out than the one before.  What it only reads has no   *)
(* lock, and it gets no path for it.                                       *)
ClaimsOf(t) ==
  /\ \A u \in Members : holder[u] = t => \E k \in Held(t) : stack[t][k] = u
  /\ asked[t] = "bytes" /\ pc[t] \in {"lock", "write"} => Len(stack[t]) # 1
  /\ \A j, k \in 1 .. Len(stack[t]) : j < k => Depth[stack[t][k]] < Depth[stack[t][j]]

ClaimsInv == \A t \in Tasks : ClaimsOf(t)

LEMMA ContainerIsFurtherOut ==
  ASSUME UrisJoined, NEW u \in Members, Container[u] \in Members
  PROVE  Depth[Container[u]] < Depth[u]
<1>1. Container[u] = Parent[u]
  BY ContainerIsParent
<1>2. Segments[u] = Append(Segments[Parent[u]], Name[u])
  BY SegmentsGrow
<1>3. Segments[Parent[u]] \in Seq(Words)
  BY <1>1, SegmentsType DEF Items
<1>4. Len(Segments[u]) = Len(Segments[Parent[u]]) + 1 /\ Len(Segments[Parent[u]]) \in Nat
  BY <1>2, <1>3
<1>5. QED
  BY <1>1, <1>4 DEF Depth

LEMMA DepthIsNumber == \A u \in Members : Depth[u] \in Int
  BY SegmentsType DEF Depth, Items

LEMMA StepClaims ==
  ASSUME LocksInv, ClaimsInv, NEW t \in Tasks, StepOf(t), ClaimsOf(t)'
  PROVE  ClaimsInv'
<1>1. ASSUME NEW o \in Tasks, o # t PROVE ClaimsOf(o)'
  <2>1. Held(o)' = Held(o) /\ stack'[o] = stack[o] /\ pc'[o] = pc[o] /\ asked'[o] = asked[o]
    BY <1>1 DEF StepOf, Held
  <2>2. \A u \in Members : holder'[u] = o => holder[u] = o
    BY <1>1, NestedAssumption DEF StepOf
  <2>3. ClaimsOf(o)
    BY DEF ClaimsInv
  <2>4. QED
    BY <2>1, <2>2, <2>3 DEF ClaimsOf
<1>2. QED
  BY <1>1 DEF ClaimsInv

LEMMA RefusedClaims ==
  ASSUME LocksInv, ClaimsInv, NEW t \in Tasks, StepOf(t),
         stack' = [stack EXCEPT ![t] = <<>>], NEW locks, holder' = Unlocked(t, locks),
         pc'[t] \notin {"lock", "write"}
  PROVE  ClaimsInv'
<1>1. stack'[t] = <<>> /\ Len(<<>>) = 0
  BY DEF LocksInv, StackTypes
<1>2. \A u \in Members : holder'[u] # t
  BY NestedAssumption DEF Unlocked
<1>3. ClaimsOf(t)'
  BY <1>1, <1>2 DEF ClaimsOf
<1>4. QED
  BY <1>3, StepClaims

LEMMA ReturnedClaims ==
  ASSUME LocksInv, ClaimsInv, NEW t \in Tasks, StepOf(t), pc[t] \in AtWork, Return(t),
         \A u \in Members : holder'[u] = t =>
           \E k \in Held(t) : k # Len(stack[t]) /\ stack[t][k] = u
  PROVE  ClaimsInv'
<1> DEFINE s == stack[t]
<1>1. /\ s \in Seq(Members) /\ Len(s) \in Nat \ {0}
      /\ Front(s) \in Seq(Members) /\ Len(Front(s)) = Len(s) - 1
      /\ \A k \in 1 .. Len(s) - 1 : Front(s)[k] = s[k]
  BY StackEnds DEF LocksInv, StackTypes
<1>2. /\ stack'[t] = Front(s) /\ pc'[t] \in {"fetch", "enter", "idle"}
      /\ Front(s) # <<>> => asked'[t] = asked[t]
  BY DEF Return, LocksInv, StackTypes
<1> HIDE DEF s
<1>3. ASSUME NEW u \in Members, holder'[u] = t PROVE \E k \in Held(t)' : stack'[t][k] = u
  <2>1. PICK k \in Held(t) : k # Len(s) /\ s[k] = u
    BY <1>3 DEF s
  <2>2. k \in 1 .. Len(s) - 1
    BY <1>1, <2>1 DEF Held, s
  <2>3. Front(s) # <<>>
    BY <1>1, <2>2
  <2>4. k \in Held(t)'
    BY <1>1, <1>2, <2>1, <2>2, <2>3 DEF Held
  <2>5. QED
    BY <1>1, <1>2, <2>1, <2>2, <2>4
<1>4. \A j, k \in 1 .. Len(s) - 1 : j < k => Depth[s[k]] < Depth[s[j]]
  BY <1>1 DEF ClaimsInv, ClaimsOf, s
<1>5. ClaimsOf(t)'
  BY <1>1, <1>2, <1>3, <1>4 DEF ClaimsOf
<1>6. QED
  BY <1>5, StepClaims

(* A task gets the lock it waited for, and needs what that lies in.        *)
LEMMA ResolvedClaims ==
  ASSUME UrisJoined, LocksInv, ClaimsInv, NEW t \in Tasks, StepOf(t), pc[t] = "lock",
         NEW next, stack' = [stack EXCEPT ![t] = next],
         holder' = [holder EXCEPT ![Last(stack[t])] = t], asked'[t] = asked[t],
         \/ pc'[t] = "fetch" /\ next = stack[t]
         \/ /\ pc'[t] = "lock" /\ Container[Last(stack[t])] \in Members
            /\ next = Append(stack[t], Container[Last(stack[t])])
  PROVE  ClaimsInv'
<1> DEFINE s == stack[t]
           u == Last(s)
<1>1. /\ s \in Seq(Members) /\ Len(s) \in Nat \ {0} /\ u = s[Len(s)] /\ u \in Members
      /\ \A k \in 1 .. Len(s) : s[k] \in Members
  BY StackEnds DEF LocksInv, StackTypes, AtWork
<1>2. /\ stack'[t] = next /\ \A k \in 1 .. Len(s) : next[k] = s[k]
      /\ \/ pc'[t] = "fetch" /\ Len(next) = Len(s)
         \/ /\ pc'[t] = "lock" /\ Len(next) = Len(s) + 1
            /\ Container[u] \in Members /\ next[Len(s) + 1] = Container[u]
  <2>1. stack'[t] = next
    BY DEF LocksInv, StackTypes
  <2>2. CASE pc'[t] = "fetch" /\ next = s
    BY <2>1, <2>2
  <2>3. CASE pc'[t] = "lock" /\ Container[u] \in Members /\ next = Append(s, Container[u])
    <3>1. /\ Len(next) = Len(s) + 1 /\ next[Len(s) + 1] = Container[u]
          /\ \A k \in 1 .. Len(s) : next[k] = s[k]
      BY <1>1, <2>3
    <3>2. QED
      BY <2>1, <2>3, <3>1
  <2>4. QED
    BY <2>2, <2>3
<1>3. /\ asked[t] = "bytes" => Len(s) # 1
      /\ \A j, k \in 1 .. Len(s) : j < k => Depth[s[k]] < Depth[s[j]]
      /\ \A v \in Members : holder[v] = t => \E k \in Held(t) : s[k] = v
      /\ \A v \in Members : holder'[v] = t => v = u \/ holder[v] = t
  BY <1>1 DEF ClaimsInv, ClaimsOf, LocksInv, StackTypes
<1>4. ASSUME NEW k \in 1 .. Len(s), k = Len(s) \/ k \in Held(t) PROVE k \in Held(t)'
  <2>1. k \in 1 .. Len(next) /\ (pc'[t] = "lock" => k # Len(next))
    BY <1>1, <1>2, <1>4
  <2>2. asked'[t] = "bytes" => k # 1
    BY <1>3, <1>4 DEF Held
  <2>3. QED
    BY <1>2, <2>1, <2>2 DEF Held
<1>5. \A k \in Held(t) : k \in 1 .. Len(s)
  BY DEF Held
<1> HIDE DEF s, u
<1>6. ASSUME NEW v \in Members, holder'[v] = t PROVE \E k \in Held(t)' : next[k] = v
  <2>1. CASE v = u
    <3>1. Len(s) \in 1 .. Len(s)
      BY <1>1
    <3>2. QED
      BY <1>1, <1>2, <1>4, <2>1, <3>1
  <2>2. CASE holder[v] = t
    BY <1>2, <1>3, <1>4, <1>5, <2>2
  <2>3. QED
    BY <1>3, <1>6, <2>1, <2>2
<1>7. ASSUME NEW j \in 1 .. Len(next), NEW k \in 1 .. Len(next), j < k
      PROVE  Depth[next[k]] < Depth[next[j]]
  <2>1. CASE k \in 1 .. Len(s)
    BY <1>1, <1>2, <1>3, <1>7, <2>1
  <2>2. CASE k \notin 1 .. Len(s)
    <3>1. k = Len(s) + 1 /\ next[k] = Container[u] /\ j \in 1 .. Len(s) /\ Container[u] \in Members
      BY <1>1, <1>2, <1>7, <2>2
    <3>2. Depth[next[k]] < Depth[u]
      BY <1>1, <3>1, ContainerIsFurtherOut
    <3>3. j = Len(s) \/ Depth[u] < Depth[s[j]]
      BY <1>1, <1>3, <3>1
    <3>4. next[j] = s[j] /\ s[j] \in Members
      BY <1>1, <1>2, <3>1
    <3>5. Depth[next[k]] \in Int /\ Depth[u] \in Int /\ Depth[s[j]] \in Int
      BY <1>1, <3>1, <3>4, DepthIsNumber
    <3>6. QED
      BY SMTT(30), <1>1, <3>2, <3>3, <3>4, <3>5
  <2>3. QED
    BY <2>1, <2>2
<1>8. asked'[t] = "bytes" => Len(next) # 1
  BY <1>1, <1>2, <1>3
<1>9. ClaimsOf(t)'
  BY <1>2, <1>6, <1>7, <1>8 DEF ClaimsOf
<1>10. QED
  BY <1>9, StepClaims

(* A task asks for something, or is done with a walk.                      *)
LEMMA OtherwiseClaims ==
  ASSUME LocksInv, ClaimsInv, UNCHANGED holder, NEW t \in Tasks, pc[t] \notin AtWork,
         NEW s, stack' = [stack EXCEPT ![t] = s],
         \A o \in Tasks \ {t} : pc'[o] = pc[o] /\ asked'[o] = asked[o],
         \/ Len(s) = 0 /\ pc'[t] \notin {"lock", "write"}
         \/ Len(s) = 1 /\ (asked'[t] = "bytes" => pc'[t] = "fetch")
         \/ Len(s) = 2 /\ Depth[s[2]] < Depth[s[1]]
  PROVE  ClaimsInv'
<1>1. stack'[t] = s /\ stack[t] = <<>> /\ Len(<<>>) = 0
  BY DEF LocksInv, StackTypes
<1>2. \A u \in Members : holder'[u] # t
  <2>1. Held(t) = {}
    BY <1>1 DEF Held
  <2>2. QED
    BY <2>1 DEF ClaimsInv, ClaimsOf
<1>3. ASSUME NEW j \in 1 .. Len(s), NEW k \in 1 .. Len(s), j < k
      PROVE  Len(s) = 2 /\ j = 1 /\ k = 2
  <2>1. Len(s) \in {0, 1, 2}
    OBVIOUS
  <2> DEFINE l == Len(s)
  <2>2. l \in {0, 1, 2} /\ j \in 1 .. l /\ k \in 1 .. l
    BY <2>1
  <2> HIDE DEF l
  <2>3. l = 2 /\ j = 1 /\ k = 2
    BY <1>3, <2>2
  <2>4. QED
    BY <2>3 DEF l
<1>4. \A j, k \in 1 .. Len(s) : j < k => Depth[s[k]] < Depth[s[j]]
  BY <1>3
<1>5. asked'[t] = "bytes" /\ pc'[t] \in {"lock", "write"} => Len(s) # 1
  OBVIOUS
<1>6. ClaimsOf(t)'
  BY <1>1, <1>2, <1>4, <1>5 DEF ClaimsOf
<1>7. StepOf(t)
  BY DEF StepOf, LocksInv, StackTypes
<1>8. QED
  BY <1>6, <1>7, StepClaims

LEMMA InitClaims == Init => ClaimsInv
<1> SUFFICES ASSUME Init PROVE ClaimsInv
  OBVIOUS
<1>1. \A u \in Members, t \in Tasks : holder[u] # t
  BY NestedAssumption DEF Init
<1>2. Len(<<>>) = 0
  OBVIOUS
<1>3. QED
  BY <1>1, <1>2 DEF Init, ClaimsInv, ClaimsOf

LEMMA NextClaims ==
  ASSUME UrisJoined, LocksInv, WalksInv, ClaimsInv, [Next]_vars
  PROVE  ClaimsInv'
<1>1. /\ pc = [t \in Tasks |-> pc[t]] /\ stack = [t \in Tasks |-> stack[t]]
      /\ asked = [t \in Tasks |-> asked[t]] /\ holder \in [Members -> Tasks \cup {None}]
  BY DEF LocksInv, StackTypes
<1>2. ASSUME NEW t \in Tasks, NEW u \in Members, AskPath(t, u) PROVE ClaimsInv'
  <2>1. Len(<<u>>) = 1 /\ pc[t] \notin AtWork /\ asked'[t] = "path"
    BY <1>1, <1>2 DEF AskPath, AtWork
  <2>2. stack' = [stack EXCEPT ![t] = <<u>>] /\ UNCHANGED holder
    BY <1>2 DEF AskPath
  <2>3. \A o \in Tasks \ {t} : pc'[o] = pc[o] /\ asked'[o] = asked[o]
    BY <1>1, <1>2 DEF AskPath
  <2>4. QED
    BY <2>1, <2>2, <2>3, OtherwiseClaims
<1>3. ASSUME NEW t \in Tasks, NEW u \in Members, AskBytes(t, u) PROVE ClaimsInv'
  <2> DEFINE c == Container[u]
             two == <<u, c>>
             one == <<u>>
  <2>1. pc[t] \notin AtWork /\ UNCHANGED holder
    BY <1>3 DEF AskBytes, AtWork
  <2>2. /\ \A o \in Tasks \ {t} : pc'[o] = pc[o] /\ asked'[o] = asked[o]
        /\ \/ c \in Members /\ stack' = [stack EXCEPT ![t] = two]
           \/ pc'[t] = "fetch" /\ stack' = [stack EXCEPT ![t] = one]
    BY <1>1, <1>3 DEF AskBytes
  <2>3. Len(one) = 1 /\ Len(two) = 2 /\ two[1] = u /\ two[2] = c
    OBVIOUS
  <2>4. c \in Members => Depth[c] < Depth[u]
    BY ContainerIsFurtherOut
  <2> HIDE DEF c, two, one
  <2>5. CASE c \in Members /\ stack' = [stack EXCEPT ![t] = two]
    BY <2>1, <2>2, <2>3, <2>4, <2>5, OtherwiseClaims
  <2>6. CASE pc'[t] = "fetch" /\ stack' = [stack EXCEPT ![t] = one]
    BY <2>1, <2>2, <2>3, <2>6, OtherwiseClaims
  <2>7. QED
    BY <2>2, <2>5, <2>6
<1>4. ASSUME NEW t \in Tasks, pc[t] \notin AtWork, UNCHANGED <<holder, stack>>,
             pc'[t] \in {"idle", "walk"},
             \A o \in Tasks \ {t} : pc'[o] = pc[o] /\ asked'[o] = asked[o]
      PROVE  ClaimsInv'
  <2>1. stack[t] = <<>> /\ Len(<<>>) = 0
    BY <1>4 DEF LocksInv, StackTypes
  <2>2. stack' = [stack EXCEPT ![t] = <<>>]
    BY <1>1, <1>4, <2>1
  <2>3. QED
    BY <1>4, <2>1, <2>2, OtherwiseClaims
<1>5. ASSUME NEW t \in Tasks, Enter(t) \/ EndWalk(t) \/ \E a \in Archives : AskWalk(t, a)
      PROVE  ClaimsInv'
  BY <1>1, <1>4, <1>5 DEF Enter, EndWalk, AskWalk, AtWork
<1>6. ASSUME NEW t \in Tasks, List(t) PROVE ClaimsInv'
  <2> DEFINE u == ItemAt(EntryUri[Head(todo[t]).of])
  <2>1. /\ pc[t] = "walk" /\ UNCHANGED <<holder, asked>>
        /\ \/ pc' = [pc EXCEPT ![t] = "lock"] /\ stack' = [stack EXCEPT ![t] = <<u>>]
           \/ UNCHANGED <<pc, stack>>
    BY <1>6 DEF List
  <2> HIDE DEF u
  <2>2. Len(<<u>>) = 1 /\ pc[t] \notin AtWork
    BY <2>1 DEF AtWork
  <2>3. CASE pc' = [pc EXCEPT ![t] = "lock"] /\ stack' = [stack EXCEPT ![t] = <<u>>]
    <3>1. asked[t] # "bytes"
      BY <2>1 DEF WalksInv, WalkInv
    <3>2. QED
      BY <1>1, <2>1, <2>2, <2>3, <3>1, OtherwiseClaims
  <2>4. CASE UNCHANGED <<pc, stack>>
    BY <1>4, <2>1, <2>2, <2>4
  <2>5. QED
    BY <2>1, <2>3, <2>4
<1>7. ASSUME NEW t \in Tasks, Lock(t) PROVE ClaimsInv'
  <2> DEFINE u == Last(stack[t])
             c == Container[u]
             locks == [holder EXCEPT ![u] = t]
  <2>1. /\ pc[t] = "lock" /\ holder[u] = None /\ u \in Members
        /\ \/ Return(t) /\ UNCHANGED holder
           \/ Resolve(t, stack[t], locks)
    BY <1>7, StackEnds DEF Lock, Locked, LocksInv, StackTypes, AtWork
  <2>2. CASE Return(t) /\ UNCHANGED holder
    <3>1. StepOf(t)
      BY <1>1, <2>2 DEF StepOf, Return
    <3>2. ASSUME NEW v \in Members, holder'[v] = t
          PROVE  \E k \in Held(t) : k # Len(stack[t]) /\ stack[t][k] = v
      BY <2>1, <2>2, <3>2 DEF ClaimsInv, ClaimsOf, Held
    <3>3. QED
      BY <2>1, <2>2, <3>1, <3>2, ReturnedClaims DEF AtWork
  <2>3. CASE Refused(t, locks)
    <3>1. /\ stack' = [stack EXCEPT ![t] = <<>>] /\ holder' = Unlocked(t, locks)
          /\ pc'[t] \notin {"lock", "write"}
          /\ \A o \in Tasks \ {t} : pc'[o] = pc[o] /\ asked'[o] = asked[o]
      BY <1>1, <2>3 DEF Refused
    <3>2. \A v \in Members : holder'[v] = IF locks[v] = t THEN None ELSE locks[v]
      BY <3>1 DEF Unlocked
    <3>3. StepOf(t)
      BY <1>1, <2>1, <3>1, <3>2 DEF StepOf
    <3>4. QED
      BY <3>1, <3>3, RefusedClaims
  <2>4. ASSUME pc' = [pc EXCEPT ![t] = IF c \in Members THEN "lock" ELSE "fetch"],
               stack' = [stack EXCEPT ![t] = IF c \in Members THEN Append(stack[t], c)
                                                              ELSE stack[t]],
               holder' = locks, UNCHANGED asked
        PROVE  ClaimsInv'
    <3>1. StepOf(t)
      BY <1>1, <2>1, <2>4 DEF StepOf
    <3>2. CASE c \in Members
      BY <1>1, <2>1, <2>4, <3>1, <3>2, ResolvedClaims
    <3>3. CASE c \notin Members
      BY <1>1, <2>1, <2>4, <3>1, <3>3, ResolvedClaims
    <3>4. QED
      BY <3>2, <3>3
  <2>5. QED
    BY <2>1, <2>2, <2>3, <2>4 DEF Resolve
<1>8. ASSUME NEW t \in Tasks, Fetch(t) PROVE ClaimsInv'
  <2>1. /\ pc[t] = "fetch" /\ UNCHANGED holder
        /\ \/ asked[t] = "bytes" /\ Len(stack[t]) = 1 /\ Return(t)
           \/ /\ ~(asked[t] = "bytes" /\ Len(stack[t]) = 1)
              /\ pc' = [pc EXCEPT ![t] = "write"] /\ UNCHANGED <<stack, asked>>
    BY <1>8 DEF Fetch
  <2>2. CASE asked[t] = "bytes" /\ Len(stack[t]) = 1 /\ Return(t)
    <3>1. StepOf(t)
      BY <1>1, <2>1, <2>2 DEF StepOf, Return
    <3>2. Held(t) = {}
      BY <2>2 DEF Held
    <3>3. QED
      BY <2>1, <2>2, <3>1, <3>2, ReturnedClaims DEF AtWork, ClaimsInv, ClaimsOf
  <2>3. ASSUME ~(asked[t] = "bytes" /\ Len(stack[t]) = 1),
               pc' = [pc EXCEPT ![t] = "write"], UNCHANGED <<stack, asked>>
        PROVE  ClaimsInv'
    <3>1. StepOf(t)
      BY <1>1, <2>1, <2>3 DEF StepOf
    <3>2. Held(t)' = Held(t)
      BY <1>1, <2>1, <2>3 DEF Held
    <3>3. ClaimsOf(t)'
      BY <2>1, <2>3, <3>2 DEF ClaimsInv, ClaimsOf
    <3>4. QED
      BY <3>1, <3>3, StepClaims
  <2>4. QED
    BY <2>1, <2>2, <2>3
<1>9. ASSUME NEW t \in Tasks, Refuse(t) \/ FailWrite(t) \/ Cancel(t) PROVE ClaimsInv'
  <2>1. /\ stack' = [stack EXCEPT ![t] = <<>>] /\ holder' = Unlocked(t, holder)
        /\ pc'[t] \notin {"lock", "write"}
        /\ \A o \in Tasks \ {t} : pc'[o] = pc[o] /\ asked'[o] = asked[o]
    BY <1>1, <1>9 DEF Refuse, FailWrite, Cancel, Refused
  <2>2. \A v \in Members : holder'[v] = IF holder[v] = t THEN None ELSE holder[v]
    BY <2>1 DEF Unlocked
  <2>3. StepOf(t)
    BY <1>1, <2>1, <2>2 DEF StepOf
  <2>4. QED
    BY <2>1, <2>3, RefusedClaims
<1>10. ASSUME NEW t \in Tasks, Register(t) PROVE ClaimsInv'
  <2> DEFINE u == Last(stack[t])
  <2>1. /\ pc[t] = "write" /\ Return(t) /\ u \in Members /\ holder[u] = t
        /\ holder' = [holder EXCEPT ![u] = None] /\ u = stack[t][Len(stack[t])]
    BY <1>10, WriterHolds, StackEnds DEF Register, LocksInv, StackTypes, AtWork
  <2>2. StepOf(t)
    BY <1>1, <2>1 DEF StepOf, Return
  <2> HIDE DEF u
  <2>3. ASSUME NEW v \in Members, holder'[v] = t
        PROVE  \E k \in Held(t) : k # Len(stack[t]) /\ stack[t][k] = v
    <3>1. v # u /\ holder[v] = t
      BY <1>1, <2>1, <2>3, NestedAssumption
    <3>2. QED
      BY <2>1, <3>1 DEF ClaimsInv, ClaimsOf
  <2>4. QED
    BY <2>1, <2>2, <2>3, ReturnedClaims DEF AtWork
<1>11. ASSUME UNCHANGED <<holder, asked, pc, stack>> PROVE ClaimsInv'
  <2>1. \A t \in Tasks : Held(t)' = Held(t)
    BY <1>11 DEF Held
  <2>2. QED
    BY <1>11, <2>1 DEF ClaimsInv, ClaimsOf
<1>12. QED
  BY <1>2, <1>3, <1>5, <1>6, <1>7, <1>8, <1>9, <1>10, <1>11
     DEF Next, Empty, Write, FailLate, vars, files

(* "A per-uri lock cannot" deadlock (nested_source.py:148): however many   *)
(* tasks ask for members of however deep a tree, who has the lock that a   *)
(* task waits for waits, if at all, for that of a member further out.  So  *)
(* there is one among those who wait, for what lies furthest out, that     *)
(* waits for nobody who waits.                                             *)
THEOREM LocksAreInOrder ==
  ASSUME UrisJoined
  PROVE  Spec => []LocksLeadOut
<1>1. LocksInv /\ ClaimsInv => LocksLeadOut
  <2> SUFFICES ASSUME LocksInv, ClaimsInv, NEW t \in Tasks, NEW o \in Tasks,
                      pc[t] = "lock", pc[o] = "lock", holder[Last(stack[t])] = o
               PROVE  Depth[Last(stack[o])] < Depth[Last(stack[t])]
    BY DEF LocksLeadOut
  <2>1. Last(stack[t]) \in Members
    BY StackEnds DEF LocksInv, StackTypes, AtWork
  <2>2. Last(stack[o]) = stack[o][Len(stack[o])] /\ Len(stack[o]) \in Nat
    BY StackEnds DEF LocksInv, StackTypes, AtWork
  <2>3. PICK k \in Held(o) : stack[o][k] = Last(stack[t])
    BY <2>1 DEF ClaimsInv, ClaimsOf
  <2>4. k \in 1 .. Len(stack[o]) /\ k < Len(stack[o])
    BY <2>2, <2>3 DEF Held
  <2>5. QED
    BY <2>2, <2>3, <2>4 DEF ClaimsInv, ClaimsOf
<1>2. LocksInv /\ ClaimsInv /\ WalksInv /\ [Next]_vars => ClaimsInv'
  BY NextClaims
<1>3. WalksInv /\ LocksInv /\ [Next]_vars => WalksInv'
  BY NextWalks
<1>4. QED
  BY <1>1, <1>2, <1>3, InitLocks, NextLocks, InitWalks, InitClaims, PTL DEF Spec

=============================================================================
