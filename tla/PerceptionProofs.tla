-------------------------- MODULE PerceptionProofs --------------------------
(***************************************************************************)
(* Perception, for any tasks, files, contents, mimetypes and models.       *)
(*                                                                         *)
(* A hash that the StatMemo was given by a call which an edit overlapped   *)
(* may be of anything: the stat it is kept under is a later file's, or its *)
(* chunks are of two.  Everything else holds however files are edited, and *)
(* there is no such hash when Safe holds: no StatMemo is used, or files    *)
(* are not edited while a call is under way.                               *)
(*                                                                         *)
(* The invariant ties every field of a ref under way, and every chunk of a *)
(* hash, to what the file held during the call, and the stat the call      *)
(* began with to there having been one such content so far; that is what   *)
(* makes a memo filled under that stat right whenever its stat is still    *)
(* the file's.                                                             *)
(***************************************************************************)
EXTENDS Perception, SequenceTheorems, TLAPS

Safe == ~UseStatMemo \/ ~EditsDuringCalls

(* Which fields of its ref a call knows, by where it is.                   *)
KnowsMime(t) == pc[t] \notin {"idle", "head"}
KnowsHash(t) == pc[t] \in {"remember", "size", "resolved", "derive", "store"}

FieldsOK ==
  \A t \in Tasks :
    /\ KnowsMime(t) => ref[t].mime \in Mimes
    /\ pc[t] = "stream" => /\ ref[t].hash \in Digests /\ Len(ref[t].hash) < Chunks
                           /\ handle[t] = None => content[uri[t]] # Gone
    /\ KnowsHash(t) => ref[t].hash \in Hashes
    /\ Resolved(t)  => ref[t].size \in Contents
    /\ pc[t] = "store" => result[t] \in Renditions

(* What the call of t has read of its file.                                *)
Seen(t) == during[t] \cap Contents

(* Every chunk of a hash is of something in S.                             *)
HashOf(hash, S) == \A i \in 1 .. Chunks : hash[i] \in S

HistoryInv ==
  /\ \A t \in Tasks : pc[t] # "idle" =>
       /\ content[uri[t]] \in during[t]
       /\ ~EditsDuringCalls => during[t] = {content[uri[t]]}
       /\ key[t] # None => /\ key[t] <= stamp[uri[t]]
                           /\ key[t] = stamp[uri[t]] => during[t] = {content[uri[t]]}
  /\ \A p \in latePuts :
       /\ content[p.uri] \in p.during
       /\ ~EditsDuringCalls => p.during = {content[p.uri]}

(* What is read of a file that is no longer there is what it held.         *)
HandleInv ==
  \A t \in Tasks : handle[t] # None => pc[t] = "stream" /\ handle[t] \in Seen(t)

RefOK(t) ==
  /\ KnowsMime(t) => \E c \in Seen(t) : ref[t].mime = Sniff[uri[t]][c]
  /\ pc[t] = "stream" => \A i \in 1 .. Len(ref[t].hash) : ref[t].hash[i] \in Seen(t)
  /\ pc[t] = "remember" => HashOf(ref[t].hash, Seen(t))
  /\ KnowsHash(t) => HashOf(ref[t].hash, Seen(t)) \/ Disturbed(uri[t], ref[t].hash)
  /\ Resolved(t)  => ref[t].size \in Seen(t)

RefInv ==
  /\ \A t \in Tasks : RefOK(t)
  /\ \A p \in latePuts : HashOf(p.hash, p.during)

HashesInv ==
  /\ UndisturbedHashes
  /\ \A u \in Uris, s \in Stats : s > stamp[u] => hashes[u][s] = None

(* A remembered SourceRef is right in every field, but for a hash that     *)
(* came from the StatMemo.                                                 *)
ResolutionsInv ==
  \A u \in Uris : resolutions[u] # None =>
    /\ resolutions[u].stat <= stamp[u]
    /\ content[u] # Gone /\ resolutions[u].stat = stamp[u] =>
         LET r == resolutions[u].ref
         IN  /\ r.mime = Sniff[u][content[u]] /\ r.size = content[u]
             /\ r.hash = Hash(content[u]) \/ Disturbed(u, r.hash)

SafeInv ==
  /\ ~UseStatMemo => latePuts = {} /\ \A t \in Tasks : pc[t] # "remember"
  /\ Safe => disturbed = {}

StoreInv ==
  ~EditsDuringCalls =>
    /\ EntriesAreOfTheirKey
    /\ \A t \in Tasks : pc[t] = "store" =>
         result[t].of = content[uri[t]] /\ result[t].by = revision
    /\ \A p \in lateEntries :
         p.key.hash = Hash(p.value.of) /\ p.value.by = p.key.revision

Inv == /\ TypeOK /\ FieldsOK
       /\ HistoryInv /\ HandleInv /\ RefInv /\ HashesInv /\ ResolutionsInv
       /\ SafeInv /\ StoreInv

----------------------------------------------------------------------------
(* Hashes                                                                  *)

LEMMA HashTypes ==
  /\ Hashes \subseteq Digests
  /\ <<>> \in Digests /\ Len(<<>>) = 0 /\ 0 < Chunks
  /\ \A c \in Contents : Hash(c) \in Hashes
  BY PerceptionAssumption DEF Hashes, Digests, Hash

(* Another chunk.                                                          *)
LEMMA DigestGrows ==
  ASSUME NEW s \in Digests, Len(s) < Chunks, NEW c \in Contents
  PROVE  /\ Append(s, c) \in Digests
         /\ Len(Append(s, c)) # Chunks => Len(Append(s, c)) < Chunks
         /\ Len(Append(s, c)) = Chunks => Append(s, c) \in Hashes
         /\ \A i \in 1 .. Len(Append(s, c)) : Append(s, c)[i] = IF i = Len(s) + 1 THEN c ELSE s[i]
<1>1. Append(s, c) \in Seq(Contents) /\ Len(Append(s, c)) = Len(s) + 1 /\ Len(s) \in Nat
  BY DEF Digests
<1>2. \A i \in 1 .. Len(s) + 1 : Append(s, c)[i] = IF i = Len(s) + 1 THEN c ELSE s[i]
  BY <1>1 DEF Digests
<1>3. Append(s, c) \in [1 .. Len(s) + 1 -> Contents]
  BY <1>1, LenProperties
<1>4. QED
  BY <1>1, <1>2, <1>3, PerceptionAssumption DEF Digests, Hashes

(* A hash of one content.                                                  *)
LEMMA HashOfOne ==
  ASSUME NEW h \in Hashes, NEW c, HashOf(h, {c})
  PROVE  h = Hash(c)
  BY DEF Hashes, Hash, HashOf

LEMMA HashTells ==
  ASSUME NEW c, NEW d, Hash(c) = Hash(d)
  PROVE  c = d
<1>1. 1 \in 1 .. Chunks
  BY PerceptionAssumption
<1>2. Hash(c)[1] = c /\ Hash(d)[1] = d
  BY <1>1 DEF Hash
<1>3. QED
  BY <1>2

LEMMA HashOfMore ==
  ASSUME NEW h, NEW S, NEW T, S \subseteq T, HashOf(h, S)
  PROVE  HashOf(h, T)
  BY DEF HashOf

----------------------------------------------------------------------------
(* Types                                                                   *)

LEMMA InitTypes == Init => TypeOK /\ FieldsOK
  BY PerceptionAssumption
     DEF Init, TypeOK, FieldsOK, KnowsMime, KnowsHash, Resolved, Stats, NoRef, SourceRef

LEMMA NextTypes == TypeOK /\ FieldsOK /\ [Next]_vars => TypeOK' /\ FieldsOK'
<1> SUFFICES ASSUME TypeOK, FieldsOK, [Next]_vars
             PROVE  TypeOK' /\ FieldsOK'
  OBVIOUS
<1> USE PerceptionAssumption
<1> USE DEF TypeOK, FieldsOK, KnowsMime, KnowsHash, Resolved, Now, NoRef, SourceRef,
            files, caches, late, Refs
<1>1. ASSUME NEW u \in Uris, NEW c \in Contents \cup {Gone}, NEW b \in BOOLEAN, Edit(u, c, b)
      PROVE  TypeOK' /\ FieldsOK'
  <2>1. /\ content' \in [Uris -> Contents \cup {Gone}] /\ stamp' \in [Uris -> Stats]
        /\ UNCHANGED <<revision, caches, pc, uri, key, ref, result, lateEntries>>
    BY <1>1 DEF Edit, Stats
  <2>2. handle' \in [Tasks -> Contents \cup {None}]
    <3>1. \A t \in Tasks : pc[t] = "stream" /\ uri[t] = u /\ handle[t] = None => content[u] \in Contents
      OBVIOUS
    <3>2. QED
      BY <1>1, <3>1 DEF Edit
  <2>3. during' \in [Tasks -> SUBSET (Contents \cup {Gone})]
    BY <1>1 DEF Edit
  <2>4. latePuts' \subseteq LatePuts
    <3>1. \A p \in LatePuts : [p EXCEPT !.during = @ \cup {c}] \in LatePuts
      BY DEF LatePuts
    <3>2. QED
      BY <1>1, <3>1 DEF Edit
  <2>5. \A t \in Tasks : pc[t] = "stream" /\ handle'[t] = None => content'[uri[t]] # Gone
    <3>1. ASSUME NEW t \in Tasks, pc[t] = "stream", uri[t] = u, handle'[t] = None, c = Gone
          PROVE  FALSE
      BY <1>1, <3>1 DEF Edit
    <3>2. QED
      BY <1>1, <3>1 DEF Edit
  <2>6. QED
    BY <2>1, <2>2, <2>3, <2>4, <2>5
<1>2. ASSUME NEW t \in Tasks, NEW u \in Uris, Begin(t, u)
      PROVE  TypeOK' /\ FieldsOK'
  BY <1>2, HashTypes DEF Begin, StatKey, Remembered
<1>3. ASSUME NEW t \in Tasks, ReadHead(t) PROVE TypeOK' /\ FieldsOK'
  BY <1>3 DEF ReadHead, Transition
<1>4. ASSUME NEW t \in Tasks, RecallHash(t) PROVE TypeOK' /\ FieldsOK'
  BY <1>4, HashTypes DEF RecallHash
<1>5. ASSUME NEW t \in Tasks, OpenStream(t) PROVE TypeOK' /\ FieldsOK'
  BY <1>5, HashTypes DEF OpenStream, Transition
<1>6. ASSUME NEW t \in Tasks, StreamHash(t) PROVE TypeOK' /\ FieldsOK'
  <2> DEFINE chunk == IF handle[t] = None THEN Now(t) ELSE handle[t]
             digest == Append(ref[t].hash, chunk)
             at == IF Len(digest) # Chunks THEN "stream"
                   ELSE IF UseStatMemo THEN "remember" ELSE "size"
  <2>1. /\ pc[t] = "stream" /\ pc' = [pc EXCEPT ![t] = at]
        /\ ref' = [ref EXCEPT ![t] = SourceRef(@.mime, digest, None)]
        /\ IF Len(digest) = Chunks THEN handle' = [handle EXCEPT ![t] = None] ELSE handle' = handle
        /\ UNCHANGED <<files, revision, caches, late, uri, key, result, during>>
    BY <1>6 DEF StreamHash
  <2>2. chunk \in Contents
    BY <2>1
  <2>3. /\ digest \in Digests
        /\ Len(digest) # Chunks => Len(digest) < Chunks
        /\ Len(digest) = Chunks => digest \in Hashes
    BY <2>1, <2>2, DigestGrows
  <2> HIDE DEF chunk, digest
  <2>4. ref'[t].mime \in Mimes /\ ref'[t].hash = digest
    BY <2>1
  <2>5. TypeOK'
    BY <2>1, <2>3
  <2>6. QED
    BY <2>1, <2>3, <2>4, <2>5
<1>7. ASSUME NEW t \in Tasks, RememberHash(t) PROVE TypeOK' /\ FieldsOK'
  <2>1. /\ pc[t] = "remember" /\ pc' = [pc EXCEPT ![t] = "size"]
        /\ MemoPut(uri[t], ref[t].hash, during[t])
        /\ UNCHANGED <<files, revision, resolutions, entries, late, uri, key, ref, result, handle, during>>
    BY <1>7 DEF RememberHash, Transition
  <2>2. uri[t] \in Uris /\ ref[t].hash \in Hashes /\ stamp[uri[t]] \in Stats
    BY <2>1
  <2>3. hashes' \in [Uris -> [Stats -> Hashes \cup {None}]]
    BY <2>1, <2>2 DEF MemoPut
  <2>4. disturbed' \subseteq Uris \X Stats \X Hashes
    BY <2>1, <2>2 DEF MemoPut
  <2>5. QED
    BY <2>1, <2>3, <2>4
<1>8. ASSUME NEW t \in Tasks, Resolve(t) PROVE TypeOK' /\ FieldsOK'
  BY <1>8 DEF Resolve, Transition
<1>9. ASSUME NEW t \in Tasks, Describe(t) PROVE TypeOK' /\ FieldsOK'
  BY <1>9 DEF Describe, Return
<1>10. ASSUME NEW t \in Tasks, LookUp(t) PROVE TypeOK' /\ FieldsOK'
  <2>1. KeyOf(t) \in ArtifactKeys
    BY <1>10 DEF LookUp, KeyOf, ArtifactKeys
  <2> DEFINE entry == entries[KeyOf(t)]
  <2>2. CASE ref[t].mime \in OptedOut \/ entry \in {None, Corrupt}
    <3>1. /\ pc[t] = "resolved" /\ pc' = [pc EXCEPT ![t] = "derive"]
          /\ UNCHANGED <<files, revision, caches, late, uri, key, ref, result, handle, during>>
      BY <1>10, <2>2 DEF LookUp, Store!Get
    <3>2. QED
      BY <3>1
  <2>3. CASE ~(ref[t].mime \in OptedOut \/ entry \in {None, Corrupt})
    <3>1. Return(t, entry) /\ UNCHANGED <<files, revision, caches, late>>
      BY <1>10, <2>3 DEF LookUp, Store!Get, Decode
    <3>2. entry \in Renditions
      BY <2>1, <2>3
    <3>3. QED
      BY <3>1, <3>2 DEF Return
  <2>4. QED
    BY <2>2, <2>3
<1>11. ASSUME NEW t \in Tasks, NEW d \in BOOLEAN, Derive(t, d)
       PROVE  TypeOK' /\ FieldsOK'
  <2> DEFINE r == [of |-> Now(t), by |-> revision, degraded |-> d,
                   notes |-> ref[t].mime \in Annotated]
  <2>1. r \in Renditions /\ pc[t] = "derive" /\ UNCHANGED <<files, revision, caches, late>>
    BY <1>11 DEF Derive, Renditions
  <2>2. CASE ref[t].mime \in OptedOut
    <3>1. Return(t, r)
      BY <1>11, <2>2 DEF Derive
    <3>2. QED
      BY <2>1, <3>1 DEF Return
  <2>3. CASE ref[t].mime \notin OptedOut
    <3>1. /\ pc' = [pc EXCEPT ![t] = "store"] /\ result' = [result EXCEPT ![t] = r]
          /\ UNCHANGED <<uri, key, ref, handle, during>>
      BY <1>11, <2>3 DEF Derive
    <3> HIDE DEF r
    <3>2. QED
      BY <2>1, <3>1
  <2>4. QED
    BY <2>2, <2>3
<1>12. ASSUME NEW t \in Tasks, pc[t] = "store"
       PROVE  KeyOf(t) \in ArtifactKeys /\ Encode(result[t]) \in Renditions
  BY <1>12 DEF KeyOf, ArtifactKeys, Encode, Renditions
<1>13. ASSUME NEW t \in Tasks, Keep(t) PROVE TypeOK' /\ FieldsOK'
  BY <1>12, <1>13 DEF Keep, Return, Store!Put
<1>14. ASSUME NEW t \in Tasks, Fail(t) PROVE TypeOK' /\ FieldsOK'
  BY <1>14 DEF Fail, Return
<1>15. ASSUME NEW t \in Tasks, Cancel(t) PROVE TypeOK' /\ FieldsOK'
  <2>1. Return(t, None) /\ UNCHANGED <<files, revision, caches>>
    BY <1>15 DEF Cancel
  <2>2. latePuts' \subseteq LatePuts
    BY <1>15 DEF Cancel, LatePuts
  <2>3. lateEntries' \subseteq LateEntries
    BY <1>12, <1>15 DEF Cancel, LateEntries
  <2>4. QED
    BY <2>1, <2>2, <2>3 DEF Return
<1>16. ASSUME NEW p \in latePuts, RememberLate(p) PROVE TypeOK' /\ FieldsOK'
  <2>1. p.uri \in Uris /\ p.hash \in Hashes
    BY DEF LatePuts
  <2>2. QED
    BY <1>16, <2>1 DEF RememberLate, MemoPut, task
<1>17. ASSUME NEW p \in lateEntries, KeepLate(p) PROVE TypeOK' /\ FieldsOK'
  <2>1. p.key \in ArtifactKeys /\ p.value \in Renditions
    BY DEF LateEntries
  <2>2. QED
    BY <1>17, <2>1 DEF KeepLate, Store!Put, task
<1>18. ASSUME NEW r \in Revisions, Restart(r) PROVE TypeOK' /\ FieldsOK'
  BY <1>18 DEF Restart
<1>19. CASE UNCHANGED vars
  BY <1>19 DEF vars, task
<1>20. QED
  BY <1>1, <1>2, <1>3, <1>4, <1>5, <1>6, <1>7, <1>8, <1>9, <1>10, <1>11, <1>13,
     <1>14, <1>15, <1>16, <1>17, <1>18, <1>19 DEF Next, Step

(* Every variable keeps to its kind, whatever the constants.               *)
THEOREM Typing == Spec => [](TypeOK /\ FieldsOK)
  BY InitTypes, NextTypes, PTL DEF Spec

----------------------------------------------------------------------------
(* What the file held during a call                                        *)

(* A step of a call, in which no file changes.                             *)
LEMMA StepTells ==
  ASSUME TypeOK, NEW t \in Tasks, Step(t) \/ Fail(t) \/ Cancel(t)
  PROVE  /\ UNCHANGED <<content, stamp, uri, revision>> /\ pc[t] # "idle"
         /\ \/ UNCHANGED <<key, during>>
            \/ /\ pc' = [pc EXCEPT ![t] = "idle"] /\ key' = [key EXCEPT ![t] = None]
               /\ during' = [during EXCEPT ![t] = {}]
         /\ \A o \in Tasks \ {t} : /\ pc'[o] = pc[o] /\ ref'[o] = ref[o] /\ handle'[o] = handle[o]
                                   /\ result'[o] = result[o] /\ during'[o] = during[o]
         /\ ~Cancel(t) => UNCHANGED late
         /\ ~RememberHash(t) => UNCHANGED <<hashes, disturbed>>
         /\ ~Resolve(t) => UNCHANGED resolutions
  BY DEF TypeOK, Step, Fail, Cancel, Return, ReadHead, RecallHash, OpenStream, StreamHash,
         RememberHash, Resolve, Describe, LookUp, Derive, Keep, Transition, files, caches, late

(* What a step leaves to be put later.                                     *)
LEMMA LateTells ==
  ASSUME TypeOK, NEW t \in Tasks, Step(t) \/ Fail(t) \/ Cancel(t)
  PROVE  /\ \A p \in latePuts' :
              \/ p \in latePuts
              \/ /\ pc[t] = "remember"
                 /\ p.uri = uri[t] /\ p.hash = ref[t].hash /\ p.during = during[t]
         /\ \A p \in lateEntries' :
              \/ p \in lateEntries
              \/ pc[t] = "store" /\ p.key = KeyOf(t) /\ p.value = Encode(result[t])
<1>1. CASE Cancel(t)
  <2> DEFINE put == [uri |-> uri[t], hash |-> ref[t].hash, during |-> during[t]]
             entry == [key |-> KeyOf(t), value |-> Encode(result[t])]
  <2>1. \/ /\ pc[t] = "remember" /\ latePuts' = latePuts \cup {put} /\ lateEntries' = lateEntries
        \/ /\ pc[t] = "store" /\ lateEntries' = lateEntries \cup {entry} /\ latePuts' = latePuts
    BY <1>1 DEF Cancel
  <2>2. /\ put.uri = uri[t] /\ put.hash = ref[t].hash /\ put.during = during[t]
        /\ entry.key = KeyOf(t) /\ entry.value = Encode(result[t])
    OBVIOUS
  <2> HIDE DEF put, entry
  <2>3. QED
    BY <2>1, <2>2
<1>2. CASE ~Cancel(t)
  <2>1. UNCHANGED late
    BY <1>2, StepTells
  <2>2. QED
    BY <2>1 DEF late
<1>3. QED
  BY <1>1, <1>2

LEMMA NextHistory ==
  TypeOK /\ HistoryInv /\ [Next]_vars => HistoryInv'
<1> SUFFICES ASSUME TypeOK, HistoryInv, [Next]_vars
             PROVE  HistoryInv'
  OBVIOUS
<1> USE PerceptionAssumption DEF TypeOK, HistoryInv, files, caches, late, Now
<1>1. ASSUME NEW u \in Uris, NEW c \in Contents \cup {Gone}, NEW b \in BOOLEAN, Edit(u, c, b)
      PROVE  HistoryInv'
  <2>1. \A t \in Tasks : pc'[t] # "idle" =>
          /\ content'[uri'[t]] \in during'[t]
          /\ ~EditsDuringCalls => during'[t] = {content'[uri'[t]]}
          /\ key'[t] # None => /\ key'[t] <= stamp'[uri'[t]]
                               /\ key'[t] = stamp'[uri'[t]] => during'[t] = {content'[uri'[t]]}
    BY <1>1 DEF Edit, Stats, Quiet
  <2>2. ASSUME NEW p \in latePuts'
        PROVE  /\ content'[p.uri] \in p.during
               /\ ~EditsDuringCalls => p.during = {content'[p.uri]}
    <3>1. PICK q \in latePuts : p = IF q.uri = u THEN [q EXCEPT !.during = @ \cup {c}] ELSE q
      BY <1>1 DEF Edit
    <3>2. /\ q \in LatePuts /\ EditsDuringCalls
      BY <1>1 DEF Edit, Quiet
    <3>3. p.uri = q.uri /\ p.during = IF q.uri = u THEN q.during \cup {c} ELSE q.during
      BY <3>1, <3>2 DEF LatePuts
    <3>4. q.uri \in Uris /\ content'[q.uri] = IF q.uri = u THEN c ELSE content[q.uri]
      BY <1>1, <3>2 DEF Edit, LatePuts
    <3>5. QED
      BY <3>2, <3>3, <3>4
  <2>3. QED
    BY <2>1, <2>2
<1>2. ASSUME NEW t \in Tasks, NEW u \in Uris, Begin(t, u)
      PROVE  HistoryInv'
  BY <1>2 DEF Begin, StatKey, Remembered, Stats
<1>3. ASSUME NEW t \in Tasks, Step(t) \/ Fail(t) \/ Cancel(t) PROVE HistoryInv'
  <2>1. /\ UNCHANGED <<content, stamp, uri>> /\ pc[t] # "idle"
        /\ \/ UNCHANGED <<key, during>>
           \/ /\ pc' = [pc EXCEPT ![t] = "idle"] /\ key' = [key EXCEPT ![t] = None]
              /\ during' = [during EXCEPT ![t] = {}]
        /\ \A o \in Tasks \ {t} : pc'[o] = pc[o]
    BY <1>3, StepTells
  <2>2. \A p \in latePuts' : p \in latePuts \/ (p.uri = uri[t] /\ p.during = during[t])
    BY <1>3, LateTells
  <2>3. \A p \in latePuts' :
          /\ content'[p.uri] \in p.during
          /\ ~EditsDuringCalls => p.during = {content'[p.uri]}
    BY <2>1, <2>2
  <2>4. \A o \in Tasks : pc'[o] # "idle" =>
          /\ content'[uri'[o]] \in during'[o]
          /\ ~EditsDuringCalls => during'[o] = {content'[uri'[o]]}
          /\ key'[o] # None => /\ key'[o] <= stamp'[uri'[o]]
                               /\ key'[o] = stamp'[uri'[o]] => during'[o] = {content'[uri'[o]]}
    BY ZenonT(30), <2>1
  <2>5. QED
    BY <2>3, <2>4
<1>4. ASSUME NEW p \in latePuts, RememberLate(p) PROVE HistoryInv'
  BY <1>4 DEF RememberLate, task
<1>5. ASSUME NEW p \in lateEntries, KeepLate(p) PROVE HistoryInv'
  BY <1>5 DEF KeepLate, task
<1>6. ASSUME NEW r \in Revisions, Restart(r) PROVE HistoryInv'
  BY <1>6 DEF Restart
<1>7. CASE UNCHANGED vars
  BY <1>7 DEF vars, task
<1>8. QED
  BY <1>1, <1>2, <1>3, <1>4, <1>5, <1>6, <1>7 DEF Next

LEMMA NextHandle ==
  TypeOK /\ FieldsOK /\ HistoryInv /\ HandleInv /\ [Next]_vars => HandleInv'
<1> SUFFICES ASSUME TypeOK, FieldsOK, HistoryInv, HandleInv, [Next]_vars
             PROVE  HandleInv'
  OBVIOUS
<1> USE DEF files, caches, late
<1>0. /\ DOMAIN pc = Tasks /\ DOMAIN handle = Tasks /\ DOMAIN during = Tasks
      /\ \A t \in Tasks : handle[t] # None => pc[t] = "stream" /\ handle[t] \in Seen(t)
      /\ \A t \in Tasks : pc[t] = "stream" /\ handle[t] = None => content[uri[t]] \in Seen(t)
      /\ \A t \in Tasks : uri[t] \in Uris
  BY DEF TypeOK, FieldsOK, HistoryInv, HandleInv, Seen
<1>1. ASSUME NEW u \in Uris, NEW c \in Contents \cup {Gone}, NEW b \in BOOLEAN, Edit(u, c, b)
      PROVE  HandleInv'
  <2> SUFFICES ASSUME NEW t \in Tasks, handle'[t] # None
               PROVE  pc'[t] = "stream" /\ handle'[t] \in Seen(t)'
    BY DEF HandleInv
  <2>1. Seen(t) \subseteq Seen(t)'
    BY <1>0, <1>1 DEF Edit, Seen
  <2>2. /\ pc' = pc
        /\ \/ handle'[t] = handle[t]
           \/ pc[t] = "stream" /\ handle[t] = None /\ handle'[t] = content[uri[t]]
    BY <1>1 DEF Edit
  <2>3. QED
    BY <1>0, <2>1, <2>2
<1>2. ASSUME NEW t \in Tasks,
             \/ handle'[t] = None
             \/ pc'[t] = "stream" /\ handle'[t] = handle[t] /\ during'[t] = during[t],
             \A o \in Tasks \ {t} : pc'[o] = pc[o] /\ handle'[o] = handle[o] /\ during'[o] = during[o]
      PROVE  HandleInv'
  BY <1>0, <1>2 DEF HandleInv, Seen
<1>3. ASSUME NEW t \in Tasks, NEW u \in Uris, Begin(t, u) PROVE HandleInv'
  BY <1>0, <1>2, <1>3 DEF Begin
<1>4. ASSUME NEW t \in Tasks, Step(t) \/ Fail(t) \/ Cancel(t) PROVE HandleInv'
  <2>1. CASE StreamHash(t)
    <3>1. \/ handle'[t] = None
          \/ pc'[t] = "stream" /\ handle'[t] = handle[t] /\ during'[t] = during[t]
      BY <1>0, <2>1 DEF StreamHash
    <3>2. QED
      BY <1>2, <1>4, <3>1, StepTells
  <2>2. CASE ~StreamHash(t)
    <3>1. handle'[t] = None \/ (handle'[t] = handle[t] /\ pc[t] # "stream")
      BY <1>0, <1>4, <2>2 DEF Step, Fail, Cancel, Return, ReadHead, RecallHash, OpenStream,
         RememberHash, Resolve, Describe, LookUp, Derive, Keep, Transition
    <3>2. QED
      BY <1>0, <1>2, <1>4, <3>1, StepTells
  <2>3. QED
    BY <2>1, <2>2
<1>5. ASSUME UNCHANGED task PROVE HandleInv'
  BY <1>0, <1>5 DEF task, HandleInv, Seen
<1>6. ASSUME NEW r \in Revisions, Restart(r) PROVE HandleInv'
  BY <1>6 DEF Restart, HandleInv
<1>7. QED
  BY <1>1, <1>3, <1>4, <1>5, <1>6 DEF Next, RememberLate, KeepLate, vars

----------------------------------------------------------------------------
(* What a ref is put together from                                         *)

(* A task that goes no further.                                            *)
LEMMA RefKept ==
  ASSUME NEW t \in Tasks, RefOK(t), pc'[t] = pc[t], ref'[t] = ref[t], uri'[t] = uri[t],
         during[t] \subseteq during'[t], disturbed \subseteq disturbed'
  PROVE  RefOK(t)'
<1>1. Seen(t) \subseteq Seen(t)'
  BY DEF Seen
<1>2. \A h : Disturbed(uri[t], h) => Disturbed(uri[t], h)'
  BY DEF Disturbed
<1>3. \A h : HashOf(h, Seen(t)) => HashOf(h, Seen(t)')
  BY <1>1 DEF HashOf
<1>4. /\ KnowsMime(t)' = KnowsMime(t) /\ KnowsHash(t)' = KnowsHash(t)
      /\ Resolved(t)' = Resolved(t)
  BY DEF KnowsMime, KnowsHash, Resolved
<1>5. Disturbed(uri[t], ref[t].hash) => Disturbed(uri[t], ref[t].hash)'
  BY <1>2
<1>6. QED
  BY <1>1, <1>3, <1>4, <1>5 DEF RefOK

(* A step of t.                                                            *)
LEMMA StepRef ==
  ASSUME RefInv, NEW t \in Tasks, RefOK(t)', UNCHANGED uri, disturbed \subseteq disturbed',
         \A o \in Tasks \ {t} : pc'[o] = pc[o] /\ ref'[o] = ref[o] /\ during'[o] = during[o],
         \A p \in latePuts' : p \in latePuts \/ HashOf(p.hash, p.during)
  PROVE  RefInv'
<1>1. ASSUME NEW o \in Tasks \ {t} PROVE RefOK(o)'
  BY <1>1, RefKept DEF RefInv
<1>2. QED
  BY <1>1 DEF RefInv

LEMMA IdleRef ==
  ASSUME NEW t, pc'[t] \in {"idle", "head"}
  PROVE  RefOK(t)'
  BY DEF RefOK, KnowsMime, KnowsHash, Resolved

LEMMA NextRef ==
  ASSUME TypeOK, FieldsOK, HistoryInv, HandleInv, RefInv, HashesInv, ResolutionsInv, [Next]_vars
  PROVE  RefInv'
<1> USE PerceptionAssumption DEF files, caches, late, Now
<1>0. /\ DOMAIN pc = Tasks /\ DOMAIN uri = Tasks /\ DOMAIN ref = Tasks /\ DOMAIN during = Tasks
      /\ \A t \in Tasks : uri[t] \in Uris /\ RefOK(t) /\ content[uri[t]] \in Contents \cup {Gone}
      /\ \A p \in latePuts : p \in LatePuts /\ HashOf(p.hash, p.during)
  BY DEF TypeOK, RefInv
<1>1. ASSUME NEW u \in Uris, NEW c \in Contents \cup {Gone}, NEW b \in BOOLEAN, Edit(u, c, b)
      PROVE  RefInv'
  <2>1. ASSUME NEW o \in Tasks PROVE RefOK(o)'
    BY <1>0, <1>1, RefKept DEF Edit
  <2>2. ASSUME NEW p \in latePuts' PROVE HashOf(p.hash, p.during)
    <3>1. PICK q \in latePuts : p = IF q.uri = u THEN [q EXCEPT !.during = @ \cup {c}] ELSE q
      BY <1>1 DEF Edit
    <3>2. p.hash = q.hash /\ q.during \subseteq p.during
      BY <1>0, <3>1 DEF LatePuts
    <3>3. QED
      BY <1>0, <3>2 DEF HashOf
  <2>3. QED
    BY <2>1, <2>2 DEF RefInv
<1>2. ASSUME NEW t \in Tasks, NEW u \in Uris, Begin(t, u)
      PROVE  RefInv'
  <2> DEFINE hit == Remembered(u, StatKey(u))
  <2>1. /\ pc' = [pc EXCEPT ![t] = IF hit THEN "resolved" ELSE "head"]
        /\ uri' = [uri EXCEPT ![t] = u]
        /\ ref' = [ref EXCEPT ![t] = IF hit THEN resolutions[u].ref ELSE NoRef]
        /\ during' = [during EXCEPT ![t] = {content[u]}]
        /\ UNCHANGED <<content, disturbed, latePuts>>
    BY <1>2 DEF Begin
  <2> HIDE DEF hit
  <2>2. ASSUME NEW o \in Tasks \ {t} PROVE RefOK(o)'
    BY <1>0, <2>1, RefKept
  <2>3. CASE hit
    <3> DEFINE r == resolutions[u].ref
    <3>1. /\ content[u] \in Contents /\ r.mime = Sniff[u][content[u]] /\ r.size = content[u]
          /\ r.hash = Hash(content[u]) \/ Disturbed(u, r.hash)
      BY <2>3 DEF hit, Remembered, StatKey, ResolutionsInv, TypeOK
    <3>2. /\ pc'[t] = "resolved" /\ uri'[t] = u /\ ref'[t] = r /\ Seen(t)' = {content[u]}
      BY <1>0, <2>1, <2>3, <3>1 DEF Seen
    <3> HIDE DEF r
    <3>3. HashOf(Hash(content[u]), {content[u]})
      BY DEF HashOf, Hash
    <3>4. \A h : Disturbed(u, h) => Disturbed(u, h)'
      BY <2>1 DEF Disturbed
    <3>5. HashOf(ref'[t].hash, Seen(t)') \/ Disturbed(uri[t], ref[t].hash)'
      BY <3>1, <3>2, <3>3, <3>4
    <3>6. RefOK(t)'
      BY <3>1, <3>2, <3>5 DEF RefOK
    <3>7. QED
      BY <1>0, <2>1, <2>2, <3>6 DEF RefInv
  <2>4. CASE ~hit
    BY <1>0, <2>1, <2>2, <2>4, IdleRef DEF RefInv
  <2>5. QED
    BY <2>3, <2>4
<1>3. ASSUME NEW t \in Tasks, ReadHead(t) PROVE RefInv'
  <2>1. /\ content[uri[t]] # Gone /\ pc[t] = "head" /\ pc' = [pc EXCEPT ![t] = "hash"]
        /\ ref' = [ref EXCEPT ![t] = SourceRef(Sniff[uri[t]][content[uri[t]]], None, None)]
        /\ UNCHANGED <<uri, during, disturbed, latePuts>>
    BY <1>3 DEF ReadHead, Transition
  <2>2. content[uri[t]] \in Seen(t)' /\ ref'[t].mime = Sniff[uri[t]][content[uri[t]]] /\ pc'[t] = "hash"
    BY <1>0, <2>1 DEF HistoryInv, Seen, SourceRef
  <2>3. RefOK(t)'
    BY <2>1, <2>2 DEF RefOK, KnowsHash, Resolved
  <2>4. QED
    BY <1>0, <2>1, <2>3, StepRef
<1>4. ASSUME NEW t \in Tasks, RecallHash(t) PROVE RefInv'
  <2> DEFINE h == hashes[uri[t]][stamp[uri[t]]]
             known == UseStatMemo /\ Now(t) # Gone /\ h # None
  <2>1. /\ pc[t] = "hash" /\ pc' = [pc EXCEPT ![t] = IF known THEN "size" ELSE "open"]
        /\ ref' = IF known THEN [ref EXCEPT ![t] = SourceRef(@.mime, h, None)] ELSE ref
        /\ UNCHANGED <<uri, during, disturbed, latePuts>>
    BY <1>4 DEF RecallHash
  <2>2. /\ known => /\ h = Hash(content[uri[t]]) \/ Disturbed(uri[t], h)
                    /\ content[uri[t]] \in Seen(t)
    BY <1>0, <2>1 DEF HashesInv, UndisturbedHashes, HistoryInv, Seen, Disturbed, TypeOK
  <2>3. known => HashOf(h, Seen(t)) \/ Disturbed(uri[t], h)
    BY <2>2 DEF HashOf, Hash
  <2> HIDE DEF h, known
  <2>4. ref'[t].mime = ref[t].mime /\ pc'[t] = (IF known THEN "size" ELSE "open")
        /\ (known => ref'[t].hash = h) /\ uri'[t] = uri[t] /\ Seen(t)' = Seen(t)
    BY <1>0, <2>1 DEF SourceRef, Seen
  <2>5. \A d : Disturbed(uri[t], d) => Disturbed(uri[t], d)'
    BY <2>1 DEF Disturbed
  <2>6. RefOK(t)'
    BY <1>0, <2>1, <2>3, <2>4, <2>5 DEF RefOK, KnowsMime, KnowsHash, Resolved
  <2>7. QED
    BY <1>0, <2>1, <2>6, StepRef
<1>5. ASSUME NEW t \in Tasks, OpenStream(t) PROVE RefInv'
  <2>1. /\ pc[t] = "open" /\ pc' = [pc EXCEPT ![t] = "stream"]
        /\ ref' = [ref EXCEPT ![t] = SourceRef(@.mime, <<>>, None)]
        /\ UNCHANGED <<uri, during, disturbed, latePuts>>
    BY <1>5 DEF OpenStream, Transition
  <2>2. ref'[t].mime = ref[t].mime /\ ref'[t].hash = <<>> /\ pc'[t] = "stream" /\ Seen(t)' = Seen(t)
    BY <1>0, <2>1 DEF SourceRef, Seen
  <2>3. RefOK(t)'
    BY <1>0, <2>1, <2>2 DEF RefOK, KnowsMime, KnowsHash, Resolved
  <2>4. QED
    BY <1>0, <2>1, <2>3, StepRef
<1>6. ASSUME NEW t \in Tasks, StreamHash(t) PROVE RefInv'
  <2> DEFINE chunk == IF handle[t] = None THEN Now(t) ELSE handle[t]
             digest == Append(ref[t].hash, chunk)
             at == IF Len(digest) # Chunks THEN "stream"
                   ELSE IF UseStatMemo THEN "remember" ELSE "size"
  <2>1. /\ pc[t] = "stream" /\ pc' = [pc EXCEPT ![t] = at]
        /\ ref' = [ref EXCEPT ![t] = SourceRef(@.mime, digest, None)]
        /\ UNCHANGED <<uri, during, disturbed, latePuts>>
    BY <1>6 DEF StreamHash
  <2>2. chunk \in Seen(t)
    <3>1. handle[t] = None => content[uri[t]] # Gone
      BY <2>1 DEF FieldsOK
    <3>2. QED
      BY <1>0, <2>1, <3>1 DEF HandleInv, HistoryInv, Seen
  <2>3. ref[t].hash \in Digests /\ Len(ref[t].hash) < Chunks
        /\ \A i \in 1 .. Len(ref[t].hash) : ref[t].hash[i] \in Seen(t)
    BY <1>0, <2>1 DEF FieldsOK, RefOK
  <2>4. /\ Len(digest) = Len(ref[t].hash) + 1 /\ Len(ref[t].hash) \in Nat
        /\ \A i \in 1 .. Len(digest) :
             digest[i] = IF i = Len(ref[t].hash) + 1 THEN chunk ELSE ref[t].hash[i]
    <3>1. chunk \in Contents
      BY <2>2 DEF Seen
    <3>2. ref[t].hash \in Seq(Contents)
      BY <2>3 DEF Digests
    <3>3. QED
      BY <2>3, <3>1, <3>2, DigestGrows
  <2> HIDE DEF chunk, digest
  <2>5. \A i \in 1 .. Len(digest) : digest[i] \in Seen(t)
    <3> SUFFICES ASSUME NEW i \in 1 .. Len(digest) PROVE digest[i] \in Seen(t)
      OBVIOUS
    <3>1. i = Len(ref[t].hash) + 1 \/ i \in 1 .. Len(ref[t].hash)
      BY <2>4
    <3>2. QED
      BY <2>2, <2>3, <2>4, <3>1
  <2>6. ref'[t].mime = ref[t].mime /\ ref'[t].hash = digest /\ pc'[t] = at /\ Seen(t)' = Seen(t)
        /\ uri'[t] = uri[t]
    BY <1>0, <2>1 DEF SourceRef, Seen
  <2>7. at # "stream" => HashOf(digest, Seen(t))
    BY <2>5 DEF HashOf
  <2>8. RefOK(t)'
    BY <1>0, <2>1, <2>5, <2>6, <2>7 DEF RefOK, KnowsMime, KnowsHash, Resolved
  <2>9. QED
    BY <1>0, <2>1, <2>8, StepRef
<1>7. ASSUME NEW t \in Tasks, RememberHash(t) PROVE RefInv'
  <2>1. /\ pc[t] = "remember" /\ pc' = [pc EXCEPT ![t] = "size"] /\ disturbed \subseteq disturbed'
        /\ UNCHANGED <<uri, ref, during, latePuts>>
    BY <1>7 DEF RememberHash, Transition, MemoPut
  <2>2. pc'[t] = "size" /\ Seen(t)' = Seen(t)
    BY <1>0, <2>1 DEF Seen
  <2>3. RefOK(t)'
    BY <1>0, <2>1, <2>2 DEF RefOK, KnowsMime, KnowsHash, Resolved
  <2>4. QED
    BY <1>0, <2>1, <2>3, StepRef
<1>8. ASSUME NEW t \in Tasks, Resolve(t) PROVE RefInv'
  <2>1. /\ content[uri[t]] # Gone /\ pc[t] = "size" /\ pc' = [pc EXCEPT ![t] = "resolved"]
        /\ ref' = [ref EXCEPT ![t] = SourceRef(ref[t].mime, ref[t].hash, content[uri[t]])]
        /\ UNCHANGED <<uri, during, disturbed, latePuts>>
    BY <1>8 DEF Resolve, Transition
  <2>2. /\ pc'[t] = "resolved" /\ Seen(t)' = Seen(t) /\ content[uri[t]] \in Seen(t)
        /\ ref'[t].mime = ref[t].mime /\ ref'[t].hash = ref[t].hash /\ ref'[t].size = content[uri[t]]
    BY <1>0, <2>1 DEF SourceRef, Seen, HistoryInv
  <2>3. Disturbed(uri[t], ref[t].hash) => Disturbed(uri[t], ref[t].hash)'
    BY <2>1, <2>2 DEF Disturbed
  <2>4. RefOK(t)'
    BY <1>0, <2>1, <2>2, <2>3 DEF RefOK, KnowsMime, KnowsHash, Resolved
  <2>5. QED
    BY <1>0, <2>1, <2>4, StepRef
<1>9. ASSUME NEW t \in Tasks,
             Describe(t) \/ LookUp(t) \/ (\E d \in BOOLEAN : Derive(t, d))
             \/ Keep(t) \/ Fail(t) \/ Cancel(t)
      PROVE  RefInv'
  <2>1. /\ UNCHANGED <<uri, disturbed>>
        /\ \A o \in Tasks \ {t} : pc'[o] = pc[o] /\ ref'[o] = ref[o] /\ during'[o] = during[o]
        /\ \/ pc'[t] = "idle"
           \/ Resolved(t) /\ Resolved(t)' /\ ref'[t] = ref[t] /\ during'[t] = during[t]
    BY <1>0, <1>9 DEF Describe, LookUp, Derive, Keep, Fail, Cancel, Return, Resolved
  <2>2. ASSUME Resolved(t), Resolved(t)', ref'[t] = ref[t], during'[t] = during[t]
        PROVE  RefOK(t)'
    <3>1. KnowsMime(t) /\ KnowsHash(t) /\ Seen(t)' = Seen(t)
          /\ pc'[t] \notin {"stream", "remember"}
      BY <2>2 DEF Resolved, KnowsMime, KnowsHash, Seen
    <3>2. Disturbed(uri[t], ref[t].hash) => Disturbed(uri[t], ref[t].hash)'
      BY <2>1, <2>2 DEF Disturbed
    <3>3. QED
      BY <1>0, <2>1, <2>2, <3>1, <3>2 DEF RefOK
  <2>3. RefOK(t)'
    BY <2>1, <2>2, IdleRef
  <2>4. \A p \in latePuts' : p \in latePuts \/ HashOf(p.hash, p.during)
    <3>1. pc[t] = "remember" => HashOf(ref[t].hash, during[t])
      BY <1>0 DEF RefOK, HashOf, Seen
    <3>2. QED
      BY <1>9, <3>1, LateTells DEF Step
  <2>5. QED
    BY <2>1, <2>3, <2>4, StepRef
<1>10. ASSUME disturbed \subseteq disturbed', UNCHANGED task, latePuts' \subseteq latePuts
       PROVE  RefInv'
  <2>1. ASSUME NEW t \in Tasks PROVE RefOK(t)'
    BY <1>0, <1>10, RefKept DEF task
  <2>2. QED
    BY <1>0, <1>10, <2>1 DEF RefInv
<1>11. ASSUME NEW p \in latePuts, RememberLate(p) PROVE RefInv'
  BY <1>10, <1>11 DEF RememberLate, MemoPut
<1>12. ASSUME NEW p \in lateEntries, KeepLate(p) PROVE RefInv'
  BY <1>10, <1>12 DEF KeepLate
<1>13. ASSUME NEW r \in Revisions, Restart(r) PROVE RefInv'
  BY <1>13, IdleRef DEF Restart, RefInv
<1>14. CASE UNCHANGED vars
  BY <1>10, <1>14 DEF vars
<1>15. QED
  BY <1>1, <1>2, <1>3, <1>4, <1>5, <1>6, <1>7, <1>8, <1>9, <1>11, <1>12, <1>13, <1>14
     DEF Next, Step

----------------------------------------------------------------------------
(* What is remembered                                                      *)

(* A put of StatMemo.                                                      *)
LEMMA PutHashes ==
  ASSUME TypeOK, HashesInv, UNCHANGED files, NEW u \in Uris, NEW h \in Hashes, NEW seen,
         HashOf(h, seen), MemoPut(u, h, seen)
  PROVE  HashesInv'
<1> DEFINE s == stamp[u]
<1>1. s \in Stats /\ s \in Nat
  BY PerceptionAssumption DEF TypeOK, Stats
<1>2. /\ \A v \in Uris, x \in Stats : v # u \/ x # s => hashes'[v][x] = hashes[v][x]
      /\ hashes'[u][s] = IF content[u] = Gone THEN hashes[u][s] ELSE h
      /\ seen # {content[u]} => <<u, s, h>> \in disturbed'
      /\ disturbed \subseteq disturbed' /\ content' = content /\ stamp' = stamp
  BY <1>1 DEF MemoPut, TypeOK, files
<1> HIDE DEF s
<1>3. seen = {content[u]} => h = Hash(content[u])
  BY HashOfOne
<1>4. ASSUME NEW v \in Uris, content[v] # Gone
      PROVE  \/ hashes'[v][stamp[v]] \in {None, Hash(content[v])}
             \/ <<v, stamp[v], hashes'[v][stamp[v]]>> \in disturbed'
  <2>1. CASE v = u
    BY <1>2, <1>3, <1>4, <2>1 DEF s
  <2>2. CASE v # u
    <3>1. stamp[v] \in Stats
      BY DEF TypeOK
    <3>2. hashes'[v][stamp[v]] = hashes[v][stamp[v]]
      BY <1>2, <2>2, <3>1
    <3>3. \/ hashes[v][stamp[v]] \in {None, Hash(content[v])}
          \/ <<v, stamp[v], hashes[v][stamp[v]]>> \in disturbed
      BY <1>4 DEF HashesInv, UndisturbedHashes
    <3>4. QED
      BY <1>2, <3>2, <3>3
  <2>3. QED
    BY <2>1, <2>2
<1>5. ASSUME NEW v \in Uris, NEW x \in Stats, x > stamp[v] PROVE hashes'[v][x] = None
  BY <1>1, <1>2, <1>5 DEF HashesInv, s
<1>6. QED
  BY <1>2, <1>4, <1>5 DEF HashesInv, UndisturbedHashes

LEMMA NextHashes ==
  ASSUME TypeOK, FieldsOK, HistoryInv, RefInv, HashesInv, [Next]_vars
  PROVE  HashesInv'
<1> USE PerceptionAssumption
<1>1. ASSUME NEW u \in Uris, NEW c \in Contents \cup {Gone}, NEW b \in BOOLEAN, Edit(u, c, b)
      PROVE  HashesInv'
  <2>1. /\ stamp' = [stamp EXCEPT ![u] = @ + 1] /\ stamp[u] + 1 \in Stats
        /\ content' = [content EXCEPT ![u] = c] /\ UNCHANGED <<hashes, disturbed>>
    BY <1>1 DEF Edit, caches, Stats, TypeOK
  <2>2. hashes[u][stamp[u] + 1] = None
    BY <2>1 DEF Stats, TypeOK, HashesInv
  <2>3. ASSUME NEW v \in Uris, NEW s \in Stats, s > stamp'[v] PROVE hashes'[v][s] = None
    BY <2>1, <2>3 DEF Stats, TypeOK, HashesInv
  <2>4. UndisturbedHashes'
    BY <2>1, <2>2 DEF TypeOK, HashesInv, UndisturbedHashes
  <2>5. QED
    BY <2>3, <2>4 DEF HashesInv
<1>2. ASSUME UNCHANGED <<content, stamp, hashes, disturbed>> PROVE HashesInv'
  BY <1>2 DEF HashesInv, UndisturbedHashes
<1>3. ASSUME NEW t \in Tasks, RememberHash(t) PROVE HashesInv'
  <2>1. /\ uri[t] \in Uris /\ ref[t].hash \in Hashes /\ UNCHANGED files
        /\ MemoPut(uri[t], ref[t].hash, during[t])
    BY <1>3 DEF RememberHash, Transition, TypeOK, FieldsOK, KnowsHash
  <2>2. HashOf(ref[t].hash, during[t])
    BY <1>3 DEF RememberHash, Transition, RefInv, RefOK, HashOf, Seen
  <2>3. QED
    BY <2>1, <2>2, PutHashes
<1>4. ASSUME NEW t \in Tasks, (Step(t) /\ ~RememberHash(t)) \/ Fail(t) \/ Cancel(t)
      PROVE  HashesInv'
  <2>1. ~RememberHash(t)
    BY <1>4 DEF Fail, Cancel, Return, RememberHash, Transition, TypeOK
  <2>2. QED
    BY <1>2, <1>4, <2>1, StepTells
<1>5. ASSUME NEW p \in latePuts, RememberLate(p) PROVE HashesInv'
  <2>1. p.uri \in Uris /\ p.hash \in Hashes
    BY DEF TypeOK, LatePuts
  <2>2. QED
    BY <1>5, <2>1, PutHashes DEF RememberLate, RefInv
<1>6. ASSUME NEW r \in Revisions, Restart(r) PROVE HashesInv'
  BY <1>6 DEF Restart, files, HashesInv, UndisturbedHashes, TypeOK
<1>7. ASSUME \/ \E t \in Tasks, u \in Uris : Begin(t, u)
             \/ \E p \in lateEntries : KeepLate(p)
             \/ UNCHANGED vars
      PROVE  HashesInv'
  BY <1>2, <1>7 DEF Begin, KeepLate, vars, files, caches
<1>8. QED
  BY <1>1, <1>3, <1>4, <1>5, <1>6, <1>7 DEF Next

LEMMA NextResolutions ==
  ASSUME TypeOK, FieldsOK, HistoryInv, RefInv, ResolutionsInv, [Next]_vars
  PROVE  ResolutionsInv'
<1> USE PerceptionAssumption
<1>1. ASSUME NEW u \in Uris, NEW c \in Contents \cup {Gone}, NEW b \in BOOLEAN, Edit(u, c, b)
      PROVE  ResolutionsInv'
  <2>1. /\ stamp' = [stamp EXCEPT ![u] = @ + 1] /\ stamp[u] \in Nat
        /\ content' = [content EXCEPT ![u] = c] /\ UNCHANGED <<resolutions, disturbed>>
    BY <1>1 DEF Edit, caches, Stats, TypeOK
  <2>2. \A v, h : Disturbed(v, h)' = Disturbed(v, h)
    BY <2>1 DEF Disturbed
  <2>3. ASSUME NEW v \in Uris, resolutions[v] # None
        PROVE  /\ resolutions[v].stat <= stamp'[v]
               /\ v = u => resolutions[v].stat # stamp'[v]
               /\ v # u => stamp'[v] = stamp[v] /\ content'[v] = content[v]
    <3>1. resolutions[v].stat \in Nat /\ stamp[v] \in Nat /\ resolutions[v].stat <= stamp[v]
      BY <2>3 DEF TypeOK, Stats, ResolutionsInv
    <3>2. stamp'[v] = IF v = u THEN stamp[v] + 1 ELSE stamp[v]
      BY <2>1 DEF TypeOK
    <3>3. v # u => content'[v] = content[v]
      BY <2>1 DEF TypeOK
    <3>4. QED
      BY <3>1, <3>2, <3>3
  <2>4. QED
    BY <2>1, <2>2, <2>3 DEF ResolutionsInv
<1>2. ASSUME UNCHANGED <<content, stamp, resolutions>>, disturbed \subseteq disturbed'
      PROVE  ResolutionsInv'
  <2>1. \A u, h : Disturbed(u, h) => Disturbed(u, h)'
    BY <1>2 DEF Disturbed
  <2>2. QED
    BY <1>2, <2>1 DEF ResolutionsInv
<1>3. ASSUME NEW t \in Tasks, Resolve(t) PROVE ResolutionsInv'
  <2> DEFINE u == uri[t]
             done == SourceRef(ref[t].mime, ref[t].hash, content[u])
  <2>1. /\ pc[t] = "size" /\ u \in Uris /\ UNCHANGED <<content, stamp, disturbed>>
        /\ resolutions' = IF key[t] = None THEN resolutions
                          ELSE [resolutions EXCEPT ![u] = [stat |-> key[t], ref |-> done]]
    BY <1>3 DEF Resolve, Transition, Now, files, TypeOK
  <2>2. CASE key[t] = None
    BY <1>2, <2>1, <2>2
  <2>3. CASE key[t] # None
    <3>1. key[t] <= stamp[u] /\ (key[t] = stamp[u] => during[t] = {content[u]})
      BY <2>1, <2>3 DEF HistoryInv
    <3>2. /\ \E c \in Seen(t) : ref[t].mime = Sniff[u][c]
          /\ HashOf(ref[t].hash, Seen(t)) \/ Disturbed(u, ref[t].hash)
          /\ ref[t].hash \in Hashes
      BY <2>1 DEF RefInv, RefOK, FieldsOK, KnowsMime, KnowsHash
    <3>3. key[t] = stamp[u] =>
            /\ ref[t].mime = Sniff[u][content[u]]
            /\ ref[t].hash = Hash(content[u]) \/ Disturbed(u, ref[t].hash)
      <4> SUFFICES ASSUME key[t] = stamp[u]
                   PROVE  /\ ref[t].mime = Sniff[u][content[u]]
                          /\ ref[t].hash = Hash(content[u]) \/ Disturbed(u, ref[t].hash)
        OBVIOUS
      <4>1. Seen(t) \subseteq {content[u]}
        BY <3>1 DEF Seen
      <4>2. HashOf(ref[t].hash, Seen(t)) => HashOf(ref[t].hash, {content[u]})
        BY <4>1, HashOfMore
      <4>3. QED
        BY <3>2, <4>1, <4>2, HashOfOne
    <3>4. /\ resolutions'[u] = [stat |-> key[t], ref |-> done]
          /\ \A v \in Uris \ {u} : resolutions'[v] = resolutions[v]
      BY <2>1, <2>3 DEF TypeOK
    <3>5. /\ resolutions'[u].stat = key[t] /\ resolutions'[u].ref.mime = ref[t].mime
          /\ resolutions'[u].ref.hash = ref[t].hash /\ resolutions'[u].ref.size = content[u]
      BY <3>4 DEF SourceRef
    <3> HIDE DEF done, u
    <3>6. \A v, h : Disturbed(v, h)' = Disturbed(v, h)
      BY <2>1 DEF Disturbed
    <3>7. ASSUME NEW v \in Uris, resolutions'[v] # None
          PROVE  /\ resolutions'[v].stat <= stamp[v]
                 /\ content[v] # Gone /\ resolutions'[v].stat = stamp[v] =>
                      /\ resolutions'[v].ref.mime = Sniff[v][content[v]]
                      /\ resolutions'[v].ref.size = content[v]
                      /\ \/ resolutions'[v].ref.hash = Hash(content[v])
                         \/ Disturbed(v, resolutions'[v].ref.hash)
      <4>1. CASE v = u
        BY <3>1, <3>3, <3>5, <4>1
      <4>2. CASE v # u
        BY <3>4, <3>7, <4>2 DEF ResolutionsInv
      <4>3. QED
        BY <4>1, <4>2
    <3>8. QED
      BY <2>1, <3>6, <3>7 DEF ResolutionsInv
  <2>4. QED
    BY <2>2, <2>3
<1>4. ASSUME NEW t \in Tasks, (Step(t) /\ ~Resolve(t)) \/ Fail(t) \/ Cancel(t)
      PROVE  ResolutionsInv'
  <2>1. ~Resolve(t)
    BY <1>4 DEF Fail, Cancel, Return, Resolve, Transition, TypeOK
  <2>2. UNCHANGED <<content, stamp, resolutions>>
    BY <1>4, <2>1, StepTells
  <2>3. disturbed \subseteq disturbed'
    <3>1. CASE RememberHash(t)
      BY <3>1 DEF RememberHash, MemoPut
    <3>2. CASE ~RememberHash(t)
      BY <1>4, <3>2, StepTells
    <3>3. QED
      BY <3>1, <3>2
  <2>4. QED
    BY <1>2, <2>2, <2>3
<1>5. ASSUME \/ \E t \in Tasks, u \in Uris : Begin(t, u)
             \/ \E p \in latePuts : RememberLate(p)
             \/ \E p \in lateEntries : KeepLate(p)
             \/ UNCHANGED vars
      PROVE  ResolutionsInv'
  BY <1>2, <1>5 DEF Begin, RememberLate, KeepLate, MemoPut, vars, files, caches
<1>6. ASSUME NEW r \in Revisions, Restart(r) PROVE ResolutionsInv'
  BY <1>6 DEF Restart, ResolutionsInv
<1>7. QED
  BY <1>1, <1>3, <1>4, <1>5, <1>6 DEF Next

(* No hash is disturbed when no edit overlaps a call, or none is kept.     *)
LEMMA NextSafe ==
  ASSUME TypeOK, HistoryInv, SafeInv, [Next]_vars
  PROVE  SafeInv'
<1>1. ASSUME NEW t \in Tasks, RememberHash(t) PROVE SafeInv'
  <2>1. /\ UseStatMemo /\ pc[t] # "idle" /\ UNCHANGED latePuts
        /\ MemoPut(uri[t], ref[t].hash, during[t])
    BY <1>1 DEF RememberHash, Transition, SafeInv, late
  <2>2. Safe => during[t] = {content[uri[t]]}
    BY <2>1 DEF Safe, HistoryInv
  <2>3. QED
    BY <2>1, <2>2 DEF SafeInv, MemoPut
<1>2. ASSUME NEW p \in latePuts, RememberLate(p) PROVE SafeInv'
  <2>1. UseStatMemo /\ MemoPut(p.uri, p.hash, p.during)
    BY <1>2 DEF RememberLate, SafeInv
  <2>2. Safe => p.during = {content[p.uri]}
    BY <2>1 DEF Safe, HistoryInv
  <2>3. QED
    BY <2>1, <2>2 DEF SafeInv, MemoPut
<1>3. ASSUME UNCHANGED disturbed,
             ~UseStatMemo => latePuts' = {} /\ \A t \in Tasks : pc'[t] # "remember"
      PROVE  SafeInv'
  BY <1>3 DEF SafeInv
<1>4. ASSUME NEW t \in Tasks, (Step(t) /\ ~RememberHash(t)) \/ Fail(t) \/ Cancel(t)
      PROVE  SafeInv'
  <2>1. ~RememberHash(t)
    BY <1>4 DEF Fail, Cancel, Return, RememberHash, Transition, TypeOK
  <2>2. UNCHANGED disturbed /\ \A o \in Tasks \ {t} : pc'[o] = pc[o]
    BY <1>4, <2>1, StepTells
  <2>3. ~UseStatMemo => pc'[t] # "remember"
    BY <1>4, <2>1 DEF TypeOK, Step, Fail, Cancel, Return, ReadHead, RecallHash, OpenStream,
       StreamHash, Resolve, Describe, LookUp, Derive, Keep, Transition, SafeInv
  <2>4. ~UseStatMemo => latePuts' = {}
    BY <1>4, LateTells DEF SafeInv
  <2>5. QED
    BY <1>3, <2>2, <2>3, <2>4 DEF SafeInv
<1>5. ASSUME NEW t \in Tasks, NEW u \in Uris, Begin(t, u) PROVE SafeInv'
  BY <1>3, <1>5 DEF Begin, TypeOK, SafeInv, caches, late
<1>6. ASSUME NEW u \in Uris, NEW c \in Contents \cup {Gone}, NEW b \in BOOLEAN, Edit(u, c, b)
      PROVE  SafeInv'
  BY <1>3, <1>6 DEF Edit, SafeInv, caches
<1>7. ASSUME NEW p \in lateEntries, KeepLate(p) PROVE SafeInv'
  BY <1>3, <1>7 DEF KeepLate, SafeInv, task
<1>8. ASSUME NEW r \in Revisions, Restart(r) PROVE SafeInv'
  BY <1>8 DEF Restart, SafeInv
<1>9. CASE UNCHANGED vars
  BY <1>3, <1>9 DEF vars, caches, late, task, SafeInv
<1>10. QED
  BY <1>1, <1>2, <1>4, <1>5, <1>6, <1>7, <1>8, <1>9 DEF Next

----------------------------------------------------------------------------
(* What is stored, while no call is overlapped by an edit                  *)

LEMMA NextStore ==
  ASSUME ~EditsDuringCalls,
         TypeOK, FieldsOK, HistoryInv, RefInv, SafeInv, StoreInv, [Next]_vars
  PROVE  StoreInv'
<1> USE PerceptionAssumption, EntriesAssumption
<1> USE DEF StoreInv, EntriesAreOfTheirKey, Now
<1>1. ASSUME NEW u \in Uris, NEW c \in Contents \cup {Gone}, NEW b \in BOOLEAN, Edit(u, c, b)
      PROVE  StoreInv'
  BY <1>1 DEF Edit, Quiet, caches
<1>2. ASSUME NEW t \in Tasks, NEW d \in BOOLEAN, Derive(t, d)
      PROVE  StoreInv'
  <2> DEFINE r == [of |-> Now(t), by |-> revision, degraded |-> d,
                   notes |-> ref[t].mime \in Annotated]
  <2>1. /\ UNCHANGED <<content, revision, entries, uri, lateEntries>>
        /\ pc'[t] = "store" => result'[t] = r
        /\ \A o \in Tasks \ {t} : pc'[o] = pc[o] /\ result'[o] = result[o]
    BY <1>2 DEF Derive, Return, files, caches, late, TypeOK
  <2>2. r.of = content[uri[t]] /\ r.by = revision
    OBVIOUS
  <2> HIDE DEF r
  <2>3. QED
    BY <2>1, <2>2
<1>3. ASSUME NEW t \in Tasks, pc[t] = "store"
      PROVE  /\ KeyOf(t).hash = Hash(Encode(result[t]).of)
             /\ Encode(result[t]).by = KeyOf(t).revision
  <2>1. disturbed = {}
    BY DEF SafeInv, Safe
  <2>2. /\ HashOf(ref[t].hash, Seen(t)) /\ ref[t].hash \in Hashes
    BY <1>3, <2>1 DEF RefInv, RefOK, FieldsOK, KnowsHash, Disturbed
  <2>3. Seen(t) \subseteq {content[uri[t]]}
    BY <1>3 DEF HistoryInv, Seen
  <2>4. ref[t].hash = Hash(content[uri[t]])
    BY <2>2, <2>3, HashOfMore, HashOfOne
  <2>5. QED
    BY <1>3, <2>4 DEF KeyOf, Encode
<1>4. ASSUME NEW t \in Tasks, Keep(t) PROVE StoreInv'
  <2> DEFINE k == KeyOf(t)
             e == Encode(result[t])
  <2>1. /\ UNCHANGED <<content, revision, uri, lateEntries>>
        /\ pc'[t] = "idle" /\ pc[t] = "store"
        /\ \A o \in Tasks \ {t} : pc'[o] = pc[o] /\ result'[o] = result[o]
    BY <1>4 DEF Keep, Return, files, late, TypeOK
  <2>2. k.hash = Hash(e.of) /\ e.by = k.revision
    BY <1>3, <2>1
  <2>3. \A j \in ArtifactKeys : entries'[j] = entries[j] \/ (j = k /\ entries'[j] = e)
    BY <1>4 DEF Keep, Store!Put, TypeOK
  <2> HIDE DEF k, e
  <2>4. EntriesAreOfTheirKey'
    <3>1. ASSUME NEW j \in ArtifactKeys, entries'[j] \in Renditions
          PROVE  j.hash = Hash(entries'[j].of) /\ entries'[j].by = j.revision
      BY <2>2, <2>3, <3>1
    <3>2. QED
      BY <3>1
  <2>5. ASSUME NEW o \in Tasks, pc'[o] = "store"
        PROVE  result'[o].of = content'[uri'[o]] /\ result'[o].by = revision'
    BY <2>1, <2>5
  <2>6. QED
    BY <2>1, <2>4, <2>5
<1>5. ASSUME NEW t \in Tasks, Cancel(t) PROVE StoreInv'
  <2>1. /\ UNCHANGED <<content, revision, entries, uri>> /\ pc'[t] = "idle"
        /\ \A o \in Tasks \ {t} : pc'[o] = pc[o] /\ result'[o] = result[o]
    BY <1>5 DEF Cancel, Return, files, caches, TypeOK
  <2>2. \A p \in lateEntries' :
          \/ p \in lateEntries
          \/ p.key = KeyOf(t) /\ p.value = Encode(result[t]) /\ pc[t] = "store"
    BY <1>5, LateTells
  <2>3. \A p \in lateEntries' : p.key.hash = Hash(p.value.of) /\ p.value.by = p.key.revision
    BY <1>3, <2>2
  <2>4. QED
    BY <2>1, <2>3
<1>6. ASSUME NEW t \in Tasks,
             \/ \E u \in Uris : Begin(t, u)
             \/ ReadHead(t) \/ RecallHash(t) \/ OpenStream(t) \/ StreamHash(t) \/ RememberHash(t)
             \/ Resolve(t) \/ Describe(t) \/ LookUp(t) \/ Fail(t)
      PROVE  StoreInv'
  <2>1. /\ UNCHANGED <<content, revision, entries, lateEntries>>
        /\ pc'[t] # "store"
        /\ \A o \in Tasks \ {t} : /\ pc'[o] = pc[o] /\ result'[o] = result[o]
                                  /\ uri'[o] = uri[o]
    BY <1>6 DEF Begin, Fail, Return, ReadHead, RecallHash, OpenStream, StreamHash, RememberHash,
                Resolve, Describe, LookUp, Transition, files, caches, late, TypeOK
  <2>2. QED
    BY <2>1
<1>7. ASSUME NEW p \in latePuts, RememberLate(p) PROVE StoreInv'
  BY <1>7 DEF RememberLate, files, task
<1>8. ASSUME NEW p \in lateEntries, KeepLate(p) PROVE StoreInv'
  <2>1. \A j \in ArtifactKeys : entries'[j] = entries[j] \/ (j = p.key /\ entries'[j] = p.value)
    BY <1>8 DEF KeepLate, Store!Put, TypeOK
  <2>2. p.key.hash = Hash(p.value.of) /\ p.value.by = p.key.revision
    OBVIOUS
  <2>3. EntriesAreOfTheirKey'
    BY <2>1, <2>2
  <2>4. QED
    BY <1>8, <2>3 DEF KeepLate, files, task
<1>9. ASSUME NEW r \in Revisions, Restart(r) PROVE StoreInv'
  BY <1>9 DEF Restart
<1>10. CASE UNCHANGED vars
  BY <1>10 DEF vars, task, files, caches, late
<1>11. QED
  BY <1>1, <1>2, <1>4, <1>5, <1>6, <1>7, <1>8, <1>9, <1>10 DEF Next, Step

----------------------------------------------------------------------------
(* The theorems                                                            *)

LEMMA InitInv == Init => Inv
<1> SUFFICES ASSUME Init PROVE Inv
  OBVIOUS
<1> USE PerceptionAssumption, EntriesAssumption
<1>1. TypeOK /\ FieldsOK
  BY InitTypes
<1>2. HistoryInv /\ HandleInv /\ RefInv /\ ResolutionsInv /\ SafeInv
  BY DEF Init, HistoryInv, HandleInv, RefInv, RefOK, KnowsMime, KnowsHash, Resolved,
         ResolutionsInv, SafeInv
<1>3. HashesInv
  BY DEF Init, HashesInv, UndisturbedHashes, Stats
<1>4. StoreInv
  BY DEF Init, StoreInv, EntriesAreOfTheirKey
<1>5. QED
  BY <1>1, <1>2, <1>3, <1>4 DEF Inv

LEMMA NextInv == Inv /\ [Next]_vars => Inv'
<1> SUFFICES ASSUME Inv, [Next]_vars PROVE Inv'
  OBVIOUS
<1>1. TypeOK' /\ FieldsOK'
  BY NextTypes DEF Inv
<1>2. HistoryInv' /\ HandleInv' /\ RefInv'
  BY NextHistory, NextHandle, NextRef DEF Inv
<1>3. HashesInv' /\ ResolutionsInv' /\ SafeInv'
  BY NextHashes, NextResolutions, NextSafe DEF Inv
<1>4. StoreInv'
  <2>1. CASE EditsDuringCalls
    BY <2>1 DEF StoreInv
  <2>2. CASE ~EditsDuringCalls
    BY <2>2, NextStore DEF Inv
  <2>3. QED
    BY <2>1, <2>2
<1>5. QED
  BY <1>1, <1>2, <1>3, <1>4 DEF Inv

(* Everything the theorems below are read off.                             *)
LEMMA Invariance == Spec => []Inv
  BY InitInv, NextInv, PTL DEF Spec

(* A resolution remembered under a stat that still stands is of what the   *)
(* file holds, provided there is no StatMemo or no edit overlaps a call    *)
(* (resolution.py).                                                        *)
THEOREM MemosCurrent ==
  ASSUME Safe
  PROVE  Spec => []ResolutionsCurrent
<1>1. Inv => ResolutionsCurrent
  <2> SUFFICES ASSUME Inv, NEW u \in Uris, content[u] # Gone, resolutions[u] # None,
                      resolutions[u].stat = stamp[u]
               PROVE  resolutions[u].ref = RefOf(u, content[u])
    BY DEF ResolutionsCurrent
  <2> DEFINE r == resolutions[u].ref
  <2>1. /\ r.mime = Sniff[u][content[u]] /\ r.size = content[u]
        /\ r.hash = Hash(content[u]) \/ Disturbed(u, r.hash)
    BY DEF Inv, ResolutionsInv
  <2>2. r.hash = Hash(content[u])
    BY <2>1 DEF Inv, SafeInv, Disturbed
  <2>3. r = [mime |-> r.mime, hash |-> r.hash, size |-> r.size]
    BY DEF Inv, TypeOK, Refs
  <2>4. QED
    BY <2>1, <2>2, <2>3 DEF RefOf, SourceRef
<1>2. QED
  BY <1>1, Invariance, PTL

(* However files are edited, a hash that the StatMemo lets through is that *)
(* of what the file holds, unless it came from a call which an edit        *)
(* overlapped between its first await and the memo's second stat           *)
(* (hashing.py).                                                           *)
THEOREM HashesAreCurrent == Spec => []UndisturbedHashes
<1>1. Inv => UndisturbedHashes
  BY DEF Inv, HashesInv
<1>2. QED
  BY <1>1, Invariance, PTL

(* However files are edited, between the chunks of a hash too, every chunk *)
(* of the hash a call goes by is of something its file held while the call *)
(* ran, whether it was streamed or came from a memo, unless it is one that *)
(* the StatMemo had from a call which an edit overlapped (perception.py,   *)
(* _ref).                                                                  *)
THEOREM HashesAreOfTheirCall == Spec => []HashFromThisCall
<1>1. Inv => HashFromThisCall
  BY DEF Inv, HashFromThisCall, RefInv, RefOK, HashOf, Seen, KnowsHash, Resolved
<1>2. QED
  BY <1>1, Invariance, PTL

(* A call whose file stood still has the ref of what the file holds: its   *)
(* mimetype, its hash and its size, though they were read in many steps    *)
(* (perception.py, _ref), with the same exception for the hash.            *)
THEOREM RefsAreOfOneFile == Spec => []UndisturbedRef
<1>1. Inv => UndisturbedRef
  <2> SUFFICES ASSUME Inv, NEW t \in Tasks, Resolved(t), NEW c \in Contents, during[t] = {c}
               PROVE  /\ ref[t].mime = Sniff[uri[t]][c] /\ ref[t].size = c
                      /\ ref[t].hash = Hash(c) \/ Disturbed(uri[t], ref[t].hash)
    BY DEF UndisturbedRef
  <2>1. KnowsMime(t) /\ KnowsHash(t) /\ Seen(t) = {c}
    BY DEF KnowsMime, KnowsHash, Resolved, Seen
  <2>2. /\ \E d \in {c} : ref[t].mime = Sniff[uri[t]][d]
        /\ HashOf(ref[t].hash, {c}) \/ Disturbed(uri[t], ref[t].hash)
        /\ ref[t].size \in {c} /\ ref[t].hash \in Hashes
    BY <2>1 DEF Inv, RefInv, RefOK, FieldsOK
  <2>3. QED
    BY <2>2, HashOfOne
<1>2. QED
  BY <1>1, Invariance, PTL

(* While no edit overlaps a call, the store holds under each key what that *)
(* key names (ports/artifacts.py).                                         *)
THEOREM StoreOfItsKeys ==
  ASSUME ~EditsDuringCalls
  PROVE  Spec => []EntriesAreOfTheirKey
<1>1. Inv => EntriesAreOfTheirKey
  BY DEF Inv, StoreInv
<1>2. QED
  BY <1>1, Invariance, PTL

(* Which steps answer with a rendition, and with which.                    *)
LEMMA AnswerIsCurrent ==
  ASSUME ~EditsDuringCalls, Inv, [Next]_vars, NEW t \in Tasks, Answers(t)
  PROVE  result'[t].of = content[uri[t]] /\ result'[t].by = revision
<1> USE PerceptionAssumption, EntriesAssumption DEF Answers
<1>0. /\ DOMAIN pc = Tasks /\ DOMAIN result = Tasks /\ content[uri[t]] \in Contents \cup {Gone}
  BY DEF Inv, TypeOK
<1>1. ASSUME LookUp(t)
      PROVE  result'[t].of = content[uri[t]] /\ result'[t].by = revision
  <2> DEFINE k == KeyOf(t)
  <2>1. pc[t] = "resolved" /\ result'[t] = entries[k]
        /\ entries[k] \notin {None, Corrupt}
    BY <1>0, <1>1 DEF LookUp, Return, Store!Get, Decode
  <2>2. k \in ArtifactKeys /\ k.hash = Hash(content[uri[t]]) /\ k.revision = revision
    <3>1. KnowsHash(t) /\ KnowsMime(t) /\ during[t] = {content[uri[t]]}
      BY <2>1 DEF Inv, HistoryInv, KnowsHash, KnowsMime
    <3>2. ref[t].mime \in Mimes /\ ref[t].hash \in Hashes /\ revision \in Revisions
      BY <3>1 DEF Inv, FieldsOK, TypeOK
    <3>3. disturbed = {}
      BY DEF Inv, SafeInv, Safe
    <3>4. HashOf(ref[t].hash, Seen(t)) /\ Seen(t) \subseteq {content[uri[t]]}
      BY <3>1, <3>3 DEF Inv, RefInv, RefOK, Seen, Disturbed
    <3>5. ref[t].hash = Hash(content[uri[t]])
      BY <3>2, <3>4, HashOfMore, HashOfOne
    <3>6. QED
      BY <3>2, <3>5 DEF KeyOf, ArtifactKeys
  <2> HIDE DEF k
  <2>3. entries[k] \in Renditions
    BY <2>1, <2>2 DEF Inv, TypeOK
  <2>4. Hash(content[uri[t]]) = Hash(entries[k].of) /\ entries[k].by = revision
    BY <2>2, <2>3 DEF Inv, StoreInv, EntriesAreOfTheirKey
  <2>5. content[uri[t]] = entries[k].of
    BY <2>4, HashTells
  <2>6. QED
    BY <2>1, <2>4, <2>5
<1>2. ASSUME NEW d \in BOOLEAN, Derive(t, d)
      PROVE  result'[t].of = content[uri[t]] /\ result'[t].by = revision
  <2> DEFINE r == [of |-> Now(t), by |-> revision, degraded |-> d,
                   notes |-> ref[t].mime \in Annotated]
  <2>1. result'[t] = r
    BY <1>0, <1>2 DEF Derive, Return
  <2>2. r.of = content[uri[t]] /\ r.by = revision
    BY DEF Now
  <2>3. QED
    BY <2>1, <2>2
<1>3. ASSUME Keep(t)
      PROVE  result'[t].of = content[uri[t]] /\ result'[t].by = revision
  <2>1. result'[t] = result[t] /\ pc[t] = "store"
    BY <1>0, <1>3 DEF Keep, Return
  <2>2. QED
    BY <2>1 DEF Inv, StoreInv
<1>4. ASSUME Describe(t) \/ Fail(t) \/ Cancel(t) \/ \E r \in Revisions : Restart(r) PROVE FALSE
  BY <1>0, <1>4 DEF Describe, Fail, Cancel, Restart, Return
<1>5. ASSUME \/ \E u \in Uris, c \in Contents \cup {Gone}, b \in BOOLEAN : Edit(u, c, b)
             \/ \E u \in Uris : Begin(t, u)
             \/ ReadHead(t) \/ RecallHash(t) \/ OpenStream(t) \/ StreamHash(t)
             \/ RememberHash(t) \/ Resolve(t)
             \/ \E p \in latePuts : RememberLate(p)
             \/ \E p \in lateEntries : KeepLate(p)
             \/ UNCHANGED vars
      PROVE FALSE
  BY <1>0, <1>5 DEF Edit, Begin, ReadHead, RecallHash, OpenStream, StreamHash, RememberHash,
              Resolve, RememberLate, KeepLate, Transition, vars, task
<1>6. ASSUME NEW o \in Tasks \ {t}, Step(o) \/ Fail(o) \/ Cancel(o) \/ \E u \in Uris : Begin(o, u)
      PROVE  FALSE
  <2>1. pc'[t] = pc[t]
    BY <1>0, <1>6, StepTells DEF Begin, Inv
  <2>2. QED
    BY <2>1
<1>7. QED
  BY SMTT(30), <1>1, <1>2, <1>3, <1>4, <1>5, <1>6 DEF Next, Step

(* While no edit overlaps a call, whatever is answered, from the store or  *)
(* from a handler, is of the file as it is then and by the models there    *)
(* are (perception.py, invoke).                                            *)
THEOREM AnswersAreCurrent ==
  ASSUME ~EditsDuringCalls
  PROVE  Spec => AnswersCurrent
<1>1. Inv /\ [Next]_vars =>
        [\A t \in Tasks : Answers(t) =>
           result'[t].of = content[uri[t]] /\ result'[t].by = revision]_vars
  BY AnswerIsCurrent
<1>2. QED
  BY <1>1, InitInv, NextInv, PTL DEF Spec, AnswersCurrent

============================================================================
