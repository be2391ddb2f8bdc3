----------------------------- MODULE Perception -----------------------------
(***************************************************************************)
(* Perception (pipeline/perception.py) over a directory of loose files:    *)
(* how a uri becomes a SourceRef, and how an affordance is answered, by    *)
(* several asyncio tasks at once, while somebody else edits the files.     *)
(*                                                                         *)
(* Three caches stand in the way of an answer, each with its own rule:     *)
(*   resolutions   ResolutionMemo, uri -> SourceRef while the stat taken   *)
(*                 before the file was read stands still;                  *)
(*   hashes        StatMemo, stat -> hash, under the stat taken after the  *)
(*                 file was read;                                          *)
(*   entries       the ArtifactStore, addressed by the derivation.         *)
(*                                                                         *)
(* The model splits a call wherever the code awaits.  A file holds one of  *)
(* Contents; it is hashed chunk by chunk, with an await for each, so that  *)
(* a hash is what each chunk was of.  A stat is the number of edits so     *)
(* far, so every edit shows in it.                                         *)
(***************************************************************************)
EXTENDS Naturals, Sequences, FiniteSets

CONSTANTS
  Tasks,             (* the calls that may be under way at once            *)
  Uris,
  Contents,          (* what a file may hold                               *)
  Chunks,            (* how many chunks a file is streamed in              *)
  Mimes,             (* the mimetypes, each with the handler that takes it *)
  Sniff,             (* Sniff[u][c]: the mimetype of u when it holds c     *)
  Annotated,         (* the mimetypes whose renditions carry Degradations  *)
  OptedOut,          (* those whose handler has handler_version 0          *)
  Revisions,         (* what CapabilitySet.fingerprint may answer          *)
  MaxEdits,          (* edits of one file: bounds the model                *)
  MaxLate,           (* puts left by cancelled calls: bounds the model     *)
  UseStatMemo,       (* ContentHasher(memo=StatMemo()), or memo=None       *)
  UseResolutionMemo, (* Perception(memo=ResolutionMemo()), or memo=None    *)
  EditsDuringCalls,  (* may a file be edited while a call is under way?    *)
  Gone, None, Corrupt

ASSUME PerceptionAssumption ==
  /\ Sniff \in [Uris -> [Contents -> Mimes]]
  /\ Annotated \subseteq Mimes /\ OptedOut \subseteq Mimes
  /\ MaxEdits \in Nat /\ MaxLate \in Nat /\ Chunks \in Nat \ {0}
  /\ {UseStatMemo, UseResolutionMemo, EditsDuringCalls} \subseteq BOOLEAN
  /\ Gone \notin Contents /\ None \notin Contents \cup Mimes \cup Nat

Stats == 0 .. MaxEdits

(* What a digest has taken in; the hashes there may be; that of a file     *)
(* which holds c.                                                          *)
Digests == Seq(Contents)
Hashes == [1 .. Chunks -> Contents]
Hash(c) == [i \in 1 .. Chunks |-> c]

(* A SourceRef: what each of its fields was read from.                     *)
Refs == [mime : Mimes, hash : Hashes, size : Contents]

(* A Rendition: what it was made of, by which models, whether a transient  *)
(* failure degraded it, and whether it carries its Degradations.           *)
Renditions ==
  [of : Contents, by : Revisions, degraded : BOOLEAN, notes : BOOLEAN]

ASSUME EntriesAssumption == Renditions \cap {None, Corrupt} = {}

(* artifact_key: affordance and parameters are fixed, the rest may vary.   *)
ArtifactKeys == [hash : Hashes, mime : Mimes, revision : Revisions]

(* What a thread has been given to put into the StatMemo, of a call during *)
(* which its file held so much, and into the store.                        *)
LatePuts == [uri : Uris, hash : Hashes, during : SUBSET (Contents \cup {Gone})]
LateEntries == [key : ArtifactKeys, value : Renditions]

VARIABLES
  content,      (* content[u]: what the file holds, or Gone                *)
  stamp,        (* stamp[u]: its stat                                      *)
  revision,     (* the capabilities of this process                        *)
  resolutions,  (* resolutions[u]: [stat, ref], or None                    *)
  hashes,       (* hashes[u][s]: the hash remembered for u at stat s       *)
  entries,      (* the artifact store                                      *)
  pc, uri,      (* pc[t], uri[t]: where task t is, on which file           *)
  key,          (* key[t]: the stat taken as t began, or None              *)
  ref,          (* ref[t]: the SourceRef as far as it is known             *)
  result,       (* result[t]: the rendition in hand, or None               *)
  handle,       (* handle[t]: what t reads of a file no longer there, None *)
  during,       (* during[t]: what the file of t held since t began        *)
  latePuts,     (* StatMemo.put: what cancelled calls left to their threads *)
  lateEntries,  (* ... and ArtifactStore.put                               *)
  disturbed     (* the hashes remembered from calls that edits overlapped  *)

Store == INSTANCE ArtifactStore
  WITH Keys <- ArtifactKeys, Values <- Renditions \cup {Corrupt}, NoEntry <- None

files  == <<content, stamp>>
caches == <<resolutions, hashes, entries, disturbed>>
late   == <<latePuts, lateEntries>>
task   == <<pc, uri, key, ref, result, handle, during>>
vars   == <<files, revision, caches, task, late>>

SourceRef(m, h, n) == [mime |-> m, hash |-> h, size |-> n]

NoRef == SourceRef(None, None, None)

(* A store that outlived an earlier version may hold one entry that no     *)
(* longer decodes, where it will be looked up.                             *)
Init ==
  /\ content \in [Uris -> Contents]
  /\ stamp = [u \in Uris |-> 0]
  /\ revision \in Revisions
  /\ resolutions = [u \in Uris |-> None]
  /\ hashes = [u \in Uris |-> [s \in Stats |-> None]]
  /\ \E old \in SUBSET {k \in ArtifactKeys : k.revision = revision /\ k.mime \notin OptedOut} :
       /\ \A k1, k2 \in old : k1 = k2
       /\ entries = [k \in ArtifactKeys |-> IF k \in old THEN Corrupt ELSE None]
  /\ pc = [t \in Tasks |-> "idle"]
  /\ uri \in [Tasks -> Uris]
  /\ key = [t \in Tasks |-> None]
  /\ ref = [t \in Tasks |-> NoRef]
  /\ result = [t \in Tasks |-> None]
  /\ handle = [t \in Tasks |-> None]
  /\ during = [t \in Tasks |-> {}]
  /\ latePuts = {} /\ lateEntries = {} /\ disturbed = {}

Transition(t, from, to) ==
  /\ pc[t] = from
  /\ pc' = [pc EXCEPT ![t] = to]

Now(t) == content[uri[t]]

(* The call is over and answers r; None stands for a Card, a Rendered or   *)
(* an exception.                                                           *)
Return(t, r) ==
  /\ pc'     = [pc EXCEPT ![t] = "idle"]
  /\ key'    = [key EXCEPT ![t] = None]
  /\ ref'    = [ref EXCEPT ![t] = NoRef]
  /\ result' = [result EXCEPT ![t] = r]
  /\ handle' = [handle EXCEPT ![t] = None]
  /\ during' = [during EXCEPT ![t] = {}]
  /\ UNCHANGED uri

----------------------------------------------------------------------------
(* The files                                                               *)

Quiet == (\A t \in Tasks : pc[t] = "idle") /\ latePuts = {} /\ lateEntries = {}

(* u is written to, or another file is put in its place (or none), of      *)
(* which those who have it open see nothing.                               *)
Edit(u, c, replaced) ==
  /\ stamp[u] < MaxEdits
  /\ content[u] # c
  /\ EditsDuringCalls \/ Quiet
  /\ Gone \in {c, content[u]} => replaced
  /\ content' = [content EXCEPT ![u] = c]
  /\ stamp'   = [stamp EXCEPT ![u] = @ + 1]
  /\ handle'  = [t \in Tasks |->
                   IF replaced /\ pc[t] = "stream" /\ uri[t] = u /\ handle[t] = None
                   THEN content[u] ELSE handle[t]]
  /\ during'  = [t \in Tasks |-> IF pc[t] # "idle" /\ uri[t] = u
                                 THEN during[t] \cup {c} ELSE during[t]]
  /\ latePuts' = {IF p.uri = u THEN [p EXCEPT !.during = @ \cup {c}] ELSE p : p \in latePuts}
  /\ UNCHANGED <<revision, caches, pc, uri, key, ref, result, lateEntries>>

----------------------------------------------------------------------------
(* Perception._ref                                                         *)

StatKey(u) ==
  IF content[u] = Gone \/ ~UseResolutionMemo THEN None ELSE stamp[u]

(* Mutant of Remembered: the memo is keyed on the uri alone.               *)
RememberedByUri(u, s) ==
  s # None /\ resolutions[u] # None

(* Is the ref remembered for u one that may be served under stat s?        *)
Remembered(u, s) ==
  s # None /\ resolutions[u] # None /\ resolutions[u].stat = s

(* stat_key, and ResolutionMemo.get with no await between them.            *)
Begin(t, u) ==
  LET s   == StatKey(u)
      hit == Remembered(u, s)
  IN  /\ pc[t] = "idle"
      /\ pc'     = [pc EXCEPT ![t] = IF hit THEN "resolved" ELSE "head"]
      /\ uri'    = [uri EXCEPT ![t] = u]
      /\ key'    = [key EXCEPT ![t] = s]
      /\ ref'    = [ref EXCEPT ![t] = IF hit THEN resolutions[u].ref ELSE NoRef]
      /\ result' = [result EXCEPT ![t] = None]
      /\ handle' = [handle EXCEPT ![t] = None]
      /\ during' = [during EXCEPT ![t] = {content[u]}]
      /\ UNCHANGED <<files, revision, caches, late>>

(* read_range of the head, and what the detector makes of it.              *)
ReadHead(t) ==
  /\ Now(t) # Gone
  /\ Transition(t, "head", "hash")
  /\ ref' = [ref EXCEPT ![t] = SourceRef(Sniff[uri[t]][Now(t)], None, None)]
  /\ UNCHANGED <<files, revision, caches, late, uri, key, result, handle, during>>

(* Mutant of RecallHash: a hash remembered under any stat will do.         *)
RecallHashOfPath(t) ==
  LET seen == {s \in Stats : hashes[uri[t]][s] # None}
  IN  /\ pc[t] = "hash"
      /\ pc'  = [pc EXCEPT ![t] = IF UseStatMemo /\ seen # {} THEN "size" ELSE "open"]
      /\ ref' = IF UseStatMemo /\ seen # {}
                THEN [ref EXCEPT ![t] =
                        SourceRef(@.mime, hashes[uri[t]][CHOOSE s \in seen : TRUE], None)]
                ELSE ref
      /\ UNCHANGED <<files, revision, caches, late, uri, key, result, handle, during>>

(* ContentHasher.hash: StatMemo.get under the stat of this moment.         *)
RecallHash(t) ==
  LET known == UseStatMemo /\ Now(t) # Gone /\ hashes[uri[t]][stamp[uri[t]]] # None
  IN  /\ pc[t] = "hash"
      /\ pc'  = [pc EXCEPT ![t] = IF known THEN "size" ELSE "open"]
      /\ ref' = IF known
                THEN [ref EXCEPT ![t] =
                        SourceRef(@.mime, hashes[uri[t]][stamp[uri[t]]], None)]
                ELSE ref
      /\ UNCHANGED <<files, revision, caches, late, uri, key, result, handle, during>>

(* stream opens the file ...                                               *)
OpenStream(t) ==
  /\ Now(t) # Gone
  /\ Transition(t, "open", "stream")
  /\ ref' = [ref EXCEPT ![t] = SourceRef(@.mime, <<>>, None)]
  /\ UNCHANGED <<files, revision, caches, late, uri, key, result, handle, during>>

(* ... and yields the next chunk, until there is none.                     *)
StreamHash(t) ==
  LET chunk  == IF handle[t] = None THEN Now(t) ELSE handle[t]
      digest == Append(ref[t].hash, chunk)
      done   == Len(digest) = Chunks
  IN  /\ pc[t] = "stream"
      /\ pc' = [pc EXCEPT ![t] = IF ~done THEN "stream"
                                 ELSE IF UseStatMemo THEN "remember" ELSE "size"]
      /\ ref' = [ref EXCEPT ![t] = SourceRef(@.mime, digest, None)]
      /\ handle' = IF done THEN [handle EXCEPT ![t] = None] ELSE handle
      /\ UNCHANGED <<files, revision, caches, late, uri, key, result, during>>

(* Mutant of MemoPut: mtime is not part of the key.                        *)
MemoPutOfPath(u, hash, seen) ==
  /\ hashes' = [hashes EXCEPT ![u] = [s \in Stats |-> hash]]
  /\ UNCHANGED disturbed

(* StatMemo.put takes the stat again: the one of this moment.  The hash is *)
(* of a call during which the file held what is seen.                      *)
MemoPut(u, hash, seen) ==
  /\ hashes' = IF content[u] = Gone THEN hashes
               ELSE [hashes EXCEPT ![u][stamp[u]] = hash]
  /\ disturbed' = IF seen = {content[u]} THEN disturbed
                  ELSE disturbed \cup {<<u, stamp[u], hash>>}

RememberHash(t) ==
  /\ Transition(t, "remember", "size")
  /\ MemoPut(uri[t], ref[t].hash, during[t])
  /\ UNCHANGED <<files, revision, resolutions, entries, late, uri, key, ref, result, handle, during>>

(* Mutant of Resolve: the stat is taken once the file has been read.       *)
ResolveUnderLaterStat(t) ==
  LET done == SourceRef(ref[t].mime, ref[t].hash, Now(t))
  IN  /\ Now(t) # Gone
      /\ Transition(t, "size", "resolved")
      /\ ref' = [ref EXCEPT ![t] = done]
      /\ resolutions' =
           [resolutions EXCEPT ![uri[t]] = [stat |-> stamp[uri[t]], ref |-> done]]
      /\ UNCHANGED <<files, revision, hashes, disturbed, entries, late, uri, key, result, handle, during>>

(* FileSource.size, then ResolutionMemo.put under the first stat.          *)
Resolve(t) ==
  LET done == SourceRef(ref[t].mime, ref[t].hash, Now(t))
  IN  /\ Now(t) # Gone
      /\ Transition(t, "size", "resolved")
      /\ ref' = [ref EXCEPT ![t] = done]
      /\ resolutions' =
           IF key[t] = None THEN resolutions
           ELSE [resolutions EXCEPT ![uri[t]] = [stat |-> key[t], ref |-> done]]
      /\ UNCHANGED <<files, revision, hashes, disturbed, entries, late, uri, key, result, handle, during>>

----------------------------------------------------------------------------
(* What a resolved call goes on to do                                      *)

(* inspect and represent: the handler reads the file, nothing is cached.   *)
Describe(t) ==
  /\ pc[t] = "resolved"
  /\ Now(t) # Gone
  /\ Return(t, None)
  /\ UNCHANGED <<files, revision, caches, late>>

(* Mutant of KeyOf: the models' revisions are not in the key.              *)
KeyOfAnyModel(t) ==
  [hash |-> ref[t].hash, mime |-> ref[t].mime,
   revision |-> CHOOSE r \in Revisions : TRUE]

KeyOf(t) ==
  [hash |-> ref[t].hash, mime |-> ref[t].mime, revision |-> revision]

(* rendition_codec: what an entry says of a rendition.  The Degradations   *)
(* are not encoded.                                                        *)
Encode(r) ==
  [of |-> r.of, by |-> r.by, degraded |-> r.degraded, notes |-> FALSE]
Decode(e) == e

(* invoke: look the derivation up, unless its handler opted out.  An entry *)
(* that does not decode is a miss.                                         *)
LookUp(t) ==
  /\ pc[t] = "resolved"
  /\ LET entry == Store!Get(KeyOf(t))
     IN  IF ref[t].mime \in OptedOut \/ entry \in {None, Corrupt}
         THEN /\ pc' = [pc EXCEPT ![t] = "derive"]
              /\ UNCHANGED <<uri, key, ref, result, handle, during>>
         ELSE Return(t, Decode(entry))
  /\ UNCHANGED <<files, revision, caches, late>>

(* handler.invoke reads the file again, and may degrade for a reason that  *)
(* will not last (a model that is down, a subprocess that timed out).      *)
Derive(t, degraded) ==
  LET r == [of |-> Now(t), by |-> revision, degraded |-> degraded,
            notes |-> ref[t].mime \in Annotated]
  IN  /\ pc[t] = "derive"
      /\ Now(t) # Gone
      /\ IF ref[t].mime \in OptedOut
         THEN Return(t, r)
         ELSE /\ pc' = [pc EXCEPT ![t] = "store"]
              /\ result' = [result EXCEPT ![t] = r]
              /\ UNCHANGED <<uri, key, ref, handle, during>>
      /\ UNCHANGED <<files, revision, caches, late>>

(* artifacts.put, and the answer is what was derived.                      *)
Keep(t) ==
  /\ pc[t] = "store"
  /\ Store!Put(KeyOf(t), Encode(result[t]))
  /\ Return(t, result[t])
  /\ UNCHANGED <<files, revision, resolutions, hashes, disturbed, late>>

(* The call raises (an unreadable file, an unknown affordance, parameters  *)
(* that do not validate, a handler that fails) or its task is cancelled.   *)
(* Nothing is undone.                                                      *)
Fail(t) ==
  /\ pc[t] # "idle"
  /\ Return(t, None)
  /\ UNCHANGED <<files, revision, caches, late>>

(* The task is cancelled while it waits for a thread that puts something   *)
(* into a memo or the store: the thread does so all the same, later.       *)
Cancel(t) ==
  /\ Cardinality(latePuts) + Cardinality(lateEntries) < MaxLate
  /\ \/ /\ pc[t] = "remember"
        /\ latePuts' =
             latePuts \cup {[uri |-> uri[t], hash |-> ref[t].hash, during |-> during[t]]}
        /\ UNCHANGED lateEntries
     \/ /\ pc[t] = "store"
        /\ lateEntries' = lateEntries \cup {[key |-> KeyOf(t), value |-> Encode(result[t])]}
        /\ UNCHANGED latePuts
  /\ Return(t, None)
  /\ UNCHANGED <<files, revision, caches>>

RememberLate(p) ==
  /\ MemoPut(p.uri, p.hash, p.during)
  /\ latePuts' = latePuts \ {p}
  /\ UNCHANGED <<files, revision, resolutions, entries, task, lateEntries>>

KeepLate(p) ==
  /\ Store!Put(p.key, p.value)
  /\ lateEntries' = lateEntries \ {p}
  /\ UNCHANGED <<files, revision, resolutions, hashes, disturbed, task, latePuts>>

(* A new process, perhaps with other models: memos and threads die with    *)
(* the old one, and the store does not.                                    *)
Restart(r) ==
  /\ revision' = r
  /\ resolutions' = [u \in Uris |-> None]
  /\ hashes' = [u \in Uris |-> [s \in Stats |-> None]]
  /\ pc' = [t \in Tasks |-> "idle"]
  /\ key' = [t \in Tasks |-> None]
  /\ ref' = [t \in Tasks |-> NoRef]
  /\ result' = [t \in Tasks |-> None]
  /\ handle' = [t \in Tasks |-> None]
  /\ during' = [t \in Tasks |-> {}]
  /\ latePuts' = {} /\ lateEntries' = {} /\ disturbed' = {}
  /\ UNCHANGED <<files, entries, uri>>

Step(t) ==
  \/ ReadHead(t) \/ RecallHash(t) \/ OpenStream(t) \/ StreamHash(t) \/ RememberHash(t)
  \/ Resolve(t) \/ Describe(t) \/ LookUp(t) \/ (\E d \in BOOLEAN : Derive(t, d)) \/ Keep(t)

Next ==
  \/ \E u \in Uris, c \in Contents \cup {Gone}, replaced \in BOOLEAN : Edit(u, c, replaced)
  \/ \E t \in Tasks, u \in Uris : Begin(t, u)
  \/ \E t \in Tasks : Step(t) \/ Fail(t) \/ Cancel(t)
  \/ \E p \in latePuts : RememberLate(p)
  \/ \E p \in lateEntries : KeepLate(p)
  \/ \E r \in Revisions : Restart(r)

Spec == Init /\ [][Next]_vars

----------------------------------------------------------------------------
(* Properties                                                              *)

(* Every variable holds a value of its kind.                               *)
TypeOK ==
  /\ content \in [Uris -> Contents \cup {Gone}]
  /\ stamp \in [Uris -> Stats]
  /\ revision \in Revisions
  /\ resolutions \in [Uris -> {None} \cup [stat : Stats, ref : Refs]]
  /\ hashes \in [Uris -> [Stats -> Hashes \cup {None}]]
  /\ entries \in [ArtifactKeys -> Renditions \cup {Corrupt, None}]
  /\ pc \in [Tasks -> {"idle", "head", "hash", "open", "stream", "remember", "size",
                       "resolved", "derive", "store"}]
  /\ uri \in [Tasks -> Uris]
  /\ key \in [Tasks -> Stats \cup {None}]
  /\ ref \in [Tasks -> [mime : Mimes \cup {None}, hash : Digests \cup {None},
                        size : Contents \cup {None}]]
  /\ result \in [Tasks -> Renditions \cup {None}]
  /\ handle \in [Tasks -> Contents \cup {None}]
  /\ during \in [Tasks -> SUBSET (Contents \cup {Gone})]
  /\ latePuts \subseteq LatePuts
  /\ lateEntries \subseteq LateEntries
  /\ disturbed \subseteq Uris \X Stats \X Hashes

Resolved(t) == pc[t] \in {"resolved", "derive", "store"}

(* What a file that holds c resolves to.                                   *)
RefOf(u, c) == SourceRef(Sniff[u][c], Hash(c), c)

(* Has the StatMemo been given this hash by a call that an edit overlapped?*)
Disturbed(u, hash) == \E s \in Stats : <<u, s, hash>> \in disturbed

(* A remembered SourceRef that the stat still lets through is the ref of   *)
(* what the file holds now, in every field (resolution.py:1-11).           *)
ResolutionsCurrent ==
  \A u \in Uris :
    content[u] # Gone /\ resolutions[u] # None /\ resolutions[u].stat = stamp[u]
    => resolutions[u].ref = RefOf(u, content[u])

(* A remembered hash is the hash of what the file holds now ("a miss costs *)
(* a rehash, never a wrong answer", hashing.py:7-10), unless an edit       *)
(* overlapped the very call that put it there: not the edits before or     *)
(* after that call, and not what other calls were about, cancelled ones    *)
(* that put theirs in later included.                                      *)
UndisturbedHashes ==
  \A u \in Uris :
    \/ content[u] = Gone
    \/ hashes[u][stamp[u]] \in {None, Hash(content[u])}
    \/ <<u, stamp[u], hashes[u][stamp[u]]>> \in disturbed

(* Every chunk of the hash that a call goes by is of something the file    *)
(* held while the call ran: no cache answers with what was out of date     *)
(* before it began, but for a hash which an edit overlapped as the         *)
(* StatMemo was given it.                                                  *)
HashFromThisCall ==
  \A t \in Tasks : Resolved(t) =>
    \/ \A i \in 1 .. Chunks : ref[t].hash[i] \in during[t]
    \/ Disturbed(uri[t], ref[t].hash)

(* A call that no edit overlapped sees one file: type, hash and size agree,*)
(* but for the hash when the StatMemo had it from one that an edit did.    *)
UndisturbedRef ==
  \A t \in Tasks : Resolved(t) =>
    \A c \in Contents : during[t] = {c} =>
      /\ ref[t].mime = Sniff[uri[t]][c] /\ ref[t].size = c
      /\ ref[t].hash = Hash(c) \/ Disturbed(uri[t], ref[t].hash)

(* The store is "content-addressed on the whole derivation, so there is no *)
(* ... staleness" (ports/artifacts.py:3-6): an entry is a rendition of the *)
(* content, and by the models, that its key names.                         *)
EntriesAreOfTheirKey ==
  \A k \in ArtifactKeys : entries[k] \in Renditions =>
    k.hash = Hash(entries[k].of) /\ entries[k].by = k.revision

(* The call of t answers in this step, with a rendition.                   *)
Answers(t) == pc[t] # "idle" /\ pc'[t] = "idle" /\ result'[t] # None

(* What a caller is told of a file, cached or not, is of the file as it is *)
(* then and by the models this process has.                                *)
AnswersCurrent ==
  [][\A t \in Tasks : Answers(t) =>
       result'[t].of = content[uri[t]] /\ result'[t].by = revision]_vars

=============================================================================
