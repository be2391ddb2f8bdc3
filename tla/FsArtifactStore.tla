--------------------------- MODULE FsArtifactStore ---------------------------
(***************************************************************************)
(* FilesystemArtifactStore (adapters/artifact_store.py): a directory that  *)
(* several workers - threads of one process, or processes that share the   *)
(* root - read and write at once, and that outlives any of them.           *)
(*                                                                         *)
(* `put` tests whether the entry exists, writes a temporary file of its    *)
(* own, and renames it over the entry.  `get` opens the entry and reads    *)
(* the file it opened, whatever the entry is renamed to meanwhile.         *)
(* A file is an inode: the directory links a key to it, and a handle       *)
(* keeps it readable.                                                      *)
(***************************************************************************)
EXTENDS Naturals

CONSTANTS
  Keys, Values, NoEntry,
  Workers,       (* the threads and processes that use the directory       *)
  Files,         (* the files that may be created: bounds the model        *)
  NoFile,
  Truncated,     (* what a file holds while it is being written            *)
  Candidates     (* Candidates[k]: what the derivation named k may yield   *)

ASSUME StoreAssumption ==
  /\ NoEntry \notin Values
  /\ Truncated \notin Values \cup {NoEntry}
  /\ NoFile \notin Files
  /\ Candidates \in [Keys -> SUBSET Values]

VARIABLES
  link,    (* link[k]: the file the path of k names, or NoFile             *)
  bytes,   (* bytes[f]: NoEntry before f is created, then Truncated, then  *)
           (* the value it was written with                                *)
  pc,      (* pc[w]: what worker w does next                               *)
  key,     (* key[w]: the key of its call                                  *)
  value,   (* value[w]: what its `put` is to store                         *)
  file,    (* file[w]: its temporary file (put), or its open handle (get)  *)
  met      (* met[w], a history: the entry that stood when its put began   *)

vars == <<link, bytes, pc, key, value, file, met>>

Unused == {f \in Files : bytes[f] = NoEntry}

Init ==
  /\ link  = [k \in Keys |-> NoFile]
  /\ bytes = [f \in Files |-> NoEntry]
  /\ pc    = [w \in Workers |-> "idle"]
  /\ key   \in [Workers -> Keys]
  /\ value = [w \in Workers |-> NoEntry]
  /\ file  = [w \in Workers |-> NoFile]
  /\ met   = [w \in Workers |-> NoFile]

Transition(w, from, to) ==
  /\ pc[w] = from
  /\ pc' = [pc EXCEPT ![w] = to]

(* The worker's call is over: nothing of it is left.                       *)
Return(w) ==
  /\ pc'    = [pc EXCEPT ![w] = "idle"]
  /\ value' = [value EXCEPT ![w] = NoEntry]
  /\ file'  = [file EXCEPT ![w] = NoFile]
  /\ met'   = [met EXCEPT ![w] = NoFile]

----------------------------------------------------------------------------
(* put                                                                     *)

StartPut(w, k, v) ==
  /\ Transition(w, "idle", "checking")
  /\ key'   = [key EXCEPT ![w] = k]
  /\ value' = [value EXCEPT ![w] = v]
  /\ met'   = [met EXCEPT ![w] = link[k]]
  /\ UNCHANGED <<link, bytes, file>>

(* path.exists(): an entry is there, and the put is a no-op.               *)
FindEntry(w) ==
  /\ pc[w] = "checking"
  /\ link[key[w]] # NoFile
  /\ Return(w)
  /\ UNCHANGED <<link, bytes, key>>

(* Mutant of MissEntry: the entry is not looked for.                       *)
MissEntryUnchecked(w) ==
  /\ Transition(w, "checking", "opening")
  /\ UNCHANGED <<link, bytes, key, value, file, met>>

(* path.exists(): no entry.                                                *)
MissEntry(w) ==
  /\ Transition(w, "checking", "opening")
  /\ link[key[w]] = NoFile
  /\ UNCHANGED <<link, bytes, key, value, file, met>>

(* Mutant of OpenTemporary: the temporary file is named after the entry    *)
(* alone, so a second put of the key truncates the file of the first.      *)
OpenSharedTemporary(w) ==
  /\ Transition(w, "opening", "writing")
  /\ LET named == {file[v] : v \in {u \in Workers :
                      pc[u] \in {"writing", "replacing"} /\ key[u] = key[w]}}
     IN  \E f \in (IF named = {} THEN Unused ELSE named) :
           /\ file'  = [file EXCEPT ![w] = f]
           /\ bytes' = [bytes EXCEPT ![f] = Truncated]
  /\ UNCHANGED <<link, key, value, met>>

(* Mutant of OpenTemporary: the entry itself is written, with no rename.   *)
OpenInPlace(w) ==
  /\ Transition(w, "opening", "writing")
  /\ \E f \in Unused :
       /\ file'  = [file EXCEPT ![w] = f]
       /\ bytes' = [bytes EXCEPT ![f] = Truncated]
       /\ link'  = [link EXCEPT ![key[w]] = f]
  /\ UNCHANGED <<key, value, met>>

(* mkdir, then write_bytes creates the temporary file.  Its name carries   *)
(* a uuid, so it is a file no other put writes.                            *)
OpenTemporary(w) ==
  /\ Transition(w, "opening", "writing")
  /\ \E f \in Unused :
       /\ file'  = [file EXCEPT ![w] = f]
       /\ bytes' = [bytes EXCEPT ![f] = Truncated]
  /\ UNCHANGED <<link, key, value, met>>

WriteTemporary(w) ==
  /\ Transition(w, "writing", "replacing")
  /\ bytes' = [bytes EXCEPT ![file[w]] = value[w]]
  /\ UNCHANGED <<link, key, value, file, met>>

(* write_bytes raises (a full disk): the put fails and its temporary file  *)
(* stays behind.                                                           *)
FailWrite(w) ==
  /\ pc[w] = "writing"
  /\ Return(w)
  /\ UNCHANGED <<link, bytes, key>>

(* temporary.replace(path): an atomic rename, over an entry or not.        *)
Replace(w) ==
  /\ pc[w] = "replacing"
  /\ link' = [link EXCEPT ![key[w]] = file[w]]
  /\ Return(w)
  /\ UNCHANGED <<bytes, key>>

----------------------------------------------------------------------------
(* get                                                                     *)

(* read_bytes opens the entry.  When there is none the call answers None   *)
(* and leaves no trace here.                                               *)
OpenEntry(w, k) ==
  /\ Transition(w, "idle", "reading")
  /\ link[k] # NoFile
  /\ key'  = [key EXCEPT ![w] = k]
  /\ file' = [file EXCEPT ![w] = link[k]]
  /\ UNCHANGED <<link, bytes, value, met>>

(* read_bytes reads what it opened: Hit(w) is what `get` answers.          *)
Hit(w) == bytes[file[w]]

ReadEntry(w) ==
  /\ pc[w] = "reading"
  /\ Return(w)
  /\ UNCHANGED <<link, bytes, key>>

----------------------------------------------------------------------------
(* A process dies with its workers.  The directory is as they left it.     *)
Crash(dead) ==
  /\ \E w \in dead : pc[w] # "idle"
  /\ pc'    = [w \in Workers |-> IF w \in dead THEN "idle"  ELSE pc[w]]
  /\ value' = [w \in Workers |-> IF w \in dead THEN NoEntry ELSE value[w]]
  /\ file'  = [w \in Workers |-> IF w \in dead THEN NoFile  ELSE file[w]]
  /\ met'   = [w \in Workers |-> IF w \in dead THEN NoFile  ELSE met[w]]
  /\ UNCHANGED <<link, bytes, key>>

PutStep(w) ==
  \/ FindEntry(w) \/ MissEntry(w)
  \/ OpenTemporary(w) \/ WriteTemporary(w) \/ FailWrite(w) \/ Replace(w)

Next ==
  \/ \E w \in Workers, k \in Keys : \E v \in Candidates[k] : StartPut(w, k, v)
  \/ \E w \in Workers : PutStep(w)
  \/ \E w \in Workers, k \in Keys : OpenEntry(w, k)
  \/ \E w \in Workers : ReadEntry(w)
  \/ \E dead \in SUBSET Workers : Crash(dead)

Spec == Init /\ [][Next]_vars

----------------------------------------------------------------------------
(* Properties                                                              *)

PutStates == {"checking", "opening", "writing", "replacing"}

(* Every variable holds a value of its kind.                               *)
TypeOK ==
  /\ link  \in [Keys -> Files \cup {NoFile}]
  /\ bytes \in [Files -> Values \cup {NoEntry, Truncated}]
  /\ pc    \in [Workers -> PutStates \cup {"idle", "reading"}]
  /\ key   \in [Workers -> Keys]
  /\ value \in [Workers -> Values \cup {NoEntry}]
  /\ file  \in [Workers -> Files \cup {NoFile}]
  /\ met   \in [Workers -> Files \cup {NoFile}]

(* "A crash cannot leave a truncated artifact that later reads as a valid  *)
(* cache hit" (artifact_store.py:66-68): whatever the other workers do and *)
(* whoever crashed before, an open entry reads as a whole artifact of the  *)
(* key it was opened for, and so does every entry not yet opened.          *)
WholeHits ==
  /\ \A w \in Workers : pc[w] = "reading" => Hit(w) \in Candidates[key[w]]
  /\ \A k \in Keys : link[k] # NoFile => bytes[link[k]] \in Candidates[k]

(* "A second put must not replace" (artifact_compliance.py:22-26), as far  *)
(* as the test of artifact_store.py:63 carries it: an entry is withdrawn   *)
(* by nobody, and replaced only by a rival, a put of the same key that had *)
(* begun before there was any entry.                                       *)
IsRival(w, k) == pc[w] = "replacing" /\ key[w] = k /\ met[w] = NoFile

FirstStays ==
  [][\A k \in Keys : link[k] # NoFile /\ link'[k] # link[k] =>
       \E w \in Workers : IsRival(w, k) /\ link'[k] = file[w]]_vars

(* What the directory says, as the dictionary of the abstract store.       *)
Stored == [k \in Keys |-> IF link[k] = NoFile THEN NoEntry ELSE bytes[link[k]]]

Abstract == INSTANCE ArtifactStore WITH entries <- Stored

(* The puts that found no entry and go on to store one.                    *)
PastCheck(w) == pc[w] \in {"opening", "writing", "replacing"}

(* No two of them are about to store different values under one key.       *)
Agreeing ==
  \A v, w \in Workers :
    PastCheck(v) /\ PastCheck(w) /\ key[v] = key[w] => value[v] = value[w]

(* The directory implements the promise of the store: an entry appears     *)
(* whole, in one step, and no put replaces it.  It does so while Agreeing  *)
(* holds; rivals that disagree replace one another's entry, for the test   *)
(* and the rename are two steps (artifact_store.py:63 and :71).            *)
ImplementsStore == Abstract!Spec

=============================================================================
