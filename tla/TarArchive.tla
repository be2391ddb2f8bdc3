----------------------------- MODULE TarArchive -----------------------------
(***************************************************************************)
(* TarArchiveOpener (adapters/tar_archive.py): solid tarballs, each        *)
(* decompressed once into a temporary file that later reads go through,    *)
(* in a cache with a bound that evicts the least recently used copy.       *)
(*                                                                         *)
(* One asyncio lock covers the look-up, the decompression and the          *)
(* eviction.  It is released before the caller opens the copy it was       *)
(* given.                                                                  *)
(*                                                                         *)
(* Decompressing and unlinking are done by threads, which a cancelled call *)
(* does not stop: its decompression goes on, or never gets its thread, and *)
(* the file it leaves, part or whole, is neither listed nor counted until  *)
(* the opener is closed.  So is the part of a decompression that raises.   *)
(***************************************************************************)
EXTENDS Naturals, SequencesExt

CONSTANTS
  Readers,     (* the tasks that read members (open_member)                *)
  Archives,
  Plain,       (* the archives that are seekable as they are               *)
  Size,        (* Size[a]: the bytes of a, decompressed                    *)
  Bound,       (* max_materialised_bytes                                   *)
  Copies,      (* the names N.tar: as many as may be in use or left behind *)
  MaxLate,     (* a bound of the model: see Room                           *)
  Torn,        (* what is in a file that was not written to the end        *)
  None

ASSUME TarAssumption ==
  /\ Plain \subseteq Archives
  /\ Size \in [Archives -> Nat]
  /\ Bound \in Nat /\ MaxLate \in Nat
  /\ None \notin Readers \cup Archives \cup Copies
  /\ Torn \notin Archives \cup {None}

VARIABLES
  cached,      (* _materialised: the archives cached, in its order         *)
  copyOf,      (* copyOf[a]: the name of the copy of a cached a, or None   *)
  held,        (* _held                                                    *)
  lock,        (* the reader that holds the lock, or None                  *)
  disk,        (* disk[n]: the archive that file n holds, Torn, or None    *)
  making,      (* <<a, n>>: a thread of a cancelled call makes n from a    *)
  removing,    (* the names that threads of cancelled calls unlink         *)
  pc, want,    (* pc[r], want[r]: what reader r waits for, for which file  *)
  copy,        (* copy[r]: the copy it makes, or is to open                *)
  victim,      (* victim[r]: the copy it unlinks                           *)
  used,        (* the archives by their last use: history                  *)
  curtailed,   (* an eviction was cancelled half-way: history              *)
  left         (* the names that failed or cancelled calls left: history   *)

threads == <<making, removing, left>>
cache == <<cached, copyOf, held, lock, disk, used, curtailed, threads>>
reader == <<pc, want, copy, victim>>
vars == <<cache, reader>>

Init ==
  /\ cached = <<>> /\ held = 0 /\ lock = None
  /\ copyOf = [a \in Archives |-> None]
  /\ disk = [n \in Copies |-> None]
  /\ pc = [r \in Readers |-> "idle"]
  /\ want = [r \in Readers |-> None]
  /\ copy = [r \in Readers |-> None]
  /\ victim = [r \in Readers |-> None]
  /\ used = <<>> /\ curtailed = FALSE
  /\ making = {} /\ removing = {} /\ left = {}

(* An OrderedDict has each of its keys once.                               *)
Without(s, a) == RemoveFirst(s, a)
ToEnd(s, a) == Append(Without(s, a), a)

(* The names of failed and cancelled calls.                                *)
Abandoned == left \cup removing \cup {m[2] : m \in making}

(* The names no file, reader or thread has: the counter repeats none.      *)
Unused ==
  {n \in Copies \ Abandoned :
     disk[n] = None /\ \A r \in Readers : n \notin {copy[r], victim[r]}}

(* The bounds on what may be left behind: a name for each that needs one,  *)
(* and no new call while more than MaxLate threads of old ones go on.      *)
Room ==
  /\ Cardinality(Unused) > Cardinality({r \in Readers : pc[r] = "locking"})
  /\ Cardinality(making) + Cardinality(removing) <= MaxLate

----------------------------------------------------------------------------
(* open_member of a, up to its first await.                                *)
Open(r, a) ==
  /\ pc[r] = "idle"
  /\ a \in Plain \/ Room
  /\ pc' = [pc EXCEPT ![r] = IF a \in Plain THEN "opening" ELSE "locking"]
  /\ want' = [want EXCEPT ![r] = a]
  /\ UNCHANGED <<cache, copy, victim>>

(* Mutant of Hit: its place in the order stays.                            *)
HitInPlace(r) ==
  /\ pc[r] = "locking" /\ lock = None
  /\ want[r] \in ToSet(cached)
  /\ used' = ToEnd(used, want[r])
  /\ pc' = [pc EXCEPT ![r] = "opening"]
  /\ copy' = [copy EXCEPT ![r] = copyOf[want[r]]]
  /\ UNCHANGED <<cached, copyOf, held, lock, disk, curtailed, threads, want, victim>>

(* _seekable_path, with the lock: the copy of an earlier reader.           *)
Hit(r) ==
  /\ pc[r] = "locking" /\ lock = None
  /\ want[r] \in ToSet(cached)
  /\ cached' = ToEnd(cached, want[r])
  /\ used' = ToEnd(used, want[r])
  /\ pc' = [pc EXCEPT ![r] = "opening"]
  /\ copy' = [copy EXCEPT ![r] = copyOf[want[r]]]
  /\ UNCHANGED <<copyOf, held, lock, disk, curtailed, threads, want, victim>>

(* Mutant of Miss: whether the copy is there was asked before the lock.    *)
MissUnchecked(r) ==
  /\ pc[r] = "locking" /\ lock = None
  /\ lock' = r
  /\ pc' = [pc EXCEPT ![r] = "decompressing"]
  /\ \E n \in Unused : copy' = [copy EXCEPT ![r] = n]
  /\ UNCHANGED <<cached, copyOf, held, disk, used, curtailed, threads, want, victim>>

(* Mutant of Miss: the copy is entered in the cache before it is made.     *)
MissEarly(r) ==
  /\ pc[r] = "locking" /\ lock = None
  /\ want[r] \notin ToSet(cached)
  /\ lock' = r
  /\ pc' = [pc EXCEPT ![r] = "decompressing"]
  /\ \E n \in Unused :
         /\ copy' = [copy EXCEPT ![r] = n]
         /\ copyOf' = [copyOf EXCEPT ![want[r]] = n]
         /\ cached' = Append(cached, want[r])
  /\ UNCHANGED <<held, disk, used, curtailed, threads, want, victim>>

(* ... and no copy: one is to be made, with the lock held.                 *)
Miss(r) ==
  /\ pc[r] = "locking" /\ lock = None
  /\ want[r] \notin ToSet(cached)
  /\ lock' = r
  /\ pc' = [pc EXCEPT ![r] = "decompressing"]
  /\ \E n \in Unused : copy' = [copy EXCEPT ![r] = n]
  /\ UNCHANGED <<cached, copyOf, held, disk, used, curtailed, threads, want, victim>>

(* next(key for key in self._materialised if key != keep)                  *)
Oldest(s, keep) ==
  CHOOSE i \in DOMAIN s : s[i] # keep /\ \A j \in 1 .. (i - 1) : s[j] = keep

(* Mutant of Full: the bound is tested before the new copy is counted.     *)
FullBefore(s, bytes, keep) == bytes - Size[keep] > Bound /\ Len(s) > 1

Full(s, bytes, keep) == bytes > Bound /\ Len(s) > 1

(* _evict_to_fit, from one await to the next, on the order s, the copies   *)
(* of table and the count bytes: the oldest copy is dropped and is to be   *)
(* unlinked, or the cache is inside its bound, the lock is released and    *)
(* the reader has its copy.                                                *)
EvictToFit(r, s, table, bytes) ==
  IF Full(s, bytes, want[r])
  THEN LET oldest == s[Oldest(s, want[r])]
       IN  /\ cached' = Without(s, oldest)
           /\ held' = bytes - Size[oldest]
           /\ victim' = [victim EXCEPT ![r] = table[oldest]]
           /\ copyOf' = [table EXCEPT ![oldest] = None]
           /\ pc' = [pc EXCEPT ![r] = "unlinking"]
           /\ UNCHANGED <<lock, curtailed>>
  ELSE /\ cached' = s
       /\ copyOf' = table
       /\ held' = bytes
       /\ victim' = [victim EXCEPT ![r] = None]
       /\ pc' = [pc EXCEPT ![r] = "opening"]
       /\ lock' = None
       /\ curtailed' = FALSE

(* _decompress has opened its file, and writes it.                         *)
Begin(r) ==
  /\ pc[r] = "decompressing"
  /\ disk[copy[r]] = None
  /\ disk' = [disk EXCEPT ![copy[r]] = Torn]
  /\ UNCHANGED <<cached, copyOf, held, lock, used, curtailed, threads, reader>>

(* ... and has written the whole archive: the copy is cached.              *)
Decompress(r) ==
  /\ pc[r] = "decompressing"
  /\ disk[copy[r]] = Torn
  /\ Size[want[r]] <= Bound
  /\ disk' = [disk EXCEPT ![copy[r]] = want[r]]
  /\ used' = ToEnd(used, want[r])
  /\ LET table == [copyOf EXCEPT ![want[r]] = copy[r]]
     IN  EvictToFit(r, Append(cached, want[r]), table, held + Size[want[r]])
  /\ UNCHANGED <<threads, want, copy>>

(* Mutant of Unlink: the file is left where it is.                         *)
UnlinkNot(r) ==
  /\ pc[r] = "unlinking"
  /\ UNCHANGED disk
  /\ EvictToFit(r, cached, copyOf, held)
  /\ UNCHANGED <<used, threads, want, copy>>

Unlink(r) ==
  /\ pc[r] = "unlinking"
  /\ disk' = [disk EXCEPT ![victim[r]] = None]
  /\ EvictToFit(r, cached, copyOf, held)
  /\ UNCHANGED <<used, threads, want, copy>>

(* The call of r is over, and so is its hold on the lock.                  *)
Leave(r) ==
  /\ pc' = [pc EXCEPT ![r] = "idle"]
  /\ copy' = [copy EXCEPT ![r] = None]
  /\ victim' = [victim EXCEPT ![r] = None]
  /\ want' = [want EXCEPT ![r] = None]

(* Mutant of Released: the lock is kept when a decompression raises.       *)
ReleasedAfterSuccess(r) == lock

Released(r) == IF lock = r THEN None ELSE lock

(* What a thread wrote of n, if it came to open it, stays.                 *)
LeftBy(n) == {n} \cap {m \in Copies : disk[m] # None}

(* _decompress raises: the archive cannot be opened, is corrupt, or alone  *)
(* is over the bound.                                                      *)
FailDecompress(r) ==
  /\ pc[r] = "decompressing"
  /\ lock' = Released(r)
  /\ left' = left \cup LeftBy(copy[r])
  /\ Leave(r)
  /\ UNCHANGED <<cached, copyOf, held, disk, used, curtailed, making, removing>>

(* The path _seekable_path answered leads to the archive.                  *)
Readable(r) == want[r] \in Plain \cup {disk[n] : n \in {copy[r]} \cap Copies}

(* tarfile.open, without the lock.                                         *)
OpenCopy(r) ==
  /\ pc[r] = "opening"
  /\ Readable(r)
  /\ pc' = [pc EXCEPT ![r] = "reading"]
  /\ copy' = [copy EXCEPT ![r] = None]
  /\ UNCHANGED <<cache, want, victim>>

(* ... of a file that is gone: SourceUnreadableError.                      *)
MissCopy(r) ==
  /\ pc[r] = "opening"
  /\ ~Readable(r)
  /\ Leave(r)
  /\ UNCHANGED cache

(* The last chunk, or a member that is refused.  The open handle reads on  *)
(* when its file is unlinked.                                              *)
Read(r) ==
  /\ pc[r] = "reading"
  /\ Leave(r)
  /\ UNCHANGED cache

(* The task is cancelled.  What its thread was given to do is done later,  *)
(* or not at all, and the copies that were to follow the one it unlinks    *)
(* stay.                                                                   *)
Cancel(r) ==
  /\ pc[r] # "idle"
  /\ lock' = Released(r)
  /\ making' = making \cup
       {m \in {<<want[r], copy[r]>>} : pc[r] = "decompressing"}
  /\ removing' = removing \cup {n \in {victim[r]} : pc[r] = "unlinking"}
  /\ curtailed' = (curtailed \/ pc[r] = "unlinking")
  /\ Leave(r)
  /\ UNCHANGED <<cached, copyOf, held, disk, used, left>>

(* The thread of a cancelled decompression opens its file ...              *)
BeginLate(a, n) ==
  /\ disk[n] = None
  /\ disk' = [disk EXCEPT ![n] = Torn]
  /\ UNCHANGED threads

(* ... and writes it to the end, ...                                       *)
DecompressLate(a, n) ==
  /\ disk[n] = Torn
  /\ Size[a] <= Bound
  /\ disk' = [disk EXCEPT ![n] = a]
  /\ making' = making \ {<<a, n>>}
  /\ left' = left \cup {n}
  /\ UNCHANGED removing

(* ... or raises, or was never run.                                        *)
AbandonLate(a, n) ==
  /\ making' = making \ {<<a, n>>}
  /\ left' = left \cup LeftBy(n)
  /\ UNCHANGED <<disk, removing>>

(* The thread of a cancelled eviction unlinks its file, or was never run.  *)
UnlinkLate(n) ==
  /\ removing' = removing \ {n}
  /\ \/ disk' = [disk EXCEPT ![n] = None] /\ UNCHANGED left
     \/ left' = left \cup LeftBy(n) /\ UNCHANGED disk
  /\ UNCHANGED making

Late ==
  /\ \/ \E m \in making :
          BeginLate(m[1], m[2]) \/ DecompressLate(m[1], m[2]) \/ AbandonLate(m[1], m[2])
     \/ \E n \in removing : UnlinkLate(n)
  /\ UNCHANGED <<cached, copyOf, held, lock, used, curtailed, reader>>

Step(r) ==
  \/ Begin(r) \/ Decompress(r) \/ FailDecompress(r) \/ Unlink(r)
  \/ OpenCopy(r) \/ MissCopy(r) \/ Read(r)

Next ==
  \/ \E r \in Readers :
       \/ \E a \in Archives : Open(r, a)
       \/ Hit(r) \/ Miss(r) \/ Step(r) \/ Cancel(r)
  \/ Late

Spec == Init /\ [][Next]_vars

(* asyncio.Lock wakes its waiters in order; every await ends.              *)
FairSpec ==
  Spec /\ \A r \in Readers : SF_vars(Hit(r) \/ Miss(r)) /\ WF_vars(Step(r))

----------------------------------------------------------------------------
(* Properties                                                              *)

(* The bytes of the archives in s.                                         *)
Bytes(s) ==
  LET total[i \in 0 .. Len(s)] == IF i = 0 THEN 0 ELSE total[i - 1] + Size[s[i]]
  IN  total[Len(s)]

(* The cache is true of the disk, whatever failed or was cancelled: what a *)
(* look-up answers at that moment is a whole copy of what was asked, and   *)
(* never the file of an abandoned call; _held is the bytes of the copies   *)
(* that are cached; and any other file on the disk is being made, on its   *)
(* way out, or one that an abandoned call left.                            *)
CacheOnDisk ==
  /\ \A a \in ToSet(cached) : disk[copyOf[a]] = a /\ copyOf[a] \notin Abandoned
  /\ held = Bytes(cached)
  /\ \A n \in Copies \ Abandoned : disk[n] # None =>
       \/ \E a \in ToSet(cached) : copyOf[a] = n
       \/ \E r \in Readers : pc[r] = "decompressing" /\ copy[r] = n
       \/ \E r \in Readers : pc[r] = "unlinking" /\ victim[r] = n

(* "A cache with a bound" (tar_archive.py:10-13): whoever has the lock     *)
(* next finds it inside its bound, unless an eviction was cancelled.  What *)
(* is bounded is what _held counts: files of abandoned calls are not in it.*)
WithinBound == lock = None /\ ~curtailed => held <= Bound

(* "Two concurrent reads of the same tarball must decompress it once       *)
(* between them" (tar_archive.py:146-147).  The thread of a cancelled read *)
(* may still be at it: it is between no two readers.                       *)
DecompressedOnce ==
  \A r \in Readers : pc[r] = "decompressing" =>
    /\ lock = r
    /\ want[r] \notin ToSet(cached)

Before(s, a, b) == \E i, j \in DOMAIN s : i < j /\ s[i] = a /\ s[j] = b

(* What is evicted was used before all that stays, and is never the copy   *)
(* that the evicting reader is about to open (tar_archive.py:164-166).     *)
EvictsLeastRecentlyUsed ==
  [][\A a \in ToSet(cached) \ ToSet(cached') :
       /\ lock # None /\ a # want[lock]
       /\ \A b \in ToSet(cached') \ {want[lock]} : Before(used, a, b)]_vars

(* Every read comes to an end: neither a failure nor a cancellation leaves *)
(* the lock behind.                                                        *)
ReadsEnd == \A r \in Readers : pc[r] # "idle" ~> pc[r] = "idle"

(* "`keep` is never evicted: it is the copy the caller is about to read":  *)
(* the copy is still there when the caller comes to open it.               *)
CopyStillThere == \A r \in Readers : pc[r] = "opening" => Readable(r)

=============================================================================
