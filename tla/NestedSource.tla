---------------------------- MODULE NestedSource ----------------------------
(***************************************************************************)
(* NestedSource (adapters/nested_source.py): members of containers, given  *)
(* a path of their own by writing their bytes to a temporary file, once,   *)
(* for several asyncio tasks that ask at the same time, and walks that     *)
(* list what is in a container, and in the containers in it.               *)
(*                                                                         *)
(* A member is written under a lock of its own.  A container that is a     *)
(* member itself is materialised first, while the lock of what it holds    *)
(* is kept, so a task holds the locks of a chain of members, innermost     *)
(* first.  The bytes are written by a thread, which empties the file first:*)
(* when the task that waits for it is cancelled, the lock goes and the     *)
(* write still happens, by when another task may have written that file.   *)
(***************************************************************************)
EXTENDS Naturals, Sequences, SequencesExt, FiniteSets

(* Uris of what lies inside containers (domain/container_uri.py), as       *)
(* sequences of characters: segments with a separator between them, and an *)
(* escape before a separator or an escape that is part of a name.          *)

Separator == "!"
Escape == "\\"

(* The scan, from the end: what splits off from each character on.  A last  *)
(* escape, with nothing after it, is a character like any other.            *)
SplitUri(uri) ==
  LET Grown(c, segments) == <<<<c>> \o Head(segments)>> \o Tail(segments)
      split[i \in 1 .. Len(uri) + 1] ==
        CASE i > Len(uri) -> <<<<>>>>
          [] i < Len(uri) /\ uri[i] = Escape -> Grown(uri[i + 1], split[i + 2])
          [] i <= Len(uri) /\ uri[i] = Separator -> <<<<>>>> \o split[i + 1]
          [] OTHER -> Grown(uri[i], split[i + 1])
  IN split[1]

Escaped(segment) ==
  FlattenSeq([i \in DOMAIN segment |->
    IF segment[i] \in {Separator, Escape} THEN <<Escape, segment[i]>> ELSE <<segment[i]>>])

JoinUri(segments) ==
  FlattenSeq([i \in DOMAIN segments |->
    (IF i = 1 THEN <<>> ELSE <<Separator>>) \o Escaped(segments[i])])

(* Joined anew, and not cut off the uri.                                    *)
ContainerOf(uri) == JoinUri(Front(SplitUri(uri)))

----------------------------------------------------------------------------

CONSTANTS
  Tasks,
  Walkers,        (* the tasks that walk                                   *)
  Archives,       (* loose files that are containers                       *)
  Members,        (* what is in them, at whatever depth                    *)
  Parent,         (* Parent[u]: the archive or member that u lies in       *)
  Name,           (* Name[u]: the name u has there, in characters          *)
  Address,        (* Address[x]: the uri that x is asked for by            *)
  MaxDepth,       (* ContainerLimits.max_depth                             *)
  MaxLate,        (* writes and files that cancelled tasks leave: a bound  *)
  Torn,           (* what is in a file that is not the bytes of any member *)
  None

Items == Members \cup Archives

ASSUME NestedAssumption ==
  /\ Walkers \subseteq Tasks
  /\ IsFiniteSet(Members) /\ Members \cap Archives = {}
  /\ Parent \in [Members -> Items]
  /\ Name \in [Members -> Seq(STRING)] /\ Address \in [Items -> Seq(STRING)]
  /\ \A x, y \in Items : Address[x] = Address[y] => x = y
  /\ MaxDepth \in Nat /\ MaxLate \in Nat
  /\ None \notin Tasks \cup Items /\ Torn \notin Items \cup {None}

(* What the code makes of the uris.                                        *)
Segments == [x \in Items |-> SplitUri(Address[x])]
Depth == [u \in Members |-> Len(Segments[u]) - 1]
ItemAt(uri) ==
  IF \E x \in Items : Address[x] = uri THEN CHOOSE x \in Items : Address[x] = uri ELSE None

(* Mutant of Container: the last segment is not left out.                  *)
ContainerUncut == [u \in Members |-> ItemAt(JoinUri(Segments[u]))]

Container == [u \in Members |-> ItemAt(ContainerOf(Address[u]))]
EntryUri == [u \in Members |-> JoinUri(Append(Segments[Parent[u]], Name[u]))]

(* PurePosixPath(uri).name                                                 *)
BaseName(uri) ==
  LET slashes == {i \in DOMAIN uri : uri[i] = "/"}
  IN  IF slashes = {} THEN uri
      ELSE SubSeq(uri, 1 + CHOOSE i \in slashes : \A j \in slashes : j <= i, Len(uri))

Base == [u \in Members |-> BaseName(Address[u])]
Bases == {Base[u] : u \in Members}

VARIABLES
  materialised,  (* materialised[u]: the file of u, or None                *)
  holder,        (* holder[u]: the task that holds the lock of u, or None  *)
  disk,          (* disk[f]: the member whose bytes file f holds, or Torn  *)
  writes,        (* the writes that threads have to do or are at, for whom *)
  spoiled,       (* files that a cancelled task's write has left: history  *)
  target,        (* target[t]: the file task t has had written             *)
  asked,         (* asked[t]: "path", "bytes", "walk" or "nothing"         *)
  pc,            (* pc[t]: what task t waits for, about the last of ...    *)
  stack,         (* stack[t]: the members it is busy with, the asked first *)
  todo,          (* todo[t]: what its walk has still to list               *)
  found,         (* found[t]: the uris that its walk has listed            *)
  skipped        (* skipped[t]: what its walk could not look into          *)

files == <<disk, writes, spoiled>>
vars == <<materialised, holder, files, target, asked, pc, stack, todo, found, skipped>>

walkVars == <<todo, found, skipped>>

Files == (0 .. Cardinality(Members)) \X Bases

Init ==
  /\ materialised = [u \in Members |-> None]
  /\ holder = [u \in Members |-> None]
  /\ disk = [f \in Files |-> None]
  /\ writes = {} /\ spoiled = {}
  /\ target = [t \in Tasks |-> None]
  /\ asked = [t \in Tasks |-> "nothing"]
  /\ pc = [t \in Tasks |-> "idle"]
  /\ stack = [t \in Tasks |-> <<>>]
  /\ todo = [t \in Tasks |-> <<>>]
  /\ found = [t \in Tasks |-> {}]
  /\ skipped = [t \in Tasks |-> {}]

----------------------------------------------------------------------------
(* The locks, once task t has let go of all of its own.                    *)
Unlocked(t, locks) == [u \in Members |-> IF locks[u] = t THEN None ELSE locks[u]]

(* What t asked for is over, with an exception.  A walk goes on with the   *)
(* next entry; it could not look into this one.                            *)
Refused(t, locks) ==
  /\ stack' = [stack EXCEPT ![t] = <<>>]
  /\ holder' = Unlocked(t, locks)
  /\ IF asked[t] = "walk"
     THEN /\ pc' = [pc EXCEPT ![t] = "walk"]
          /\ todo' = [todo EXCEPT ![t] = Tail(@)]
          /\ skipped' = [skipped EXCEPT ![t] = @ \cup {Head(todo[t]).of}]
          /\ UNCHANGED <<asked, found>>
     ELSE /\ pc' = [pc EXCEPT ![t] = "idle"]
          /\ asked' = [asked EXCEPT ![t] = "nothing"]
          /\ UNCHANGED walkVars

(* _resolve and _container_path, up to the first await, for the last of s: *)
(* too deep a member is refused, an archive is read where it lies, and a   *)
(* container that is a member has to be materialised first.                *)
Resolve(t, s, locks) ==
  LET u == Last(s)
      deeper == Container[u] \in Members
  IN  IF Depth[u] > MaxDepth
      THEN Refused(t, locks)
      ELSE /\ pc' = [pc EXCEPT ![t] = IF deeper THEN "lock" ELSE "fetch"]
           /\ stack' = [stack EXCEPT ![t] = IF deeper THEN Append(s, Container[u]) ELSE s]
           /\ holder' = locks
           /\ UNCHANGED <<asked, walkVars>>

(* local_path: _materialise asks for the lock of u.                        *)
AskPath(t, u) ==
  /\ pc[t] = "idle"
  /\ asked' = [asked EXCEPT ![t] = "path"]
  /\ pc' = [pc EXCEPT ![t] = "lock"]
  /\ stack' = [stack EXCEPT ![t] = <<u>>]
  /\ UNCHANGED <<materialised, holder, files, target, walkVars>>

(* read_bytes, read_range, stream, size, exists: with no lock for u.       *)
AskBytes(t, u) ==
  /\ pc[t] = "idle"
  /\ Depth[u] <= MaxDepth
  /\ LET deeper == Container[u] \in Members
     IN  /\ pc' = [pc EXCEPT ![t] = IF deeper THEN "lock" ELSE "fetch"]
         /\ stack' = [stack EXCEPT ![t] = IF deeper THEN <<u, Container[u]>> ELSE <<u>>]
  /\ asked' = [asked EXCEPT ![t] = "bytes"]
  /\ UNCHANGED <<materialised, holder, files, target, walkVars>>

(* The last of stack[t] has a path: the task has its answer, or goes on to *)
(* read what is in it; a walk looks into what it has been given.           *)
Return(t) ==
  LET rest == Front(stack[t])
      over == rest = <<>> /\ asked[t] # "walk"
  IN  /\ stack' = [stack EXCEPT ![t] = rest]
      /\ pc' = [pc EXCEPT ![t] = IF rest # <<>> THEN "fetch"
                                 ELSE IF asked[t] = "walk" THEN "enter" ELSE "idle"]
      /\ asked' = [asked EXCEPT ![t] = IF over THEN "nothing" ELSE @]
      /\ UNCHANGED walkVars

----------------------------------------------------------------------------
(* Mutant of Locked: one lock for the source.                              *)
LockedForAll(u) == \E v \in Members : holder[v] # None

Locked(u) == holder[u] # None

(* Mutant of Lock: what was materialised is looked up before the lock.     *)
LockUnchecked(t) ==
  LET u == Last(stack[t])
  IN  /\ pc[t] = "lock"
      /\ ~Locked(u)
      /\ Resolve(t, stack[t], [holder EXCEPT ![u] = t])
      /\ UNCHANGED <<materialised, files, target>>

(* _materialise, with the lock: the member may be there by now.            *)
Lock(t) ==
  LET u == Last(stack[t])
  IN  /\ pc[t] = "lock"
      /\ ~Locked(u)
      /\ IF materialised[u] # None
         THEN Return(t) /\ UNCHANGED holder
         ELSE Resolve(t, stack[t], [holder EXCEPT ![u] = t])
      /\ UNCHANGED <<materialised, files, target>>

(* The entry that the last segment of u names, if its container opens: it  *)
(* may when only a part of it is there.                                    *)
Opens(x) == x \in Archives \/ (x \in Members /\ disk[materialised[x]] \in {x, Torn})

Contained(u) ==
  {m \in Members : /\ Opens(Container[u])
                   /\ Parent[m] = Container[u]
                   /\ Name[m] = Last(Segments[u])}

(* Mutant of FileName: the file is named after the count alone.            *)
FileNameByCount(u) ==
  <<Cardinality({v \in Members : materialised[v] # None}), CHOOSE b \in Bases : TRUE>>

FileName(u) ==
  <<Cardinality({v \in Members : materialised[v] # None}), Base[u]>>

(* A write of m that a thread is given.                                    *)
Given(t, f, m) == [by |-> t, file |-> f, data |-> m, at |-> "queue"]

(* The bytes have come.  A read has its answer; _materialise names a file  *)
(* and hands them to a thread.                                             *)
Fetch(t) ==
  LET u == Last(stack[t])
  IN  /\ pc[t] = "fetch"
      /\ \E m \in Contained(u) :
           IF asked[t] = "bytes" /\ Len(stack[t]) = 1
           THEN Return(t) /\ UNCHANGED <<writes, target>>
           ELSE /\ pc' = [pc EXCEPT ![t] = "write"]
                /\ target' = [target EXCEPT ![t] = FileName(u)]
                /\ writes' = writes \cup {Given(t, FileName(u), m)}
                /\ UNCHANGED <<stack, asked, walkVars>>
      /\ UNCHANGED <<materialised, holder, disk, spoiled>>

(* The container does not open, has no such member, or what _member_bytes  *)
(* checks refuses it: a symlink, a path outside, a limit, a ratio.         *)
Refuse(t) ==
  /\ pc[t] = "fetch"
  /\ Refused(t, holder)
  /\ UNCHANGED <<materialised, files, target>>

(* write_bytes opens the file of w, and with that empties it.  Another     *)
(* thread that is at the same file goes on at its own place in it.         *)
Empty(w) ==
  /\ w.at = "queue"
  /\ disk' = [disk EXCEPT ![w.file] = Torn]
  /\ spoiled' = spoiled \ {w.file}
  /\ writes' =
       {[v EXCEPT !.at = IF v = w THEN "open"
                         ELSE IF v.file = w.file /\ @ = "open" THEN "cut" ELSE @] : v \in writes}
  /\ UNCHANGED <<materialised, holder, target, asked, pc, stack, walkVars>>

(* Bytes of another member are in the file of w, or on their way there.    *)
Mixed(w) ==
  \/ disk[w.file] \notin {Torn, w.data}
  \/ \E v \in writes : v.file = w.file /\ v.at # "queue" /\ v.data # w.data

(* ... and writes all.  What it wrote before another emptied the file may  *)
(* be missing.                                                             *)
Write(w) ==
  /\ w.at # "queue"
  /\ \E d \in {w.data} \cup {e \in {disk[w.file]} : w.at = "cut"} \cup {e \in {Torn} : Mixed(w)} :
       disk' = [disk EXCEPT ![w.file] = d]
  /\ writes' = writes \ {w}
  /\ UNCHANGED <<materialised, holder, spoiled, target, asked, pc, stack, walkVars>>

(* ... or raises, at once or half-way.                                     *)
Break(w) ==
  /\ IF w.at # "queue" /\ Mixed(w)
     THEN \E d \in {disk[w.file], Torn} : disk' = [disk EXCEPT ![w.file] = d]
     ELSE UNCHANGED disk
  /\ writes' = writes \ {w}

(* The file cannot be written: the task hears of it.                       *)
FailWrite(t) ==
  /\ pc[t] = "write"
  /\ \E w \in writes : w.by = t /\ Break(w)
  /\ target' = [target EXCEPT ![t] = None]
  /\ Refused(t, holder)
  /\ UNCHANGED <<materialised, spoiled>>

(* ... and no one, when the task was cancelled.                            *)
FailLate(w) ==
  /\ w.by = None
  /\ Break(w)
  /\ spoiled' = spoiled \cup {f \in {w.file} : w.at = "open"}
  /\ UNCHANGED <<materialised, holder, target, asked, pc, stack, walkVars>>

(* The write that t waits for is done: the member has its path.            *)
Register(t) ==
  LET u == Last(stack[t])
  IN  /\ pc[t] = "write"
      /\ \A w \in writes : w.by # t
      /\ materialised' = [materialised EXCEPT ![u] = target[t]]
      /\ holder' = [holder EXCEPT ![u] = None]
      /\ target' = [target EXCEPT ![t] = None]
      /\ Return(t)
      /\ UNCHANGED files

(* The files that no member has, and those that have been spoiled: with    *)
(* as many as MaxLate no more tasks are cancelled that write.              *)
Leftover ==
  spoiled \cup {f \in Files : /\ disk[f] # None
                            /\ \A u \in Members : materialised[u] # f
                            /\ \A t \in Tasks : target[t] # f}

(* The task is cancelled: every lock it holds goes, and a write that a     *)
(* thread has begun goes on.                                               *)
Cancel(t) ==
  /\ pc[t] # "idle"
  /\ \/ \A w \in writes : w.by # t
     \/ Cardinality({w \in writes : w.by \in {None, t}}) + Cardinality(Leftover) <= MaxLate
  /\ pc' = [pc EXCEPT ![t] = "idle"]
  /\ asked' = [asked EXCEPT ![t] = "nothing"]
  /\ stack' = [stack EXCEPT ![t] = <<>>]
  /\ holder' = Unlocked(t, holder)
  /\ writes' = {[w EXCEPT !.by = IF @ = t THEN None ELSE @] : w \in writes}
  /\ target' = [target EXCEPT ![t] = None]
  /\ todo' = [todo EXCEPT ![t] = <<>>]
  /\ found' = [found EXCEPT ![t] = {}]
  /\ skipped' = [skipped EXCEPT ![t] = {}]
  /\ UNCHANGED <<materialised, disk, spoiled>>

----------------------------------------------------------------------------
(* Mutant of Entries: the container that is deepest of all is looked into. *)
EntriesTooDeep(x, depth) ==
  IF depth > MaxDepth
  THEN <<>>
  ELSE SetToSeq({[of |-> m, depth |-> depth] : m \in {m \in Members : Parent[m] = x}})

(* _members_of, from _is_a_folder to the loop: the entries of a container  *)
(* that was reached through so many others.  What holds nothing stands for *)
(* what is no folder, a document that is a zip file among it.              *)
Entries(x, depth) ==
  IF depth >= MaxDepth
  THEN <<>>
  ELSE SetToSeq({[of |-> m, depth |-> depth] : m \in {m \in Members : Parent[m] = x}})

(* walk, for one archive: its entries, or none when it does not open.      *)
AskWalk(t, a) ==
  /\ pc[t] = "idle" /\ t \in Walkers
  /\ asked' = [asked EXCEPT ![t] = "walk"]
  /\ pc' = [pc EXCEPT ![t] = "walk"]
  /\ \/ /\ todo' = [todo EXCEPT ![t] = Entries(a, 0)]
        /\ UNCHANGED skipped
     \/ /\ skipped' = [skipped EXCEPT ![t] = {a}]
        /\ UNCHANGED todo
  /\ UNCHANGED <<materialised, holder, files, target, stack, found>>

(* The next entry is listed, and then asked for by the uri it was given.   *)
List(t) ==
  LET uri == EntryUri[Head(todo[t]).of]
  IN  /\ pc[t] = "walk" /\ todo[t] # <<>>
      /\ found' = [found EXCEPT ![t] = @ \cup {uri}]
      /\ IF ItemAt(uri) \in Members
         THEN /\ pc' = [pc EXCEPT ![t] = "lock"]
              /\ stack' = [stack EXCEPT ![t] = <<ItemAt(uri)>>]
              /\ UNCHANGED todo
         ELSE todo' = [todo EXCEPT ![t] = Tail(@)] /\ UNCHANGED <<pc, stack>>
      /\ UNCHANGED <<materialised, holder, files, target, asked, skipped>>

(* What is in the entry comes before the entries after it.                 *)
Enter(t) ==
  LET entry == Head(todo[t])
  IN  /\ pc[t] = "enter"
      /\ pc' = [pc EXCEPT ![t] = "walk"]
      /\ \/ /\ todo' = [todo EXCEPT ![t] = Entries(entry.of, entry.depth + 1) \o Tail(@)]
            /\ UNCHANGED skipped
         \/ /\ todo' = [todo EXCEPT ![t] = Tail(@)]
            /\ skipped' = [skipped EXCEPT ![t] = @ \cup {entry.of}]
      /\ UNCHANGED <<materialised, holder, files, target, asked, stack, found>>

EndWalk(t) ==
  /\ pc[t] = "walk" /\ todo[t] = <<>>
  /\ pc' = [pc EXCEPT ![t] = "idle"]
  /\ asked' = [asked EXCEPT ![t] = "nothing"]
  /\ found' = [found EXCEPT ![t] = {}]
  /\ skipped' = [skipped EXCEPT ![t] = {}]
  /\ UNCHANGED <<materialised, holder, files, target, stack, todo>>

(* What a call goes on with by itself, once it has its lock.              *)
Step(t) ==
  \/ Fetch(t) \/ Refuse(t) \/ Register(t)
  \/ \E w \in writes : w.by = t /\ (Empty(w) \/ Write(w))
  \/ List(t) \/ Enter(t) \/ EndWalk(t)

Next ==
  \/ \E t \in Tasks, u \in Members : AskPath(t, u) \/ AskBytes(t, u)
  \/ \E t \in Tasks, a \in Archives : AskWalk(t, a)
  \/ \E t \in Tasks : Lock(t) \/ Fetch(t) \/ Refuse(t) \/ FailWrite(t) \/ Register(t) \/ Cancel(t)
  \/ \E t \in Tasks : List(t) \/ Enter(t) \/ EndWalk(t)
  \/ \E w \in writes : Empty(w) \/ Write(w) \/ FailLate(w)

Spec == Init /\ [][Next]_vars

(* asyncio.Lock is handed on in the order it was asked for, so a task that *)
(* finds it free again and again gets it; a thread ends its write, and     *)
(* every other await comes to an end.  Nobody has to cancel a task.        *)
FairSpec ==
  /\ Spec
  /\ \A t \in Tasks :
       /\ SF_vars(Lock(t))
       /\ WF_vars(Step(t))

----------------------------------------------------------------------------
(* Properties                                                              *)

(* What the last segment of a uri names, in the container that the others  *)
(* are the uri of, is what it is the uri of.                               *)
UrisName ==
  \A u, m \in Members : Parent[m] = Container[u] /\ Name[m] = Last(Segments[u]) => m = u

(* The uri of an archive is its path, in one segment, and that of a member *)
(* is the uri of what it lies in with its name behind.                     *)
UrisJoined ==
  /\ \A a \in Archives : Len(Segments[a]) = 1 /\ Address[a] = JoinUri(Segments[a])
  /\ \A u \in Members : Address[u] = EntryUri[u]

(* No two members have the same name at the end of their uris.             *)
BasesApart == \A u, v \in Members : Base[u] = Base[v] => u = v

(* The path of a member leads to the bytes of that member                  *)
(* ("uri -> the temp file holding its bytes", nested_source.py:139),       *)
(* whichever tasks wrote which files at the same time: but for the time in *)
(* which the thread of a cancelled task writes the same bytes once more,   *)
(* and after such a thread has failed half-way.  Even then it never leads  *)
(* to bytes of another member.                                             *)
FilesHoldTheirMember ==
  \A u \in Members : materialised[u] # None =>
    LET f == materialised[u]
    IN  \/ disk[f] = u
        \/ /\ disk[f] = Torn
           /\ \/ f \in spoiled
              \/ \E w \in writes : w.by = None /\ w.at = "open" /\ w.file = f /\ w.data = u

(* "local_path is STABLE" (nested_source.py:139-142): a member never gets  *)
(* a second path, so the stat of its path never tells a reader it changed: *)
(* it is written once, by whichever of the tasks that ask for it.          *)
StablePaths ==
  [][\A u \in Members : materialised[u] # None => materialised'[u] = materialised[u]]_vars

(* Whoever has the lock that a task waits for waits itself, if for a lock, *)
(* for that of a member further out ("a per-uri lock cannot" deadlock,     *)
(* nested_source.py:148): no chain of tasks, however long, waits on itself.*)
LocksLeadOut ==
  \A t, o \in Tasks :
    pc[t] = "lock" /\ pc[o] = "lock" /\ holder[Last(stack[t])] = o
      => Depth[Last(stack[o])] < Depth[Last(stack[t])]

(* What u lies in, and what that lies in, out to the archive.              *)
around[u \in Members] ==
  {Parent[u]} \cup (IF Parent[u] \in Members THEN around[Parent[u]] ELSE {})

(* A walk that comes to its end has listed what lies at most MaxDepth      *)
(* containers down, in none that could not be looked into, and each by the *)
(* uri that it can be read by: the containers that a walk has entered and  *)
(* the segments that a read counts agree, and what was put together is     *)
(* what comes apart, whatever the names hold.                              *)
WalksAreTrue ==
  \A t \in Tasks : asked[t] = "walk" /\ pc[t] = "walk" /\ todo[t] = <<>> =>
    \E a \in Archives :
      found[t] = {Address[u] : u \in {u \in Members :
                    /\ a \in around[u]
                    /\ Cardinality(around[u]) <= MaxDepth
                    /\ around[u] \cap skipped[t] = {}}}

(* Every call comes to an end: no chain of locks waits on itself           *)
(* ("a single shared lock deadlocks against itself", nested_source.py:147).*)
CallsEnd == \A t \in Tasks : pc[t] # "idle" ~> pc[t] = "idle"

=============================================================================
