----------------------- MODULE SofficeRendererProofs -----------------------
(***************************************************************************)
(* SofficeRenderer, for any tasks, event loops, documents and contents.    *)
(*                                                                         *)
(* The slots add up, and every soffice is claimed, whatever is edited      *)
(* when.  What the PDFs are of, and that a stored one is enough, is proved *)
(* for documents that are not edited under a call: SofficeRenderer takes   *)
(* the hash and starts soffice on the path at two moments.                 *)
(***************************************************************************)
EXTENDS SofficeRenderer, FiniteSetTheorems, TLAPS

Semaphores == [of : Nat, free : Nat]

(* Every variable of the calls holds a value of its kind.                  *)
CallTypes ==
  /\ content \in [Documents -> Contents]
  /\ pdfs \in [Contents -> Contents \cup {None}]
  /\ pc \in [Tasks -> Converting \cup {"idle", "hashing", "looking", "waiting",
                                       "keeping", "paging"}]
  /\ doc \in [Tasks -> Documents]
  /\ hash \in [Tasks -> Contents \cup {None}]
  /\ child \in [Tasks -> {"none", "running", "killed"}]
  /\ pdf \in [Tasks -> Contents \cup {None}]
  /\ stored \in [Tasks -> BOOLEAN]
  /\ \A t \in Tasks : pc[t] \notin {"idle", "hashing"} => hash[t] \in Contents

(* ... and of the limiter, none of whose semaphores is of a loop yet to be.*)
LimiterTypes ==
  /\ running \in [Loops -> Nat]
  /\ semaphores \in [Loops -> Semaphores \cup {None}]
  /\ \A l \in Loops : semaphores[l] # None => semaphores[l].of <= running[l]

(* The tasks of loop l that have a slot.                                   *)
Holders(l) == {t \in Tasks : LoopOf[t] = l /\ pc[t] \in Converting}

SlotsInv == LimiterTypes /\ SlotsCounted

(* A call goes by the hash of its document, from when it took it on, and   *)
(* what it found stored as it began is still there.                        *)
HashesInv ==
  \A t \in Tasks :
    /\ pc[t] \in Converting \cup {"looking", "waiting", "keeping", "paging"} =>
         hash[t] = content[doc[t]]
    /\ pc[t] \in {"hashing", "looking"} /\ stored[t] => pdfs[content[doc[t]]] # None

----------------------------------------------------------------------------
(* Types                                                                   *)

LEMMA InitTypes == Init => CallTypes
  BY RendererAssumption DEF Init, CallTypes, Store!Init

LEMMA NextTypes == CallTypes /\ [Next]_vars => CallTypes'
<1> SUFFICES ASSUME CallTypes, [Next]_vars PROVE CallTypes'
  OBVIOUS
<1> USE RendererAssumption
<1> USE DEF CallTypes, Converting, files, Transition, Leave
<1>1. ASSUME NEW d \in Documents, NEW c \in Contents, Edit(d, c) PROVE CallTypes'
  BY <1>1 DEF Edit
<1>2. ASSUME NEW t \in Tasks, NEW d \in Documents, Ask(t, d) PROVE CallTypes'
  BY <1>2 DEF Ask
<1>3. ASSUME NEW t \in Tasks, Hash(t) PROVE CallTypes'
  BY <1>3 DEF Hash
<1>4. ASSUME NEW t \in Tasks, LookUp(t) PROVE CallTypes'
  BY <1>4 DEF LookUp, Store!Get
<1>5. ASSUME NEW t \in Tasks, Acquire(t) \/ Seed(t) \/ Collect(t) PROVE CallTypes'
  BY <1>5 DEF Acquire, Seed, Collect
<1>6. ASSUME NEW t \in Tasks, Launch(t) \/ Convert(t) \/ Timeout(t) PROVE CallTypes'
  BY <1>6 DEF Launch, Convert, Timeout
<1>7. ASSUME NEW t \in Tasks, Keep(t) PROVE CallTypes'
  BY <1>7 DEF Keep, KeyOf, Store!Put
<1>8. ASSUME NEW t \in Tasks, Page(t) \/ Reap(t) \/ Fail(t) \/ Cancel(t) PROVE CallTypes'
  BY <1>8 DEF Page, Reap, Fail, Cancel
<1>9. ASSUME NEW l \in Loops, LoopEnds(l) PROVE CallTypes'
  BY <1>9 DEF LoopEnds
<1>10. CASE OrphanEnds \/ UNCHANGED vars
  BY <1>10 DEF OrphanEnds, vars
<1>11. QED
  BY <1>1, <1>2, <1>3, <1>4, <1>5, <1>6, <1>7, <1>8, <1>9, <1>10 DEF Next, Step

(* Every variable keeps to its kind, whatever the constants.               *)
THEOREM Typing == Spec => []CallTypes
  BY InitTypes, NextTypes, PTL DEF Spec

----------------------------------------------------------------------------
(* The slots                                                               *)

LEMMA HoldersFinite ==
  ASSUME NEW l \in Loops
  PROVE  IsFiniteSet(Holders(l)) /\ Cardinality(Holders(l)) \in Nat
<1>1. Holders(l) \in SUBSET Tasks
  BY DEF Holders
<1>2. IsFiniteSet(Holders(l))
  BY <1>1, RendererAssumption, FS_Subset
<1>3. QED
  BY <1>2, FS_CardinalityType

(* A loop one of whose tasks holds a slot has a semaphore of its own.      *)
LEMMA HolderHasSemaphore ==
  ASSUME SlotsInv, NEW t \in Tasks, pc[t] \in Converting
  PROVE  LET l == LoopOf[t]
         IN  /\ semaphores[l] \in Semaphores /\ semaphores[l].of = running[l]
             /\ Limiter!Semaphore(l) = semaphores[l]
<1> DEFINE l == LoopOf[t]
<1>1. l \in Loops /\ t \in Holders(l)
  BY RendererAssumption DEF Holders
<1>2. Cardinality(Holders(l)) \in Nat /\ Cardinality(Holders(l)) # 0
  BY <1>1, HoldersFinite, FS_EmptySet
<1>3. Limiter!Semaphore(l).free + Cardinality(Holders(l)) = Slots
  BY <1>1 DEF SlotsInv, SlotsCounted, Holders
<1>4. CASE Limiter!Semaphore(l) = Limiter!Fresh(l)
  BY <1>2, <1>3, <1>4, RendererAssumption DEF Limiter!Fresh
<1>5. CASE semaphores[l] # None /\ semaphores[l].of = running[l]
  BY <1>1, <1>5 DEF SlotsInv, LimiterTypes, Limiter!Semaphore
<1>6. QED
  BY <1>4, <1>5 DEF Limiter!Semaphore

(* Between them, the lemmas below are what a step may do to the slots.     *)
LEMMA SlotTaken ==
  ASSUME SlotsInv, NEW t \in Tasks, CallTypes,
         pc[t] \notin Converting, pc'[t] \in Converting,
         \A o \in Tasks \ {t} : pc'[o] = pc[o],
         Limiter!Acquire(LoopOf[t])
  PROVE  SlotsInv'
<1> USE RendererAssumption
<1> DEFINE k == LoopOf[t]
           s == Limiter!Semaphore(k)
<1>1. k \in Loops
  OBVIOUS
<1>2. /\ semaphores' = [semaphores EXCEPT ![k] = [of |-> s.of, free |-> s.free - 1]]
      /\ running' = running /\ s.free > 0
  BY DEF Limiter!Acquire
<1>3. s \in Semaphores /\ s.of = running[k]
  BY <1>1 DEF SlotsInv, LimiterTypes, Semaphores, Limiter!Semaphore, Limiter!Fresh
<1> HIDE DEF k, s
<1>4. /\ semaphores'[k] = [of |-> running[k], free |-> s.free - 1]
      /\ semaphores'[k] \in Semaphores
      /\ \A l \in Loops \ {k} : semaphores'[l] = semaphores[l]
  BY <1>1, <1>2, <1>3 DEF SlotsInv, LimiterTypes, Semaphores
<1>5. LimiterTypes'
  BY <1>1, <1>2, <1>4 DEF SlotsInv, LimiterTypes, Semaphores
<1>6. ASSUME NEW l \in Loops
      PROVE  Limiter!Semaphore(l)'.free + Cardinality(Holders(l)') = Slots
  <2>1. Limiter!Semaphore(l).free + Cardinality(Holders(l)) = Slots
    BY DEF SlotsInv, SlotsCounted, Holders
  <2>2. CASE l = k
    <3>1. Holders(k)' = Holders(k) \cup {t} /\ t \notin Holders(k)
      BY DEF Holders, k
    <3>2. Cardinality(Holders(k)') = Cardinality(Holders(k)) + 1
      BY <1>1, <3>1, HoldersFinite, FS_AddElement
    <3>3. Limiter!Semaphore(k)'.free = s.free - 1
      <4>1. semaphores'[k] # None
        BY <1>4 DEF Semaphores
      <4>2. QED
        BY <1>2, <1>4, <4>1 DEF Limiter!Semaphore
    <3>4. QED
      BY <1>1, <1>3, <2>1, <2>2, <3>2, <3>3, HoldersFinite DEF Semaphores, s
  <2>3. CASE l # k
    <3>1. Holders(l)' = Holders(l)
      BY <2>3 DEF Holders, k
    <3>2. Limiter!Semaphore(l)' = Limiter!Semaphore(l)
      BY <1>2, <1>4, <2>3 DEF Limiter!Semaphore, Limiter!Fresh
    <3>3. QED
      BY <2>1, <3>1, <3>2
  <2>4. QED
    BY <2>2, <2>3
<1>7. QED
  BY <1>5, <1>6 DEF SlotsInv, SlotsCounted, Holders

LEMMA SlotGivenBack ==
  ASSUME SlotsInv, NEW t \in Tasks, CallTypes,
         pc[t] \in Converting, pc'[t] \notin Converting,
         \A o \in Tasks \ {t} : pc'[o] = pc[o],
         Limiter!Release(LoopOf[t])
  PROVE  SlotsInv'
<1> USE RendererAssumption
<1> DEFINE k == LoopOf[t]
           s == semaphores[k]
<1>1. k \in Loops
  OBVIOUS
<1>2. /\ semaphores' = [semaphores EXCEPT ![k] = [of |-> s.of, free |-> s.free + 1]]
      /\ running' = running
  BY DEF Limiter!Release
<1>3. s \in Semaphores /\ s.of = running[k] /\ Limiter!Semaphore(k) = s
  BY HolderHasSemaphore
<1> HIDE DEF k, s
<1>4. /\ semaphores'[k] = [of |-> running[k], free |-> s.free + 1]
      /\ semaphores'[k] \in Semaphores
      /\ \A l \in Loops \ {k} : semaphores'[l] = semaphores[l]
  BY <1>1, <1>2, <1>3 DEF SlotsInv, LimiterTypes, Semaphores
<1>5. LimiterTypes'
  BY <1>1, <1>2, <1>4 DEF SlotsInv, LimiterTypes, Semaphores
<1>6. ASSUME NEW l \in Loops
      PROVE  Limiter!Semaphore(l)'.free + Cardinality(Holders(l)') = Slots
  <2>1. Limiter!Semaphore(l).free + Cardinality(Holders(l)) = Slots
    BY DEF SlotsInv, SlotsCounted, Holders
  <2>2. CASE l = k
    <3>1. Holders(k)' = Holders(k) \ {t} /\ t \in Holders(k)
      BY DEF Holders, k
    <3>2. Cardinality(Holders(k)') = Cardinality(Holders(k)) - 1
      BY ZenonT(30), <1>1, <3>1, HoldersFinite, FS_RemoveElement
    <3>3. Limiter!Semaphore(k)'.free = s.free + 1
      <4>1. semaphores'[k] # None
        BY <1>4 DEF Semaphores
      <4>2. QED
        BY <1>2, <1>4, <4>1 DEF Limiter!Semaphore
    <3>4. QED
      BY <1>1, <1>3, <2>1, <2>2, <3>2, <3>3, HoldersFinite DEF Semaphores
  <2>3. CASE l # k
    <3>1. Holders(l)' = Holders(l)
      BY <2>3 DEF Holders, k
    <3>2. Limiter!Semaphore(l)' = Limiter!Semaphore(l)
      BY <1>2, <1>4, <2>3 DEF Limiter!Semaphore, Limiter!Fresh
    <3>3. QED
      BY <2>1, <3>1, <3>2
  <2>4. QED
    BY <2>2, <2>3
<1>7. QED
  BY <1>5, <1>6 DEF SlotsInv, SlotsCounted, Holders

LEMMA SlotsUntouched ==
  ASSUME SlotsInv, UNCHANGED limiter,
         \A t \in Tasks : pc'[t] \in Converting <=> pc[t] \in Converting
  PROVE  SlotsInv'
<1>1. \A l \in Loops : Holders(l)' = Holders(l)
  BY DEF Holders
<1>2. \A l \in Loops : Limiter!Semaphore(l)' = Limiter!Semaphore(l)
  BY DEF limiter, Limiter!Semaphore, Limiter!Fresh
<1>3. LimiterTypes'
  BY DEF SlotsInv, LimiterTypes, limiter
<1>4. QED
  BY <1>1, <1>2, <1>3 DEF SlotsInv, SlotsCounted, Holders

(* A loop that dies takes its tasks, and the one that has its id after it  *)
(* begins with all its slots.                                              *)
LEMMA SlotsOfDeadLoop ==
  ASSUME SlotsInv, CallTypes, NEW k \in Loops, LoopEnds(k)
  PROVE  SlotsInv'
<1> USE RendererAssumption
<1>1. /\ running' = [running EXCEPT ![k] = @ + 1] /\ semaphores' = semaphores
      /\ pc' = [t \in Tasks |-> IF t \in {o \in Tasks : LoopOf[o] = k} THEN "idle" ELSE pc[t]]
  BY DEF LoopEnds, Limiter!EndLoop
<1>2. LimiterTypes'
  BY <1>1 DEF SlotsInv, LimiterTypes, Semaphores
<1>3. ASSUME NEW l \in Loops
      PROVE  Limiter!Semaphore(l)'.free + Cardinality(Holders(l)') = Slots
  <2>1. CASE l = k
    <3>1. Holders(k)' = {}
      BY <1>1 DEF Holders, Converting
    <3>2. ~(semaphores'[k] # None /\ semaphores'[k].of = running'[k])
      BY <1>1 DEF SlotsInv, LimiterTypes, Semaphores
    <3>3. Limiter!Semaphore(k)'.free = Slots
      BY <3>2 DEF Limiter!Semaphore, Limiter!Fresh
    <3>4. QED
      BY <2>1, <3>1, <3>3, FS_EmptySet
  <2>2. CASE l # k
    <3>1. Holders(l)' = Holders(l)
      BY <1>1, <2>2 DEF Holders
    <3>2. Limiter!Semaphore(l)' = Limiter!Semaphore(l)
      BY <1>1, <2>2 DEF SlotsInv, LimiterTypes, Limiter!Semaphore, Limiter!Fresh
    <3>3. QED
      BY <3>1, <3>2 DEF SlotsInv, SlotsCounted, Holders
  <2>3. QED
    BY <2>1, <2>2
<1>4. QED
  BY <1>2, <1>3 DEF SlotsInv, SlotsCounted, Holders

LEMMA InitSlots == Init => SlotsInv
<1> SUFFICES ASSUME Init PROVE SlotsInv
  OBVIOUS
<1>1. \A l \in Loops : Holders(l) = {} /\ Limiter!Semaphore(l).free = Slots
  BY DEF Init, Limiter!Init, Holders, Converting, Limiter!Semaphore, Limiter!Fresh
<1>2. SlotsCounted
  BY <1>1, RendererAssumption, FS_EmptySet DEF SlotsCounted, Holders
<1>3. QED
  BY <1>2 DEF Init, Limiter!Init, SlotsInv, LimiterTypes

LEMMA NextSlots == CallTypes /\ SlotsInv /\ [Next]_vars => SlotsInv'
<1> SUFFICES ASSUME CallTypes, SlotsInv, [Next]_vars PROVE SlotsInv'
  OBVIOUS
<1> USE DEF Converting, Transition, Leave
<1>1. ASSUME NEW d \in Documents, NEW c \in Contents, Edit(d, c) PROVE SlotsInv'
  BY <1>1, SlotsUntouched DEF Edit
<1>2. ASSUME NEW t \in Tasks, NEW d \in Documents, Ask(t, d) PROVE SlotsInv'
  BY <1>2, SlotsUntouched DEF CallTypes, Ask
<1>3. ASSUME NEW t \in Tasks,
             \/ Hash(t) \/ LookUp(t) \/ Seed(t) \/ Launch(t) \/ Convert(t) \/ Keep(t)
             \/ Timeout(t) \/ Page(t)
      PROVE  SlotsInv'
  BY <1>3, SlotsUntouched
     DEF CallTypes, Hash, LookUp, Seed, Launch, Convert, Keep, Timeout, Page
<1>4. ASSUME NEW t \in Tasks, Acquire(t) PROVE SlotsInv'
  BY <1>4, SlotTaken DEF CallTypes, Acquire
<1>5. ASSUME NEW t \in Tasks, Collect(t) PROVE SlotsInv'
  BY <1>5, SlotGivenBack DEF CallTypes, Collect
<1>6. ASSUME NEW t \in Tasks, Reap(t) \/ Fail(t) \/ Cancel(t) PROVE SlotsInv'
  <2>1. /\ pc' = [pc EXCEPT ![t] = "idle"]
        /\ Released(t)
    BY <1>6 DEF Reap, Fail, Cancel
  <2>2. CASE pc[t] \in Converting
    BY <2>1, <2>2, SlotGivenBack DEF CallTypes, Released
  <2>3. CASE pc[t] \notin Converting
    BY <2>1, <2>3, SlotsUntouched DEF CallTypes, Released
  <2>4. QED
    BY <2>2, <2>3
<1>7. ASSUME NEW l \in Loops, LoopEnds(l) PROVE SlotsInv'
  BY <1>7, SlotsOfDeadLoop
<1>8. CASE OrphanEnds \/ UNCHANGED vars
  BY <1>8, SlotsUntouched DEF OrphanEnds, vars
<1>9. QED
  BY <1>1, <1>2, <1>3, <1>4, <1>5, <1>6, <1>7, <1>8 DEF Next, Step

(* However its calls end, a loop has the slots it was given: those that    *)
(* are free and those that a conversion holds (semaphore_limiter.py).      *)
THEOREM SlotsAreCounted == Spec => []SlotsCounted
<1>1. SlotsInv => SlotsCounted
  BY DEF SlotsInv
<1>2. QED
  BY <1>1, InitTypes, NextTypes, InitSlots, NextSlots, PTL DEF Spec

----------------------------------------------------------------------------
(* The children                                                            *)

LEMMA NextChildren ==
  CallTypes /\ ChildrenClaimed /\ [Next]_vars => ChildrenClaimed'
<1> SUFFICES ASSUME CallTypes, ChildrenClaimed, [Next]_vars PROVE ChildrenClaimed'
  OBVIOUS
<1> USE DEF CallTypes, ChildrenClaimed, Transition, Leave
<1>1. CASE (\E d \in Documents, c \in Contents : Edit(d, c)) \/ OrphanEnds \/ UNCHANGED vars
  BY <1>1 DEF Edit, OrphanEnds, vars
<1>2. ASSUME NEW t \in Tasks, NEW d \in Documents, Ask(t, d) PROVE ChildrenClaimed'
  BY <1>2 DEF Ask
<1>3. ASSUME NEW t \in Tasks,
             \/ Hash(t) \/ LookUp(t) \/ Acquire(t) \/ Seed(t) \/ Collect(t) \/ Keep(t)
             \/ Page(t)
      PROVE  ChildrenClaimed'
  BY <1>3 DEF Hash, LookUp, Acquire, Seed, Collect, Keep, Page
<1>4. ASSUME NEW t \in Tasks, Launch(t) \/ Convert(t) \/ Timeout(t) PROVE ChildrenClaimed'
  BY <1>4 DEF Launch, Convert, Timeout
<1>5. ASSUME NEW t \in Tasks, Reap(t) \/ Fail(t) \/ Cancel(t) PROVE ChildrenClaimed'
  BY <1>5 DEF Reap, Fail, Cancel
<1>6. ASSUME NEW l \in Loops, LoopEnds(l) PROVE ChildrenClaimed'
  BY <1>6 DEF LoopEnds
<1>7. QED
  BY <1>1, <1>2, <1>3, <1>4, <1>5, <1>6 DEF Next, Step

(* A call waits for its own soffice, and one that ends otherwise than by a *)
(* cancellation leaves none behind.                                        *)
THEOREM ChildrenAreClaimed == Spec => []ChildrenClaimed
<1>1. Init => ChildrenClaimed
  BY DEF Init, ChildrenClaimed
<1>2. QED
  BY <1>1, InitTypes, NextTypes, NextChildren, PTL DEF Spec

----------------------------------------------------------------------------
(* The PDFs                                                                *)

LEMMA InitPdfs == Init => HashesInv /\ PdfsCurrent /\ StoredIsEnough
  BY DEF Init, Store!Init, HashesInv, PdfsCurrent, StoredIsEnough, Converting

LEMMA NextPdfs ==
  ASSUME ~EditsDuringCalls, CallTypes, HashesInv, PdfsCurrent, StoredIsEnough, [Next]_vars
  PROVE  HashesInv' /\ PdfsCurrent' /\ StoredIsEnough'
<1> USE RendererAssumption
<1> USE DEF CallTypes, HashesInv, PdfsCurrent, StoredIsEnough, Converting, Transition,
            Leave, files
<1> DEFINE Kept == HashesInv' /\ PdfsCurrent' /\ StoredIsEnough'
<1>1. ASSUME NEW d \in Documents, NEW c \in Contents, Edit(d, c) PROVE Kept
  BY <1>1 DEF Edit
<1>2. ASSUME NEW t \in Tasks, NEW d \in Documents, Ask(t, d) PROVE Kept
  BY <1>2 DEF Ask, Store!Get
<1>3. ASSUME NEW t \in Tasks, Hash(t) PROVE Kept
  BY <1>3 DEF Hash
<1>4. ASSUME NEW t \in Tasks, LookUp(t) PROVE Kept
  BY <1>4 DEF LookUp, Store!Get
<1>5. ASSUME NEW t \in Tasks, Acquire(t) \/ Seed(t) \/ Collect(t) PROVE Kept
  BY <1>5 DEF Acquire, Seed, Collect
<1>6. ASSUME NEW t \in Tasks, Launch(t) \/ Convert(t) \/ Timeout(t) PROVE Kept
  BY <1>6 DEF Launch, Convert, Timeout
<1>7. ASSUME NEW t \in Tasks, Keep(t) PROVE Kept
  <2>1. /\ pdfs' = [pdfs EXCEPT ![hash[t]] = IF @ = None THEN pdf[t] ELSE @]
        /\ pdf[t] = hash[t] /\ hash[t] \in Contents
    BY <1>7 DEF Keep, KeyOf, Store!Put
  <2>2. \A c \in Contents : /\ pdfs'[c] \in {None, c}
                            /\ pdfs[c] # None => pdfs'[c] # None
    BY <2>1
  <2>3. QED
    BY <1>7, <2>2 DEF Keep
<1>8. ASSUME NEW t \in Tasks, Page(t) \/ Reap(t) \/ Fail(t) \/ Cancel(t) PROVE Kept
  BY <1>8 DEF Page, Reap, Fail, Cancel
<1>9. ASSUME NEW l \in Loops, LoopEnds(l) PROVE Kept
  BY <1>9 DEF LoopEnds
<1>10. CASE OrphanEnds \/ UNCHANGED vars
  BY <1>10 DEF OrphanEnds, vars
<1>11. QED
  BY <1>1, <1>2, <1>3, <1>4, <1>5, <1>6, <1>7, <1>8, <1>9, <1>10 DEF Next, Step

LEMMA PdfsInvariance ==
  ASSUME ~EditsDuringCalls
  PROVE  Spec => [](CallTypes /\ HashesInv /\ PdfsCurrent /\ StoredIsEnough)
<1> DEFINE IInv == CallTypes /\ HashesInv /\ PdfsCurrent /\ StoredIsEnough
<1>1. Init => IInv
  BY InitTypes, InitPdfs
<1>2. IInv /\ [Next]_vars => IInv'
  BY NextTypes, NextPdfs
<1>3. QED
  BY <1>1, <1>2, PTL DEF Spec

(* While no document changes under a call, a stored PDF is of the content  *)
(* its key names, and a page is of its document as it is (_pdf).           *)
THEOREM PdfsAreCurrent ==
  ASSUME ~EditsDuringCalls
  PROVE  Spec => []PdfsCurrent
  BY PdfsInvariance, PTL

(* On the same condition, what was stored as a call began is neither       *)
(* converted again nor queued for (_pdf).                                  *)
THEOREM StoredPdfsAreEnough ==
  ASSUME ~EditsDuringCalls
  PROVE  Spec => []StoredIsEnough
  BY PdfsInvariance, PTL

=============================================================================
