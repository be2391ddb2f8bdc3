--------------------------- MODULE SofficeRenderer ---------------------------
(***************************************************************************)
(* SofficeRenderer (adapters/soffice_renderer.py): documents converted to  *)
(* PDF by a soffice child, once for each content, for the tasks of one or  *)
(* more event loops.  The PDF goes to the artifact store; a conversion     *)
(* holds a slot of the limiter, and has a deadline.                        *)
(*                                                                         *)
(* A content is its own hash, and a PDF is the content it was made of.     *)
(***************************************************************************)
EXTENDS Naturals, FiniteSets

CONSTANTS
  Tasks,
  Loops, LoopOf,     (* LoopOf[t]: the event loop task t runs on           *)
  Slots, MaxLoops,   (* see SemaphoreLimiter                               *)
  Documents,
  Contents,
  MaxEdits,          (* edits of one document: bounds the model            *)
  MaxOrphans,        (* children nobody waits for: bounds the model        *)
  EditsDuringCalls,  (* may a document be edited while a call is under way *)
  None

ASSUME RendererAssumption ==
  /\ LoopOf \in [Tasks -> Loops]
  /\ Slots \in Nat \ {0} /\ MaxLoops \in Nat
  /\ MaxEdits \in Nat /\ MaxOrphans \in Nat /\ EditsDuringCalls \in BOOLEAN
  /\ None \notin Contents /\ None \notin [of : Nat, free : Nat]
  /\ IsFiniteSet(Tasks)

(* A value for LoopOf: all tasks on one event loop.                        *)
OneLoop == [t \in Tasks |-> CHOOSE loop \in Loops : TRUE]

VARIABLES
  content, edits,       (* content[d], edits[d]: of document d             *)
  pdfs,                 (* the artifact store                              *)
  seeded,               (* _seeded: the profile has been prepared          *)
  running, semaphores,  (* the limiter                                     *)
  pc, doc,              (* pc[t], doc[t]: where t is, for which document   *)
  hash,                 (* hash[t]: the hash t took of it                  *)
  child,                (* child[t]: the soffice t waits for               *)
  pdf,                  (* pdf[t]: the PDF in hand, or None                *)
  stored,               (* stored[t]: it was stored when t began (history) *)
  orphans               (* the soffice children that nobody waits for      *)

Store == INSTANCE ArtifactStore
  WITH Keys <- Contents, Values <- Contents, NoEntry <- None, entries <- pdfs
Limiter == INSTANCE SemaphoreLimiter

files == <<content, edits>>
limiter == <<running, semaphores>>
vars == <<files, pdfs, seeded, limiter, pc, doc, hash, child, pdf, stored, orphans>>

Init ==
  /\ content \in [Documents -> Contents]
  /\ edits = [d \in Documents |-> 0]
  /\ Store!Init
  /\ seeded = FALSE
  /\ Limiter!Init
  /\ pc = [t \in Tasks |-> "idle"]
  /\ doc \in [Tasks -> Documents]
  /\ hash = [t \in Tasks |-> None]
  /\ child = [t \in Tasks |-> "none"]
  /\ pdf = [t \in Tasks |-> None]
  /\ stored = [t \in Tasks |-> FALSE]
  /\ orphans = 0

Transition(t, from, to) ==
  /\ pc[t] = from
  /\ pc' = [pc EXCEPT ![t] = to]

(* Inside `async with limiter.limit(DOCUMENT_RENDER)`.                     *)
Converting == {"seeding", "launching", "converting", "reaping", "collecting"}

Edit(d, c) ==
  /\ edits[d] < MaxEdits
  /\ content[d] # c
  /\ EditsDuringCalls \/ \A t \in Tasks : pc[t] = "idle"
  /\ content' = [content EXCEPT ![d] = c]
  /\ edits' = [edits EXCEPT ![d] = @ + 1]
  /\ UNCHANGED <<pdfs, seeded, limiter, pc, doc, hash, child, pdf, stored, orphans>>

(* page_count, render_page, page_text: each begins with _pdf.              *)
Ask(t, d) ==
  /\ Transition(t, "idle", "hashing")
  /\ doc' = [doc EXCEPT ![t] = d]
  /\ stored' = [stored EXCEPT ![t] = Store!Get(content[d]) # None]
  /\ UNCHANGED <<files, pdfs, seeded, limiter, hash, child, pdf, orphans>>

Hash(t) ==
  /\ Transition(t, "hashing", "looking")
  /\ hash' = [hash EXCEPT ![t] = content[doc[t]]]
  /\ UNCHANGED <<files, pdfs, seeded, limiter, doc, child, pdf, stored, orphans>>

(* Mutant of LookUp: the store is asked with the slot held.                *)
LookUpInside(t) ==
  /\ Transition(t, "looking", "waiting")
  /\ UNCHANGED <<files, pdfs, seeded, limiter, doc, hash, child, pdf, stored, orphans>>

(* The store is consulted before the limiter is taken.                     *)
LookUp(t) ==
  LET found == Store!Get(hash[t])
  IN  /\ Transition(t, "looking", IF found = None THEN "waiting" ELSE "paging")
      /\ pdf' = [pdf EXCEPT ![t] = found]
      /\ UNCHANGED <<files, pdfs, seeded, limiter, doc, hash, child, stored, orphans>>

Acquire(t) ==
  /\ Transition(t, "waiting", IF seeded THEN "launching" ELSE "seeding")
  /\ Limiter!Acquire(LoopOf[t])
  /\ UNCHANGED <<files, pdfs, seeded, doc, hash, child, pdf, stored, orphans>>

(* _seed_profile: the flag is set once the profile is written.             *)
Seed(t) ==
  /\ Transition(t, "seeding", "launching")
  /\ seeded' = TRUE
  /\ UNCHANGED <<files, pdfs, limiter, doc, hash, child, pdf, stored, orphans>>

Launch(t) ==
  /\ Transition(t, "launching", "converting")
  /\ child' = [child EXCEPT ![t] = "running"]
  /\ UNCHANGED <<files, pdfs, seeded, limiter, doc, hash, pdf, stored, orphans>>

(* soffice reads the document, writes the PDF and exits with 0.            *)
Convert(t) ==
  /\ Transition(t, "converting", "collecting")
  /\ child' = [child EXCEPT ![t] = "none"]
  /\ pdf' = [pdf EXCEPT ![t] = content[doc[t]]]
  /\ UNCHANGED <<files, pdfs, seeded, limiter, doc, hash, stored, orphans>>

(* The PDF is read from the output directory, and the slot is given back.  *)
Collect(t) ==
  /\ Transition(t, "collecting", "keeping")
  /\ Limiter!Release(LoopOf[t])
  /\ UNCHANGED <<files, pdfs, seeded, doc, hash, child, pdf, stored, orphans>>

(* Mutant of KeyOf: the PDF is stored under something of its path.         *)
KeyOfPath(t) == CHOOSE c \in Contents : TRUE

KeyOf(t) == hash[t]

Keep(t) ==
  /\ Transition(t, "keeping", "paging")
  /\ Store!Put(KeyOf(t), pdf[t])
  /\ UNCHANGED <<files, seeded, limiter, doc, hash, child, pdf, stored, orphans>>

----------------------------------------------------------------------------
(* The ends of a call                                                      *)

Leave(t) ==
  /\ pc' = [pc EXCEPT ![t] = "idle"]
  /\ hash' = [hash EXCEPT ![t] = None]
  /\ pdf' = [pdf EXCEPT ![t] = None]
  /\ stored' = [stored EXCEPT ![t] = FALSE]
  /\ UNCHANGED <<files, pdfs, seeded, doc>>

(* Mutant of Released: the slot is given back by `_convert` as it returns, *)
(* and not when it raises.                                                 *)
ReleasedOnReturn(t) == UNCHANGED limiter

(* The slot of t, if it has one, is given back.                            *)
Released(t) ==
  IF pc[t] \in Converting THEN Limiter!Release(LoopOf[t]) ELSE UNCHANGED limiter

(* The page is rendered from the PDF in hand: the call has its answer.     *)
Page(t) ==
  /\ pc[t] = "paging"
  /\ Leave(t)
  /\ UNCHANGED <<limiter, child, orphans>>

(* Mutant of Timeout: the wait is given up, and the child is not.          *)
TimeoutOfWait(t) ==
  /\ pc[t] = "converting"
  /\ Leave(t)
  /\ Released(t)
  /\ UNCHANGED <<child, orphans>>

(* The deadline: the child is killed.                                      *)
Timeout(t) ==
  /\ Transition(t, "converting", "reaping")
  /\ child' = [child EXCEPT ![t] = "killed"]
  /\ UNCHANGED <<files, pdfs, seeded, limiter, doc, hash, pdf, stored, orphans>>

(* ... and waited for, before the call fails.                              *)
Reap(t) ==
  /\ pc[t] = "reaping"
  /\ Leave(t)
  /\ Released(t)
  /\ child' = [child EXCEPT ![t] = "none"]
  /\ UNCHANGED orphans

(* Something raises: the document or the profile cannot be read or         *)
(* written, soffice does not start, fails or writes nothing, there is no   *)
(* such page.                                                              *)
Fail(t) ==
  /\ pc[t] \notin {"idle", "waiting", "reaping"}
  /\ Leave(t)
  /\ Released(t)
  /\ child' = [child EXCEPT ![t] = "none"]
  /\ UNCHANGED orphans

(* The task is cancelled.  Nothing kills the soffice it waits for, and its *)
(* slot is free for another conversion all the same.  A thread that was    *)
(* writing the profile goes on, to what the next one writes again.         *)
Cancel(t) ==
  /\ pc[t] # "idle"
  /\ orphans' = orphans + (IF child[t] = "running" THEN 1 ELSE 0)
  /\ orphans' <= MaxOrphans
  /\ Leave(t)
  /\ Released(t)
  /\ child' = [child EXCEPT ![t] = "none"]

OrphanEnds ==
  /\ orphans > 0
  /\ orphans' = orphans - 1
  /\ UNCHANGED <<files, pdfs, seeded, limiter, pc, doc, hash, child, pdf, stored>>

(* An event loop is dropped, with the tasks that have not come to an end.  *)
LoopEnds(l) ==
  LET dropped == {t \in Tasks : LoopOf[t] = l}
  IN  /\ Limiter!EndLoop(l)
      /\ orphans' = orphans + Cardinality({t \in dropped : child[t] = "running"})
      /\ orphans' <= MaxOrphans
      /\ pc' = [t \in Tasks |-> IF t \in dropped THEN "idle" ELSE pc[t]]
      /\ hash' = [t \in Tasks |-> IF t \in dropped THEN None ELSE hash[t]]
      /\ child' = [t \in Tasks |-> IF t \in dropped THEN "none" ELSE child[t]]
      /\ pdf' = [t \in Tasks |-> IF t \in dropped THEN None ELSE pdf[t]]
      /\ stored' = [t \in Tasks |-> IF t \in dropped THEN FALSE ELSE stored[t]]
      /\ UNCHANGED <<files, pdfs, seeded, doc>>

Step(t) ==
  \/ Hash(t) \/ LookUp(t) \/ Seed(t) \/ Launch(t) \/ Collect(t) \/ Keep(t) \/ Page(t)
  \/ Timeout(t) \/ Reap(t)

Next ==
  \/ \E d \in Documents, c \in Contents : Edit(d, c)
  \/ \E t \in Tasks, d \in Documents : Ask(t, d)
  \/ \E t \in Tasks : Acquire(t) \/ Step(t) \/ Convert(t) \/ Fail(t) \/ Cancel(t)
  \/ OrphanEnds
  \/ \E l \in Loops : LoopEnds(l)

Spec == Init /\ [][Next]_vars

(* asyncio.Semaphore wakes its waiters in the order they came; a thread    *)
(* ends, a deadline passes and a killed child dies.  soffice need not end. *)
FairSpec ==
  Spec /\ \A t \in Tasks : SF_vars(Acquire(t)) /\ WF_vars(Step(t))

----------------------------------------------------------------------------
(* Properties                                                              *)

(* The free slots of a loop and the calls on it that hold one make up the  *)
(* limit: no failure, cancellation or loop that died takes a slot with it, *)
(* and none gives one back twice.  It is a count of calls, and of soffice  *)
(* processes only when no call was cancelled: the one that a cancelled     *)
(* call leaves runs on, and the next call, with its slot, starts another   *)
(* on the same profile, which the words of semaphore_limiter.py:29-33 rule *)
(* out.                                                                    *)
SlotsCounted ==
  \A l \in Loops :
    Limiter!Semaphore(l).free
      + Cardinality({t \in Tasks : LoopOf[t] = l /\ pc[t] \in Converting}) = Slots

(* A call that is over, unless it was cancelled, leaves no soffice behind, *)
(* and one under way waits for its own: "Kill AND reap"                    *)
(* (soffice_renderer.py:335-338).                                          *)
ChildrenClaimed ==
  \A t \in Tasks :
    /\ child[t] = "running" <=> pc[t] = "converting"
    /\ child[t] = "killed" <=> pc[t] = "reaping"

(* While no document changes under a call, a PDF in the store is of the    *)
(* content its key names, and the one a page comes from is of the document *)
(* as it is.                                                               *)
PdfsCurrent ==
  /\ \A c \in Contents : pdfs[c] \in {None, c}
  /\ \A t \in Tasks : pc[t] \in {"collecting", "keeping", "paging"} =>
       pdf[t] = content[doc[t]]

(* A document whose PDF was stored when the call began is not converted    *)
(* again, and the call does not queue behind another document's conversion *)
(* (soffice_renderer.py:244-247).                                          *)
StoredIsEnough ==
  \A t \in Tasks : stored[t] => pc[t] \notin Converting \cup {"waiting", "keeping"}

(* Every call comes to an end, though soffice may hang for ever: "a        *)
(* perception must never block forever" (soffice_renderer.py:46-48).       *)
CallsEnd == \A t \in Tasks : pc[t] # "idle" ~> pc[t] = "idle"

=============================================================================
