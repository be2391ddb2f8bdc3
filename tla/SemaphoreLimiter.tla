-------------------------- MODULE SemaphoreLimiter --------------------------
(***************************************************************************)
(* SemaphoreLimiter (adapters/semaphore_limiter.py), for one configured    *)
(* capability: a semaphore for each event loop, made when a task of the    *)
(* loop first asks for it, and found again by the id of the loop.          *)
(*                                                                         *)
(* An id is used again once its loop is dead; the weak reference kept      *)
(* beside the semaphore tells the new loop from the old.                   *)
(***************************************************************************)
EXTENDS Naturals

CONSTANTS
  Loops,      (* the ids of event loops                                    *)
  Slots,      (* the limit of the capability                               *)
  MaxLoops,   (* loops that die and leave their id: bounds the model       *)
  None

VARIABLES
  running,    (* running[l]: how many loops have had the id l before       *)
  semaphores  (* semaphores[l]: the loop it is of and its value, or None   *)

Init ==
  /\ running = [l \in Loops |-> 0]
  /\ semaphores = [l \in Loops |-> None]

Fresh(l) == [of |-> running[l], free |-> Slots]

(* Mutant of Semaphore: the id alone says whose the semaphore is.          *)
SemaphoreOfId(l) == IF semaphores[l] = None THEN Fresh(l) ELSE semaphores[l]

(* The semaphore a task that runs on l is given.                           *)
Semaphore(l) ==
  IF semaphores[l] # None /\ semaphores[l].of = running[l]
  THEN semaphores[l] ELSE Fresh(l)

Acquire(l) ==
  LET s == Semaphore(l)
  IN  /\ s.free > 0
      /\ semaphores' = [semaphores EXCEPT ![l] = [of |-> s.of, free |-> s.free - 1]]
      /\ UNCHANGED running

(* The way out of `async with semaphore`, by whatever exception.           *)
Release(l) ==
  LET s == semaphores[l]
  IN  /\ semaphores' = [semaphores EXCEPT ![l] = [of |-> s.of, free |-> s.free + 1]]
      /\ UNCHANGED running

(* The loop is dropped with the tasks that run on it, and its id is free.  *)
EndLoop(l) ==
  /\ running[l] < MaxLoops
  /\ running' = [running EXCEPT ![l] = @ + 1]
  /\ UNCHANGED semaphores

=============================================================================
