----------------------- MODULE FsArtifactStoreProofs -----------------------
(***************************************************************************)
(* FsArtifactStore, for any keys, values, workers and files: what a `get`  *)
(* reads is always whole, an entry is replaced by rivals only, and while   *)
(* rivals agree the directory implements the dictionary of ArtifactStore.  *)
(*                                                                         *)
(* WholeHits is not inductive.  It needs that a put still holds a value    *)
(* its key may yield, and that the temporary file it writes is nobody      *)
(* else's: no entry, no handle and no other put names it.                  *)
(***************************************************************************)
EXTENDS FsArtifactStore, TLAPS

(* The puts that have a temporary file.                                    *)
Holding(w) == pc[w] \in {"writing", "replacing"}

(* A put under way still means to store a value of its key.                *)
ValueInv ==
  \A w \in Workers : pc[w] \in PutStates => value[w] \in Candidates[key[w]]

(* A temporary file belongs to one put and is no entry.                    *)
PrivateInv ==
  \A w \in Workers : Holding(w) =>
    /\ file[w] \in Files
    /\ \A k \in Keys : link[k] # file[w]
    /\ \A v \in Workers : v # w => file[v] # file[w]

(* It is truncated until it is written, and then it is complete.           *)
ContentInv ==
  \A w \in Workers :
    /\ pc[w] = "writing"   => bytes[file[w]] = Truncated
    /\ pc[w] = "replacing" => bytes[file[w]] = value[w]

(* Only a worker that has a file or a handle names one.                    *)
HandleInv ==
  \A w \in Workers :
    /\ pc[w] = "reading" => file[w] \in Files
    /\ pc[w] \in {"idle", "checking", "opening"} => file[w] = NoFile

Inv == TypeOK /\ ValueInv /\ PrivateInv /\ ContentInv /\ HandleInv /\ WholeHits

LEMMA InitInv == Init => Inv
  BY StoreAssumption
     DEF Init, Inv, TypeOK, ValueInv, PrivateInv, ContentInv, HandleInv,
         WholeHits, Holding, PutStates

(* What a key may derive is a value, so it is neither the mark of a miss   *)
(* nor that of a file being written.                                       *)
LEMMA CandidatesAreValues ==
  ASSUME NEW k \in Keys
  PROVE  /\ Candidates[k] \subseteq Values
         /\ NoEntry \notin Candidates[k]
         /\ Truncated \notin Candidates[k]
  BY StoreAssumption

(* Every step of a worker, and a crash, preserves the invariant.           *)
LEMMA NextInv == Inv /\ [Next]_vars => Inv'
<1> SUFFICES ASSUME Inv, [Next]_vars PROVE Inv'
  OBVIOUS
<1> USE StoreAssumption, CandidatesAreValues
<1> USE DEF Inv, TypeOK, ValueInv, PrivateInv, ContentInv, HandleInv,
            WholeHits, Hit, Holding, PutStates
<1>1. ASSUME NEW w \in Workers, NEW k \in Keys, NEW v \in Candidates[k],
             StartPut(w, k, v)
      PROVE  Inv'
  BY <1>1 DEF StartPut, Transition
<1>2. ASSUME NEW w \in Workers, FindEntry(w) PROVE Inv'
  BY <1>2 DEF FindEntry, Return
<1>3. ASSUME NEW w \in Workers, MissEntry(w) PROVE Inv'
  BY <1>3 DEF MissEntry, Transition
<1>4. ASSUME NEW w \in Workers, OpenTemporary(w) PROVE Inv'
  <2>1. PICK f \in Unused : /\ file'  = [file EXCEPT ![w] = f]
                            /\ bytes' = [bytes EXCEPT ![f] = Truncated]
    BY <1>4 DEF OpenTemporary
  <2>2. f \in Files /\ bytes[f] = NoEntry
    BY DEF Unused
  <2>3. /\ \A k \in Keys : link[k] # f
        /\ \A v \in Workers : file[v] # f
    BY <2>2
  <2>4. QED
    BY <1>4, <2>1, <2>2, <2>3 DEF OpenTemporary, Transition
<1>5. ASSUME NEW w \in Workers, WriteTemporary(w) PROVE Inv'
  BY <1>5 DEF WriteTemporary, Transition
<1>6. ASSUME NEW w \in Workers, FailWrite(w) PROVE Inv'
  BY <1>6 DEF FailWrite, Return
<1>7. ASSUME NEW w \in Workers, Replace(w) PROVE Inv'
  BY <1>7 DEF Replace, Return
<1>8. ASSUME NEW w \in Workers, NEW k \in Keys, OpenEntry(w, k) PROVE Inv'
  BY <1>8 DEF OpenEntry, Transition
<1>9. ASSUME NEW w \in Workers, ReadEntry(w) PROVE Inv'
  BY <1>9 DEF ReadEntry, Return
<1>10. ASSUME NEW dead \in SUBSET Workers, Crash(dead) PROVE Inv'
  BY <1>10 DEF Crash
<1>11. CASE UNCHANGED vars
  BY <1>11 DEF vars
<1>12. QED
  BY <1>1, <1>2, <1>3, <1>4, <1>5, <1>6, <1>7, <1>8, <1>9, <1>10, <1>11
     DEF Next, PutStep

THEOREM Invariance == Spec => []Inv
  BY InitInv, NextInv, PTL DEF Spec

(* A `get` never answers with a truncated artifact or another key's.       *)
THEOREM WholeHitsAlways == Spec => []WholeHits
  BY Invariance, PTL DEF Inv

----------------------------------------------------------------------------
(* First-writer-wins, as far as it goes.  A put that met an entry is still *)
(* to look for it or has none to store, and what it met is still there:    *)
(* an entry is never withdrawn, so a put that met one will find one.       *)
FirstInv ==
  \A w \in Workers :
    /\ PastCheck(w) => met[w] = NoFile
    /\ pc[w] = "checking" /\ met[w] # NoFile => link[key[w]] # NoFile

LEMMA NextFirstInv == Inv /\ FirstInv /\ [Next]_vars => FirstInv'
<1> SUFFICES ASSUME Inv, FirstInv, [Next]_vars PROVE FirstInv'
  OBVIOUS
<1> USE DEF FirstInv, PastCheck
<1>t. TypeOK
  BY DEF Inv
<1>1. ASSUME NEW w \in Workers, NEW k \in Keys, NEW v \in Candidates[k],
             StartPut(w, k, v)
      PROVE  FirstInv'
  BY <1>1, <1>t DEF StartPut, Transition, TypeOK
<1>2. ASSUME NEW w \in Workers, FindEntry(w) PROVE FirstInv'
  BY <1>2, <1>t DEF FindEntry, Return, TypeOK
<1>3. ASSUME NEW w \in Workers, MissEntry(w) PROVE FirstInv'
  BY <1>3, <1>t DEF MissEntry, Transition, TypeOK
<1>4. ASSUME NEW w \in Workers, OpenTemporary(w) PROVE FirstInv'
  BY <1>4, <1>t DEF OpenTemporary, Transition, TypeOK
<1>5. ASSUME NEW w \in Workers, WriteTemporary(w) PROVE FirstInv'
  BY <1>5, <1>t DEF WriteTemporary, Transition, TypeOK
<1>6. ASSUME NEW w \in Workers, FailWrite(w) PROVE FirstInv'
  BY <1>6, <1>t DEF FailWrite, Return, TypeOK
<1>7. ASSUME NEW w \in Workers, Replace(w) PROVE FirstInv'
  <2>1. file[w] # NoFile
    BY <1>7, StoreAssumption DEF Replace, Inv, PrivateInv, Holding
  <2>2. QED
    BY <1>7, <1>t, <2>1 DEF Replace, Return, TypeOK
<1>8. ASSUME NEW w \in Workers, NEW k \in Keys, OpenEntry(w, k) PROVE FirstInv'
  BY <1>8, <1>t DEF OpenEntry, Transition, TypeOK
<1>9. ASSUME NEW w \in Workers, ReadEntry(w) PROVE FirstInv'
  BY <1>9, <1>t DEF ReadEntry, Return, TypeOK
<1>10. ASSUME NEW dead \in SUBSET Workers, Crash(dead) PROVE FirstInv'
  BY <1>10, <1>t DEF Crash, TypeOK
<1>11. CASE UNCHANGED vars
  BY <1>11 DEF vars
<1>12. QED
  BY <1>1, <1>2, <1>3, <1>4, <1>5, <1>6, <1>7, <1>8, <1>9, <1>10, <1>11
     DEF Next, PutStep

(* Only the rename of a put past its check touches an entry.               *)
LEMMA OnlyRivalsReplace ==
  Inv /\ FirstInv /\ [Next]_vars =>
    [\A k \in Keys : link[k] # NoFile /\ link'[k] # link[k] =>
       \E w \in Workers : IsRival(w, k) /\ link'[k] = file[w]]_vars
<1> SUFFICES ASSUME Inv, FirstInv, [Next]_vars,
                    NEW k \in Keys, link'[k] # link[k]
             PROVE  \E w \in Workers : IsRival(w, k) /\ link'[k] = file[w]
  OBVIOUS
<1>1. link' # link
  OBVIOUS
<1>2. PICK w \in Workers : Replace(w)
  BY <1>1 DEF Next, vars, PutStep, StartPut, FindEntry, MissEntry, OpenTemporary,
              WriteTemporary, FailWrite, OpenEntry, ReadEntry, Crash
<1>3. link' = [link EXCEPT ![key[w]] = file[w]] /\ pc[w] = "replacing"
  BY <1>2 DEF Replace
<1>4. key[w] = k /\ link'[k] = file[w]
  BY <1>3 DEF Inv, TypeOK
<1>5. met[w] = NoFile
  BY <1>3 DEF FirstInv, PastCheck
<1>6. QED
  BY <1>3, <1>4, <1>5 DEF IsRival

(* An entry is withdrawn by nobody, and replaced by rivals only.           *)
THEOREM FirstStaysAlways == Spec => FirstStays
<1>1. Init => FirstInv
  BY DEF Init, FirstInv, PastCheck
<1>2. QED
  BY <1>1, NextFirstInv, OnlyRivalsReplace, Invariance, PTL DEF Spec, FirstStays

----------------------------------------------------------------------------
(* The refinement: Replace is the put of the abstract store, and every     *)
(* other step is invisible to it.                                          *)

(* While rivals agree, what a put past its check is to store is what its   *)
(* entry holds, if a rival was faster.                                     *)
RivalsInv ==
  \A w \in Workers :
    PastCheck(w) /\ link[key[w]] # NoFile => bytes[link[key[w]]] = value[w]

(* The bytes of an entry change under nobody's hands.                      *)
LEMMA StoredUnchanged ==
  ASSUME Inv, UNCHANGED link,
         \A k \in Keys : link[k] # NoFile => bytes'[link[k]] = bytes[link[k]]
  PROVE  UNCHANGED Stored
  BY DEF Stored

LEMMA EntriesKeepTheirBytes ==
  ASSUME Inv, NEW w \in Workers, OpenTemporary(w) \/ WriteTemporary(w)
  PROVE  \A k \in Keys : link[k] # NoFile => bytes'[link[k]] = bytes[link[k]]
<1>1. CASE OpenTemporary(w)
  <2>1. PICK f \in Unused : bytes' = [bytes EXCEPT ![f] = Truncated]
    BY <1>1 DEF OpenTemporary
  <2>2. \A k \in Keys : link[k] # NoFile => link[k] # f
    BY <2>1, CandidatesAreValues DEF Unused, Inv, WholeHits
  <2>3. QED
    BY <2>1, <2>2 DEF Inv, TypeOK
<1>2. CASE WriteTemporary(w)
  <2>1. \A k \in Keys : link[k] # file[w]
    BY <1>2 DEF WriteTemporary, Transition, Inv, PrivateInv, Holding
  <2>2. QED
    BY <1>2, <2>1 DEF WriteTemporary, Inv, TypeOK
<1>3. QED
  BY <1>1, <1>2

LEMMA NextRivalsInv == Inv /\ Agreeing /\ RivalsInv /\ [Next]_vars => RivalsInv'
<1> SUFFICES ASSUME Inv, Agreeing, RivalsInv, [Next]_vars PROVE RivalsInv'
  OBVIOUS
<1> USE DEF RivalsInv, PastCheck
<1>t. TypeOK
  BY DEF Inv
<1>1. ASSUME NEW w \in Workers, NEW k \in Keys, NEW v \in Candidates[k],
             StartPut(w, k, v)
      PROVE  RivalsInv'
  BY <1>1, <1>t DEF StartPut, Transition, TypeOK
<1>2. ASSUME NEW w \in Workers, FindEntry(w) \/ FailWrite(w) \/ ReadEntry(w)
      PROVE  RivalsInv'
  BY <1>2, <1>t DEF FindEntry, FailWrite, ReadEntry, Return, TypeOK
<1>3. ASSUME NEW w \in Workers, MissEntry(w) PROVE RivalsInv'
  BY <1>3, <1>t DEF MissEntry, Transition, TypeOK
<1>4. ASSUME NEW w \in Workers, OpenTemporary(w) \/ WriteTemporary(w)
      PROVE  RivalsInv'
  <2>1. \A k \in Keys : link[k] # NoFile => bytes'[link[k]] = bytes[link[k]]
    BY <1>4, EntriesKeepTheirBytes
  <2>2. /\ link' = link /\ key' = key /\ value' = value
        /\ PastCheck(w)
        /\ \A v \in Workers : v # w => pc'[v] = pc[v]
    BY <1>4, <1>t DEF OpenTemporary, WriteTemporary, Transition, TypeOK
  <2>3. \A v \in Workers : key[v] \in Keys
    BY <1>t DEF TypeOK
  <2>4. QED
    BY <2>1, <2>2, <2>3
<1>5. ASSUME NEW w \in Workers, Replace(w) PROVE RivalsInv'
  <2>1. /\ bytes[file[w]] = value[w] /\ PastCheck(w)
        /\ bytes' = bytes /\ key' = key
        /\ link' = [link EXCEPT ![key[w]] = file[w]]
    BY <1>5 DEF Replace, Inv, ContentInv
  <2>2. SUFFICES ASSUME NEW v \in Workers, PastCheck(v)',
                        link'[key'[v]] # NoFile
                 PROVE  bytes'[link'[key'[v]]] = value'[v]
    OBVIOUS
  <2>3. v # w /\ PastCheck(v) /\ value'[v] = value[v] /\ key[v] \in Keys
    BY <1>5, <1>t, <2>2 DEF Replace, Return, TypeOK
  <2>4. CASE key[v] = key[w]
    <3>1. value[v] = value[w]
      BY <2>1, <2>3, <2>4 DEF Agreeing
    <3>2. QED
      BY <1>t, <2>1, <2>3, <2>4, <3>1 DEF TypeOK
  <2>5. CASE key[v] # key[w]
    <3>1. link'[key[v]] = link[key[v]]
      BY <1>t, <2>1, <2>3, <2>5 DEF TypeOK
    <3>2. QED
      BY <2>1, <2>2, <2>3, <3>1
  <2>6. QED
    BY <2>4, <2>5
<1>6. ASSUME NEW w \in Workers, NEW k \in Keys, OpenEntry(w, k) PROVE RivalsInv'
  BY <1>6, <1>t DEF OpenEntry, Transition, TypeOK
<1>7. ASSUME NEW dead \in SUBSET Workers, Crash(dead) PROVE RivalsInv'
  BY <1>7, <1>t DEF Crash, TypeOK
<1>8. CASE UNCHANGED vars
  BY <1>8 DEF vars
<1>9. QED
  BY <1>1, <1>2, <1>3, <1>4, <1>5, <1>6, <1>7, <1>8 DEF Next, PutStep

(* A put that publishes over an entry publishes what is there already.     *)
LEMMA ReplaceIsPut ==
  ASSUME Inv, RivalsInv, NEW w \in Workers, Replace(w)
  PROVE  Abstract!Put(key[w], value[w]) /\ value[w] \in Values
<1> DEFINE k0 == key[w]
<1>1. /\ k0 \in Keys /\ value[w] \in Candidates[k0]
      /\ file[w] \in Files /\ bytes[file[w]] = value[w]
  BY DEF Replace, Inv, TypeOK, ValueInv, PrivateInv, ContentInv, Holding, PutStates
<1>2. /\ link' = [link EXCEPT ![k0] = file[w]]
      /\ bytes' = bytes
      /\ link \in [Keys -> Files \cup {NoFile}]
  BY DEF Replace, Inv, TypeOK
<1>3. file[w] # NoFile
  BY <1>1, StoreAssumption
<1>4. Stored[k0] # NoEntry => Stored[k0] = value[w]
  BY <1>1 DEF Stored, RivalsInv, PastCheck, Replace
<1>5. Stored' = [Stored EXCEPT ![k0] = value[w]]
  BY <1>1, <1>2, <1>3 DEF Stored
<1>6. Stored' = [Stored EXCEPT ![k0] =
                   IF Stored[k0] = NoEntry THEN value[w] ELSE Stored[k0]]
  BY <1>1, <1>4, <1>5
<1>7. value[w] \in Values
  BY <1>1, CandidatesAreValues
<1>8. QED
  BY <1>6, <1>7 DEF Abstract!Put

LEMMA StepRefines == Inv /\ RivalsInv /\ [Next]_vars => [Abstract!Next]_Stored
<1> SUFFICES ASSUME Inv, RivalsInv, [Next]_vars PROVE [Abstract!Next]_Stored
  OBVIOUS
<1>1. ASSUME NEW w \in Workers, Replace(w) PROVE Abstract!Next
  <2>1. key[w] \in Keys
    BY DEF Inv, TypeOK
  <2>2. QED
    BY <1>1, <2>1, ReplaceIsPut DEF Abstract!Next
<1>2. ASSUME NEW w \in Workers, OpenTemporary(w) \/ WriteTemporary(w)
      PROVE  UNCHANGED Stored
  BY <1>2, EntriesKeepTheirBytes, StoredUnchanged DEF OpenTemporary, WriteTemporary
<1>3. CASE UNCHANGED <<link, bytes>>
  BY <1>3, StoredUnchanged
<1>4. ASSUME NEW w \in Workers, PutStep(w) PROVE [Abstract!Next]_Stored
  BY <1>1, <1>2, <1>3, <1>4 DEF PutStep, FindEntry, MissEntry, FailWrite
<1>5. QED
  BY <1>3, <1>4 DEF Next, vars, StartPut, OpenEntry, ReadEntry, Crash

(* The directory implements the store, whatever the keys may yield, as     *)
(* long as no two puts past their check bring one key different values.    *)
THEOREM Refinement == Spec /\ []Agreeing => ImplementsStore
<1>1. Init => Abstract!Init
  BY DEF Init, Abstract!Init, Stored
<1>2. Init => RivalsInv
  BY DEF Init, RivalsInv, PastCheck
<1>3. QED
  BY <1>1, <1>2, NextRivalsInv, StepRefines, Invariance, PTL
     DEF Spec, ImplementsStore, Abstract!Spec

============================================================================
