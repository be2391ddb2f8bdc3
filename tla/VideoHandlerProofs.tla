------------------------- MODULE VideoHandlerProofs -------------------------
(***************************************************************************)
(* What a read of a video owes to the slots, to its observer and to its    *)
(* caller, for any handlers, videos, words, cuts, budgets and limits.      *)
(*                                                                         *)
(* The first half, up to FailuresAreTold, counts.  How long a timeline is   *)
(* and in what order its entries come plays no part there: a read that has *)
(* laid one out has some set of moments, and all there is to count grows   *)
(* from nothing, one moment at a time.                                     *)
(*                                                                         *)
(* The second half is about that timeline.  A place of the merged entries  *)
(* has a span (Spans) and, once all moments have ended, characters (The    *)
(* text of a timeline); a cut keeps the places it reaches.  What a read    *)
(* renders is then a matter of places alone.                               *)
(***************************************************************************)
EXTENDS VideoHandler, SequenceLemmas, FiniteSetTheorems

Before == {"locating", "probing", "captioning", "extracting", "transcribing"}
Phases == {"idle", "fetching", "cutting"} \cup Before
Underway == {"decode", "decoding", "describe", "describing"}

Decoding == {i \in DOMAIN moment : moment[i] = "decoding"}
Describing == {i \in DOMAIN moment : moment[i] = "describing"}
Ending == {i \in DOMAIN moment : moment[i] \in Outcomes}
Watching == IF asking = "at the model" THEN 1 ELSE 0

(* Where the read and its moments are.  Before there is a timeline there   *)
(* are no moments, and when the fetch is over none is under way.  Only a   *)
(* fetch goes on after a cancellation.                                     *)
ReadInv ==
  /\ pc \in Phases /\ cancelled \in BOOLEAN
  /\ \A i \in DOMAIN moment : moment[i] \in Underway \cup Outcomes \cup {"stopped"}
  /\ pc \in Before => DOMAIN moment = {}
  /\ pc # "fetching" => Ended
  /\ pc \notin {"idle", "fetching"} => ~Stopping
  /\ pc = "idle" /\ cancelled => result = Raised

(* There is one loop, that never dies.                                     *)
Semaphores == [{Loop} -> [of : {0}, free : Nat] \cup {None}]

SlotsInv ==
  /\ ffmpeg \in Semaphores /\ vision \in Semaphores
  /\ IsFiniteSet(Decoding) /\ IsFiniteSet(Describing)
  /\ SlotsCounted

(* What has been told when n - 1 of the moments have an outcome: as many   *)
(* as do, until the read is over.                                          *)
Narration(n, total) ==
  [k \in 1 .. n |-> IF k = 1 THEN Started ELSE Progressed(k - 1, total)]

Total == Cardinality(DOMAIN moment)

NarrationInv ==
  /\ IsFiniteSet(Ending)
  /\ pc # "idle" => events = Narration(1 + Cardinality(Ending), Total)
  /\ pc = "idle" =>
       \/ events = <<>>
       \/ \E n \in Nat \ {0} : events = Append(Narration(n, Total), Finished)

(* What the way to the words has to tell.  A failure on it is told of from *)
(* the step it happens in, and there is none before the captions are read. *)
WordReports ==
  {Report(what) : what \in {"captions not read", "caption extraction failed",
                            "audio track unavailable", "caption cues outside the file",
                            "spoken cues outside the file",
                            "no speech detected", "transcription failed"}}

ReportsInv ==
  /\ reports \in Seq(WordReports)
  /\ pc # "idle" => \A what \in failures \ Untold : Report(what) \in ToSet(reports)
  /\ pc \in {"locating", "probing", "captioning"} => failures = {}
  /\ FailuresTold

----------------------------------------------------------------------------
(* What a step does to the read, whatever it finds in the file             *)

Aside == UNCHANGED <<handler, limiter, budget, moment, cancelled, asking>>

(* It goes on, before there is a timeline or to the fetch of its moments,  *)
(* all of them yet to be decoded ...                                       *)
FindsOut ==
  /\ pc \in Before
  /\ UNCHANGED <<handler, limiter, budget, cancelled, events, result, asking>>
  /\ \/ pc' \in Before /\ moment' = moment
     \/ pc' = "fetching" /\ \A i \in DOMAIN moment' : moment'[i] = "decode"

(* ... or it returns, but for the fetch, which only Gather ends.           *)
Concludes ==
  /\ pc \in Before \cup {"cutting"}
  /\ pc' = "idle" /\ events' = Append(events, Finished)
  /\ Aside

LEMMA FetchFindsOut ==
  ASSUME NEW video, NEW said, Fetch(video, said)
  PROVE  /\ pc' = "fetching" /\ UNCHANGED <<result, events>>
         /\ \A i \in DOMAIN moment' : moment'[i] = "decode"
  BY DEF Fetch, GoOn

LEMMA ListenFindsOut ==
  ASSUME NEW video, NEW told, NEW failed, pc \in Before, Listen(video, told, failed),
         UNCHANGED <<handler, limiter, budget, cancelled, asking>>
  PROVE  FindsOut
<1>1. CASE GoOn("extracting") /\ UNCHANGED <<laidOut, moment>>
  BY <1>1 DEF FindsOut, GoOn, Before
<1>2. CASE Fetch(video, <<>>)
  BY <1>2, FetchFindsOut DEF FindsOut
<1>3. QED
  BY <1>1, <1>2 DEF Listen

LEMMA PortSteps == Port => FindsOut \/ Concludes \/ Gather
<1> SUFFICES ASSUME Port PROVE FindsOut \/ Concludes \/ Gather
  OBVIOUS
<1>1. ASSUME Locate \/ ExtractAudio PROVE FindsOut
  BY <1>1 DEF Locate, ExtractAudio, GoOn, FindsOut, Before
<1>2. ASSUME Unreadable PROVE Concludes
  BY <1>2 DEF Unreadable, Over, Concludes, Before, Aside
<1>3. ASSUME NEW v \in Videos, ProbeTimeline(v) PROVE FindsOut
  <2>1. /\ pc \in Before
        /\ UNCHANGED <<handler, limiter, budget, cancelled, asking>>
    BY <1>3 DEF ProbeTimeline, Before
  <2>2. CASE GoOn("captioning") /\ UNCHANGED <<laidOut, reports, moment>>
    BY <2>1, <2>2 DEF GoOn, FindsOut, Before
  <2>3. CASE \/ Listen(v, <<>>, {})
             \/ Listen(v, <<Report("captions not read")>>, {"captions not read"})
    BY <2>1, <2>3, ListenFindsOut
  <2>4. QED
    BY <1>3, <2>2, <2>3 DEF ProbeTimeline
<1>4. ASSUME NEW v \in Videos, ProbeNoTimeline(v) PROVE Concludes
  BY <1>4 DEF ProbeNoTimeline, Over, Concludes, Before, Aside
<1>5. ASSUME NEW l \in CueLists, Captions(l) PROVE FindsOut
  <2>1. /\ pc \in Before
        /\ UNCHANGED <<handler, limiter, budget, cancelled, asking>>
    BY <1>5 DEF Captions, Before
  <2>2. CASE Fetch(facts, Heard(l, "captioned"))
    BY <2>1, <2>2, FetchFindsOut DEF FindsOut
  <2>3. CASE Listen(facts, <<>>, failures \cup {NoCaptions(l)})
    BY <2>1, <2>3, ListenFindsOut
  <2>4. QED
    BY <1>5, <2>2, <2>3 DEF Captions
<1>6. ASSUME NEW l \in CueLists, Transcribe(l) PROVE FindsOut
  <2>1. Fetch(facts, Heard(l, "said"))
    BY <1>6 DEF Transcribe
  <2>2. QED
    BY <1>6, <2>1, FetchFindsOut DEF Transcribe, FindsOut, Before
<1>7. ASSUME CaptionsFail PROVE FindsOut
  <2>1. /\ pc \in Before
        /\ Listen(facts, <<Report("caption extraction failed")>>,
                  failures \cup {"caption extraction failed"})
        /\ UNCHANGED <<handler, limiter, budget, cancelled, asking>>
    BY <1>7 DEF CaptionsFail, Before
  <2>2. QED
    BY <2>1, ListenFindsOut
<1>8. ASSUME NEW at \in {"extracting", "transcribing"}, NEW what, NoSpeech(at, what)
      PROVE  FindsOut
  BY <1>8, FetchFindsOut DEF NoSpeech, FindsOut, Before
<1>9. ASSUME NEW cuts \in CutSets, Detect(cuts) PROVE Concludes
  BY <1>9 DEF Detect, Over, Concludes, Aside
<1>10. ASSUME DetectFails PROVE Concludes
  BY <1>10 DEF DetectFails, Over, Concludes, Aside
<1>11. QED
  BY <1>1, <1>2, <1>3, <1>4, <1>5, <1>6, <1>7, <1>8, <1>9, <1>10 DEF Port

(* A moment goes on, or is stopped.                                        *)
Goes(i) ==
  /\ pc = "fetching" /\ i \in DOMAIN moment
  /\ moment[i] \in Underway
  /\ UNCHANGED <<handler, pc, budget, words, cancelled, result, asking>>
  /\ \E to \in Underway \cup Outcomes \cup {"stopped"} :
       /\ moment' = [moment EXCEPT ![i] = to]
       /\ to # "stopped" => ~cancelled
       /\ events' = IF to \in Outcomes
                    THEN Append(events, Progressed(Done(moment'), Cardinality(DOMAIN moment)))
                    ELSE events

LEMMA MomentSteps ==
  ASSUME ReadInv, NEW i \in DOMAIN moment, Acquire(i) \/ Moment(i) \/ StopItself(i)
  PROVE  Goes(i)
<1> USE DEF Underway
<1>1. ASSUME NEW from \in Underway, NEW to \in Underway \cup Outcomes, Advance(i, from, to)
      PROVE  Goes(i)
  <2>1. to # "stopped"
    BY DEF Outcomes
  <2>2. QED
    BY <1>1, <2>1 DEF Advance, Goes
<1>2. ASSUME pc = "fetching", Stop(i) PROVE Goes(i)
  <2>1. moment[i] \in Underway /\ "stopped" \notin Outcomes
    BY <1>2 DEF Stop, ReadInv, Outcomes
  <2>2. QED
    BY <1>2, <2>1 DEF Stop, Goes
<1>3. CASE Acquire(i)
  BY <1>1, <1>3 DEF Acquire, AcquireFfmpeg, AcquireVision
<1>4. CASE Decoded(i)
  BY <1>1, <1>4 DEF Decoded, Outcomes
<1>5. CASE NoFrame(i) \/ Described(i)
  BY <1>1, <1>5 DEF NoFrame, Described, Outcomes
<1>6. CASE StopCancelled(i) \/ StopItself(i)
  BY <1>2, <1>6 DEF StopCancelled, StopItself
<1>7. QED
  BY <1>3, <1>4, <1>5, <1>6 DEF Moment

LEMMA Asks ==
  ASSUME Affordance \/ AcquireForAffordance \/ Answer
  PROVE  UNCHANGED read
  BY DEF Affordance, AskFrame, AnswerFrame, AskAbout, AskWatch, GiveUpWaiting,
         AcquireForAffordance, Answer, Asking

----------------------------------------------------------------------------
(* The read                                                                *)

LEMMA NoMoments == DOMAIN <<>> = {}
  OBVIOUS

LEMMA InitRead == Init => ReadInv
  BY NoMoments DEF Init, ReadInv, Phases, Before, Ended, Stopping

LEMMA NextRead == ReadInv /\ [Next]_vars => ReadInv'
<1> SUFFICES ASSUME ReadInv, [Next]_vars PROVE ReadInv'
  OBVIOUS
<1> USE DEF Phases, Before, Ended, Stopping
<1>1. ASSUME NEW b \in Budgets, Represent(b) PROVE ReadInv'
  BY <1>1, NoMoments DEF Represent, ReadInv
<1>2. ASSUME FindsOut PROVE ReadInv'
  BY <1>2 DEF FindsOut, ReadInv, Underway
<1>3. ASSUME Concludes PROVE ReadInv'
  BY <1>3 DEF Concludes, Aside, ReadInv
<1>4. ASSUME Gather PROVE ReadInv'
  BY <1>4 DEF Gather, Over, GoOn, ReadInv
<1>5. ASSUME NEW i \in DOMAIN moment, Goes(i) PROVE ReadInv'
  BY <1>5 DEF Goes, ReadInv
<1>6. ASSUME Cancel PROVE ReadInv'
  BY <1>6 DEF Cancel, Over, GoOn, ReadInv
<1>7. ASSUME UNCHANGED read PROVE ReadInv'
  BY <1>7 DEF read, ReadInv
<1>8. QED
  BY <1>1, <1>2, <1>3, <1>4, <1>5, <1>6, <1>7, PortSteps, MomentSteps, Asks
     DEF Next, vars

(* A cancellation, of the read or of one of its moments, is never read as  *)
(* an answer: the read is stopped from then on, until it has raised.       *)
THEOREM CancellationsRaise == Spec => StopsAreStops
<1> DEFINE Keeps == /\ Stopping => Stopping' \/ result' = Raised
                    /\ cancelled' /\ pc' = "idle" => result' = Raised
<1>1. ASSUME ReadInv, [Next]_vars PROVE Keeps
  <2>1. ReadInv'
    BY <1>1, NextRead
  <2>2. cancelled' /\ pc' = "idle" => result' = Raised
    BY <2>1 DEF ReadInv
  <2>3. ASSUME Stopping PROVE Stopping' \/ result' = Raised
    <3>1. pc = "fetching"
      BY <1>1, <2>3 DEF ReadInv, Stopping
    <3>2. ASSUME Gather \/ Cancel PROVE Stopping' \/ result' = Raised
      BY <2>3, <3>1, <3>2 DEF Gather, Cancel, Over, Stopping, GoOn
    <3>3. ASSUME NEW i \in DOMAIN moment, Goes(i) PROVE Stopping'
      BY <2>3, <3>1, <3>3 DEF Goes, Stopping, Underway
    <3>4. ASSUME UNCHANGED read PROVE Stopping'
      BY <2>3, <3>4 DEF read, Stopping
    <3>5. ~FindsOut /\ ~Concludes /\ \A b \in Budgets : ~Represent(b)
      BY <3>1 DEF FindsOut, Concludes, Before, Represent
    <3>6. QED
      BY <1>1, <3>2, <3>3, <3>4, <3>5, PortSteps, MomentSteps, Asks DEF Next, vars
  <2>4. QED
    BY <2>2, <2>3
<1>2. QED
  BY <1>1, InitRead, NextRead, PTL DEF Spec, StopsAreStops

----------------------------------------------------------------------------
(* The slots                                                               *)

LEMMA FfmpegFree ==
  ASSUME ffmpeg \in Semaphores
  PROVE  /\ Ffmpeg!Semaphore(Loop) \in [of : {0}, free : Nat]
         /\ ffmpeg[Loop] = None => Ffmpeg!Semaphore(Loop).free = FfmpegSlots
         /\ ffmpeg[Loop] # None => Ffmpeg!Semaphore(Loop) = ffmpeg[Loop]
  BY VideoAssumption DEF Semaphores, Ffmpeg!Semaphore, Ffmpeg!Fresh

LEMMA FfmpegTaken ==
  ASSUME ffmpeg \in Semaphores, Ffmpeg!Acquire(Loop)
  PROVE  /\ ffmpeg' \in Semaphores
         /\ Ffmpeg!Semaphore(Loop)'.free = Ffmpeg!Semaphore(Loop).free - 1
<1> DEFINE s == Ffmpeg!Semaphore(Loop)
<1>1. s \in [of : {0}, free : Nat]
  BY FfmpegFree
<1>2. s.free > 0 /\ ffmpeg' = [ffmpeg EXCEPT ![Loop] = [of |-> s.of, free |-> s.free - 1]]
  BY DEF Ffmpeg!Acquire
<1> HIDE DEF s
<1>3. [of |-> s.of, free |-> s.free - 1] \in [of : {0}, free : Nat]
  BY <1>1, <1>2
<1>4. ffmpeg' \in Semaphores /\ ffmpeg'[Loop] = [of |-> s.of, free |-> s.free - 1]
  BY <1>2, <1>3 DEF Semaphores
<1>5. ffmpeg'[Loop] # None
  BY <1>3, <1>4, VideoAssumption
<1>6. Ffmpeg!Semaphore(Loop)' = ffmpeg'[Loop]
  BY <1>3, <1>4, <1>5 DEF Ffmpeg!Semaphore
<1>7. QED
  BY <1>4, <1>6 DEF s

LEMMA FfmpegGivenBack ==
  ASSUME ffmpeg \in Semaphores, Ffmpeg!Semaphore(Loop).free # FfmpegSlots, Ffmpeg!Release(Loop)
  PROVE  /\ ffmpeg' \in Semaphores
         /\ Ffmpeg!Semaphore(Loop)'.free = Ffmpeg!Semaphore(Loop).free + 1
<1> DEFINE s == ffmpeg[Loop]
<1>1. s \in [of : {0}, free : Nat] /\ Ffmpeg!Semaphore(Loop) = s
  BY FfmpegFree
<1>2. ffmpeg' = [ffmpeg EXCEPT ![Loop] = [of |-> s.of, free |-> s.free + 1]]
  BY DEF Ffmpeg!Release
<1> HIDE DEF s
<1>3. [of |-> s.of, free |-> s.free + 1] \in [of : {0}, free : Nat]
  BY <1>1
<1>4. ffmpeg' \in Semaphores /\ ffmpeg'[Loop] = [of |-> s.of, free |-> s.free + 1]
  BY <1>2, <1>3 DEF Semaphores
<1>5. ffmpeg'[Loop] # None
  BY <1>3, <1>4, VideoAssumption
<1>6. Ffmpeg!Semaphore(Loop)' = ffmpeg'[Loop]
  BY <1>3, <1>4, <1>5 DEF Ffmpeg!Semaphore
<1>7. QED
  BY <1>1, <1>4, <1>6

LEMMA VisionFree ==
  ASSUME vision \in Semaphores
  PROVE  /\ Vision!Semaphore(Loop) \in [of : {0}, free : Nat]
         /\ vision[Loop] = None => Vision!Semaphore(Loop).free = VisionSlots
         /\ vision[Loop] # None => Vision!Semaphore(Loop) = vision[Loop]
  BY VideoAssumption DEF Semaphores, Vision!Semaphore, Vision!Fresh

LEMMA VisionTaken ==
  ASSUME vision \in Semaphores, Vision!Acquire(Loop)
  PROVE  /\ vision' \in Semaphores
         /\ Vision!Semaphore(Loop)'.free = Vision!Semaphore(Loop).free - 1
<1> DEFINE s == Vision!Semaphore(Loop)
<1>1. s \in [of : {0}, free : Nat]
  BY VisionFree
<1>2. s.free > 0 /\ vision' = [vision EXCEPT ![Loop] = [of |-> s.of, free |-> s.free - 1]]
  BY DEF Vision!Acquire
<1> HIDE DEF s
<1>3. [of |-> s.of, free |-> s.free - 1] \in [of : {0}, free : Nat]
  BY <1>1, <1>2
<1>4. vision' \in Semaphores /\ vision'[Loop] = [of |-> s.of, free |-> s.free - 1]
  BY <1>2, <1>3 DEF Semaphores
<1>5. vision'[Loop] # None
  BY <1>3, <1>4, VideoAssumption
<1>6. Vision!Semaphore(Loop)' = vision'[Loop]
  BY <1>3, <1>4, <1>5 DEF Vision!Semaphore
<1>7. QED
  BY <1>4, <1>6 DEF s

LEMMA VisionGivenBack ==
  ASSUME vision \in Semaphores, Vision!Semaphore(Loop).free # VisionSlots, Vision!Release(Loop)
  PROVE  /\ vision' \in Semaphores
         /\ Vision!Semaphore(Loop)'.free = Vision!Semaphore(Loop).free + 1
<1> DEFINE s == vision[Loop]
<1>1. s \in [of : {0}, free : Nat] /\ Vision!Semaphore(Loop) = s
  BY VisionFree
<1>2. vision' = [vision EXCEPT ![Loop] = [of |-> s.of, free |-> s.free + 1]]
  BY DEF Vision!Release
<1> HIDE DEF s
<1>3. [of |-> s.of, free |-> s.free + 1] \in [of : {0}, free : Nat]
  BY <1>1
<1>4. vision' \in Semaphores /\ vision'[Loop] = [of |-> s.of, free |-> s.free + 1]
  BY <1>2, <1>3 DEF Semaphores
<1>5. vision'[Loop] # None
  BY <1>3, <1>4, VideoAssumption
<1>6. Vision!Semaphore(Loop)' = vision'[Loop]
  BY <1>3, <1>4, <1>5 DEF Vision!Semaphore
<1>7. QED
  BY <1>1, <1>4, <1>6

LEMMA SlotsUsed ==
  ASSUME SlotsInv
  PROVE  /\ Cardinality(Decoding) \in Nat /\ Cardinality(Describing) \in Nat
         /\ Ffmpeg!Semaphore(Loop).free \in Nat /\ Vision!Semaphore(Loop).free \in Nat
         /\ Ffmpeg!Semaphore(Loop).free + Cardinality(Decoding) = FfmpegSlots
         /\ Vision!Semaphore(Loop).free + Cardinality(Describing) + Watching = VisionSlots
         /\ Decoding # {} => Cardinality(Decoding) > 0
         /\ Describing # {} => Cardinality(Describing) > 0
<1>1. Cardinality(Decoding) \in Nat /\ Cardinality(Describing) \in Nat
  BY FS_CardinalityType DEF SlotsInv
<1>2. /\ Decoding # {} => Cardinality(Decoding) # 0
      /\ Describing # {} => Cardinality(Describing) # 0
  BY FS_EmptySet DEF SlotsInv
<1>3. /\ Ffmpeg!Semaphore(Loop).free + Cardinality(Decoding) = FfmpegSlots
      /\ Vision!Semaphore(Loop).free + Cardinality(Describing) + Watching = VisionSlots
  BY DEF SlotsInv, SlotsCounted, Decoding, Describing, Watching
<1>4. Ffmpeg!Semaphore(Loop).free \in Nat /\ Vision!Semaphore(Loop).free \in Nat
  BY FfmpegFree, VisionFree DEF SlotsInv
<1>5. QED
  BY <1>1, <1>2, <1>3, <1>4

(* The moments that are decoded are the same, or one more begins with a    *)
(* slot it takes, or one ends with the slot it gives back.                 *)
DecodingSteps ==
  \/ UNCHANGED ffmpeg /\ Decoding' = Decoding
  \/ \E i : i \notin Decoding /\ Decoding' = Decoding \cup {i} /\ Ffmpeg!Acquire(Loop)
  \/ \E i \in Decoding : Decoding' = Decoding \ {i} /\ Ffmpeg!Release(Loop)

(* The same of the moments described, and of the affordance.               *)
VisionSteps ==
  \/ UNCHANGED vision /\ Describing' = Describing /\ Watching' = Watching
  \/ /\ \/ /\ \E i : i \notin Describing /\ Describing' = Describing \cup {i}
           /\ Watching' = Watching
        \/ Describing' = Describing /\ Watching = 0 /\ Watching' = 1
     /\ Vision!Acquire(Loop)
  \/ /\ \/ /\ \E i \in Describing : Describing' = Describing \ {i}
           /\ Watching' = Watching
        \/ Describing' = Describing /\ Watching = 1 /\ Watching' = 0
     /\ Vision!Release(Loop)

LEMMA DecodingCounted ==
  ASSUME SlotsInv, DecodingSteps
  PROVE  /\ ffmpeg' \in Semaphores /\ IsFiniteSet(Decoding')
         /\ Ffmpeg!Semaphore(Loop)'.free + Cardinality(Decoding') = FfmpegSlots
<1>0. FfmpegSlots \in Nat
  BY VideoAssumption
<1> USE <1>0
<1>1. CASE UNCHANGED ffmpeg /\ Decoding' = Decoding
  <2>1. Ffmpeg!Semaphore(Loop)' = Ffmpeg!Semaphore(Loop)
    BY <1>1 DEF Ffmpeg!Semaphore, Ffmpeg!Fresh
  <2>2. QED
    BY <1>1, <2>1, SlotsUsed DEF SlotsInv
<1>2. ASSUME NEW i, i \notin Decoding, Decoding' = Decoding \cup {i}, Ffmpeg!Acquire(Loop)
      PROVE  /\ ffmpeg' \in Semaphores /\ IsFiniteSet(Decoding')
             /\ Ffmpeg!Semaphore(Loop)'.free + Cardinality(Decoding') = FfmpegSlots
  <2>1. IsFiniteSet(Decoding') /\ Cardinality(Decoding') = Cardinality(Decoding) + 1
    BY <1>2, FS_AddElement DEF SlotsInv
  <2>2. QED
    BY <1>2, <2>1, FfmpegTaken, SlotsUsed DEF SlotsInv
<1>3. ASSUME NEW i \in Decoding, Decoding' = Decoding \ {i}, Ffmpeg!Release(Loop)
      PROVE  /\ ffmpeg' \in Semaphores /\ IsFiniteSet(Decoding')
             /\ Ffmpeg!Semaphore(Loop)'.free + Cardinality(Decoding') = FfmpegSlots
  <2>1. IsFiniteSet(Decoding') /\ Cardinality(Decoding') = Cardinality(Decoding) - 1
    BY <1>3, FS_RemoveElement DEF SlotsInv
  <2>2. Ffmpeg!Semaphore(Loop).free # FfmpegSlots
    BY <1>3, SlotsUsed
  <2>3. QED
    BY <1>3, <2>1, <2>2, FfmpegGivenBack, SlotsUsed DEF SlotsInv
<1>4. QED
  BY <1>1, <1>2, <1>3 DEF DecodingSteps

LEMMA VisionCounted ==
  ASSUME SlotsInv, VisionSteps
  PROVE  /\ vision' \in Semaphores /\ IsFiniteSet(Describing')
         /\ Vision!Semaphore(Loop)'.free + Cardinality(Describing') + Watching' = VisionSlots
<1> DEFINE Goal == /\ vision' \in Semaphores /\ IsFiniteSet(Describing')
                   /\ Vision!Semaphore(Loop)'.free + Cardinality(Describing') + Watching'
                        = VisionSlots
<1>0. VisionSlots \in Nat
  BY VideoAssumption
<1> USE <1>0
<1>1. Watching \in {0, 1} /\ Watching' \in {0, 1}
  BY DEF Watching
<1>2. CASE UNCHANGED vision /\ Describing' = Describing /\ Watching' = Watching
  <2>1. Vision!Semaphore(Loop)' = Vision!Semaphore(Loop)
    BY <1>2 DEF Vision!Semaphore, Vision!Fresh
  <2>2. vision' \in Semaphores /\ IsFiniteSet(Describing')
    BY <1>2 DEF SlotsInv
  <2>3. QED
    BY <1>2, <2>1, <2>2, SlotsUsed
<1>3. ASSUME NEW i, i \notin Describing, Describing' = Describing \cup {i},
             Watching' = Watching, Vision!Acquire(Loop)
      PROVE  Goal
  <2>1. IsFiniteSet(Describing') /\ Cardinality(Describing') = Cardinality(Describing) + 1
    BY <1>3, FS_AddElement DEF SlotsInv
  <2>2. QED
    BY <1>1, <1>3, <2>1, VisionTaken, SlotsUsed DEF SlotsInv
<1>4. ASSUME NEW i \in Describing, Describing' = Describing \ {i},
             Watching' = Watching, Vision!Release(Loop)
      PROVE  Goal
  <2>1. IsFiniteSet(Describing') /\ Cardinality(Describing') = Cardinality(Describing) - 1
    BY <1>4, FS_RemoveElement DEF SlotsInv
  <2>2. Vision!Semaphore(Loop).free # VisionSlots
    BY <1>1, <1>4, SlotsUsed
  <2>3. QED
    BY <1>1, <1>4, <2>1, <2>2, VisionGivenBack, SlotsUsed DEF SlotsInv
<1>5. CASE /\ Describing' = Describing /\ Watching = 0 /\ Watching' = 1
           /\ Vision!Acquire(Loop)
  BY <1>5, VisionTaken, SlotsUsed DEF SlotsInv
<1>6. CASE /\ Describing' = Describing /\ Watching = 1 /\ Watching' = 0
           /\ Vision!Release(Loop)
  <2>1. Vision!Semaphore(Loop).free # VisionSlots
    BY <1>6, SlotsUsed
  <2>2. QED
    BY <1>6, <2>1, VisionGivenBack, SlotsUsed DEF SlotsInv
<1>7. QED
  BY <1>2, <1>3, <1>4, <1>5, <1>6 DEF VisionSteps

LEMMA InitSlots == Init => SlotsInv
<1> SUFFICES ASSUME Init PROVE SlotsInv
  OBVIOUS
<1>1. Decoding = {} /\ Describing = {} /\ Watching = 0
  BY NoMoments DEF Init, Decoding, Describing, Watching
<1>2. ffmpeg = [l \in {Loop} |-> None] /\ vision = [l \in {Loop} |-> None]
  BY DEF Init, Ffmpeg!Init, Vision!Init
<1>3. ffmpeg \in Semaphores /\ vision \in Semaphores
  BY <1>2 DEF Semaphores
<1>4. Ffmpeg!Semaphore(Loop).free = FfmpegSlots /\ Vision!Semaphore(Loop).free = VisionSlots
  BY <1>2, <1>3, FfmpegFree, VisionFree
<1>5. IsFiniteSet({}) /\ Cardinality({}) = 0
  BY FS_EmptySet
<1>6. /\ Ffmpeg!Semaphore(Loop).free + Cardinality(Decoding) = FfmpegSlots
      /\ Vision!Semaphore(Loop).free + Cardinality(Describing) + Watching = VisionSlots
  BY <1>1, <1>4, <1>5, VideoAssumption
<1>7. SlotsCounted
  BY <1>6 DEF SlotsCounted, Decoding, Describing, Watching
<1>8. QED
  BY <1>1, <1>3, <1>5, <1>7 DEF SlotsInv

LEMMA SlotsGoOn ==
  ASSUME SlotsInv, DecodingSteps, VisionSteps
  PROVE  SlotsInv'
<1>1. SlotsCounted'
  BY DecodingCounted, VisionCounted DEF SlotsCounted, Decoding, Describing, Watching
<1>2. QED
  BY <1>1, DecodingCounted, VisionCounted DEF SlotsInv

LEMMA SlotsKept ==
  ASSUME SlotsInv, UNCHANGED limiter, Decoding' = Decoding, Describing' = Describing,
         Watching' = Watching
  PROVE  SlotsInv'
  BY SlotsGoOn DEF DecodingSteps, VisionSteps, limiter

LEMMA NextSlots == ReadInv /\ SlotsInv /\ [Next]_vars => SlotsInv'
<1> SUFFICES ASSUME ReadInv, SlotsInv, [Next]_vars PROVE SlotsInv'
  OBVIOUS
<1>1. ASSUME NEW b \in Budgets, Represent(b) PROVE SlotsInv'
  <2>1. Decoding = {} /\ Describing = {}
    BY <1>1 DEF Represent, ReadInv, Ended, Decoding, Describing, Outcomes
  <2>2. Decoding' = {} /\ Describing' = {} /\ Watching' = Watching
    BY <1>1, NoMoments DEF Represent, Decoding, Describing, Watching
  <2>3. QED
    BY <1>1, <2>1, <2>2, SlotsKept DEF Represent
<1>2. ASSUME FindsOut PROVE SlotsInv'
  <2>1. Decoding = {} /\ Describing = {}
    BY <1>2 DEF FindsOut, ReadInv, Decoding, Describing
  <2>2. Decoding' = {} /\ Describing' = {} /\ Watching' = Watching
    BY <1>2, <2>1 DEF FindsOut, Decoding, Describing, Watching
  <2>3. QED
    BY <1>2, <2>1, <2>2, SlotsKept DEF FindsOut
<1>3. ASSUME UNCHANGED <<limiter, moment, asking>> PROVE SlotsInv'
  <2>1. Decoding' = Decoding /\ Describing' = Describing /\ Watching' = Watching
    BY <1>3 DEF Decoding, Describing, Watching
  <2>2. QED
    BY <1>3, <2>1, SlotsKept
<1>4. ASSUME NEW i \in DOMAIN moment, Acquire(i) \/ Moment(i) \/ StopItself(i)
      PROVE  SlotsInv'
  <2> DEFINE to == moment'[i]
  <2>1. /\ DOMAIN moment' = DOMAIN moment
        /\ \A j \in DOMAIN moment \ {i} : moment'[j] = moment[j]
        /\ Watching' = Watching
    BY <1>4, MomentSteps DEF Goes, Watching
  <2>2. /\ Decoding' = IF to = "decoding" THEN Decoding \cup {i} ELSE Decoding \ {i}
        /\ Describing' = IF to = "describing" THEN Describing \cup {i} ELSE Describing \ {i}
        /\ i \in Decoding <=> moment[i] = "decoding"
        /\ i \in Describing <=> moment[i] = "describing"
    BY <2>1 DEF Decoding, Describing
  <2>3. \A from, next : Advance(i, from, next) => moment[i] = from /\ to = next
    BY DEF Advance
  <2> HIDE DEF to
  <2>4. CASE AcquireFfmpeg(i)
    BY <2>1, <2>2, <2>3, <2>4, SlotsGoOn DEF AcquireFfmpeg, DecodingSteps, VisionSteps
  <2>5. CASE AcquireVision(i)
    BY <2>1, <2>2, <2>3, <2>5, SlotsGoOn DEF AcquireVision, DecodingSteps, VisionSteps
  <2>6. CASE Decoded(i)
    BY <2>1, <2>2, <2>3, <2>6, SlotsGoOn DEF Decoded, DecodingSteps, VisionSteps
  <2>7. CASE NoFrame(i)
    BY <2>1, <2>2, <2>3, <2>7, SlotsGoOn DEF NoFrame, DecodingSteps, VisionSteps
  <2>8. CASE Described(i)
    BY <2>1, <2>2, <2>3, <2>8, SlotsGoOn DEF Described, DecodingSteps, VisionSteps
  <2>9. CASE Stop(i)
    <3>1. to = "stopped" /\ Released(i)
      BY <2>9 DEF Stop, to
    <3>2. DecodingSteps
      BY <2>2, <3>1 DEF Released, DecodingSteps
    <3>3. VisionSteps
      BY <2>1, <2>2, <3>1 DEF Released, VisionSteps
    <3>4. QED
      BY <3>2, <3>3, SlotsGoOn
  <2>10. QED
    BY <1>4, <2>4, <2>5, <2>6, <2>7, <2>8, <2>9
       DEF Acquire, Moment, StopCancelled, StopItself
<1>5. ASSUME AcquireForAffordance PROVE SlotsInv'
  <2>1. Decoding' = Decoding /\ Describing' = Describing /\ UNCHANGED ffmpeg
    BY <1>5, Asks DEF read, AcquireForAffordance, Decoding, Describing
  <2>2. Watching = 0 /\ Watching' = 1 /\ Vision!Acquire(Loop)
    BY <1>5 DEF AcquireForAffordance, Asking, Watching
  <2>3. QED
    BY <2>1, <2>2, SlotsGoOn DEF DecodingSteps, VisionSteps
<1>6. ASSUME Answer PROVE SlotsInv'
  <2>1. Decoding' = Decoding /\ Describing' = Describing /\ UNCHANGED ffmpeg
    BY <1>6, Asks DEF read, Answer, Decoding, Describing
  <2>2. Watching = 1 /\ Watching' = 0 /\ Vision!Release(Loop)
    BY <1>6 DEF Answer, Asking, Watching
  <2>3. QED
    BY <2>1, <2>2, SlotsGoOn DEF DecodingSteps, VisionSteps
<1>7. ASSUME Affordance PROVE SlotsInv'
  <2>1. Decoding' = Decoding /\ Describing' = Describing
    BY <1>7, Asks DEF read, Decoding, Describing
  <2>2. UNCHANGED limiter /\ Watching' = Watching
    BY <1>7 DEF Affordance, AskFrame, AnswerFrame, AskAbout, AskWatch, GiveUpWaiting,
                Asking, Watching
  <2>3. QED
    BY <2>1, <2>2, SlotsKept
<1>8. ASSUME Concludes \/ Gather \/ Cancel \/ UNCHANGED vars PROVE SlotsInv'
  BY <1>3, <1>8 DEF Concludes, Aside, Gather, Cancel, vars, read
<1>9. QED
  BY <1>1, <1>2, <1>4, <1>5, <1>6, <1>7, <1>8, PortSteps DEF Next

(* No frame is decoded or described beyond the limits, and no slot is ever *)
(* lost, for any limits and however many moments there are.                *)
THEOREM SlotsAreCounted == Spec => []SlotsCounted
<1>1. SlotsInv => SlotsCounted
  BY DEF SlotsInv
<1>2. QED
  BY <1>1, InitRead, NextRead, InitSlots, NextSlots, PTL DEF Spec

----------------------------------------------------------------------------
(* The narration                                                           *)

Events(total) == {Started, Finished} \cup {Progressed(k, total) : k \in Nat}

LEMMA NarrationIsSeq ==
  ASSUME NEW n \in Nat \ {0}, NEW total
  PROVE  /\ Narration(n, total) \in Seq(Events(total))
         /\ Len(Narration(n, total)) = n /\ DOMAIN Narration(n, total) = 1 .. n
         /\ Narration(n, total)[1] = Started
         /\ \A k \in 2 .. n : Narration(n, total)[k] = Progressed(k - 1, total)
<1>1. ASSUME NEW k \in 1 .. n
      PROVE  (IF k = 1 THEN Started ELSE Progressed(k - 1, total)) \in Events(total)
  BY DEF Events
<1>2. Narration(n, total) \in [1 .. n -> Events(total)]
  BY <1>1 DEF Narration
<1>3. Narration(n, total) \in Seq(Events(total))
  BY <1>2
<1>4. DOMAIN Narration(n, total) = 1 .. n /\ Len(Narration(n, total)) = n
  BY <1>2, <1>3
<1>5. QED
  BY <1>3, <1>4 DEF Narration

LEMMA NarrationGrows ==
  ASSUME NEW n \in Nat \ {0}, NEW total
  PROVE  Append(Narration(n, total), Progressed(n, total)) = Narration(n + 1, total)
<1> DEFINE s == Narration(n, total)
           e == Progressed(n, total)
           longer == Narration(n + 1, total)
           S == Events(total)
<1>1. s \in Seq(S) /\ Len(s) = n /\ e \in S /\ longer \in Seq(S) /\ Len(longer) = n + 1
  <2>1. s \in Seq(S) /\ Len(s) = n
    BY NarrationIsSeq
  <2>2. n + 1 \in Nat \ {0}
    OBVIOUS
  <2>3. longer \in Seq(S) /\ Len(longer) = n + 1
    BY <2>2, NarrationIsSeq
  <2>4. e \in S
    BY DEF Events
  <2>5. QED
    BY <2>1, <2>3, <2>4
<1>2. (\A k \in 1 .. n : s[k] = longer[k]) /\ e = longer[n + 1]
  BY DEF Narration
<1> HIDE DEF s, e, S, longer
<1>3. QED
  <2> DEFINE r == Append(s, e)
  <2>1. r \in Seq(S) /\ Len(r) = n + 1 /\ \A k \in 1 .. n : r[k] = s[k]
    BY <1>1
  <2>2. r[n + 1] = e
    BY <1>1
  <2> HIDE DEF r
  <2>3. \A k \in 1 .. n + 1 : r[k] = longer[k]
    BY <1>2, <2>1, <2>2
  <2>4. r = longer
    BY <1>1, <2>1, <2>3
  <2>5. QED
    BY <2>4 DEF r, s, e, longer

LEMMA InitNarration == Init => NarrationInv
<1> SUFFICES ASSUME Init PROVE NarrationInv
  OBVIOUS
<1>1. Ending = {}
  BY NoMoments DEF Init, Ending
<1>2. QED
  BY <1>1, FS_EmptySet DEF Init, NarrationInv

LEMMA NextNarration == ReadInv /\ NarrationInv /\ [Next]_vars => NarrationInv'
<1> SUFFICES ASSUME ReadInv, NarrationInv, [Next]_vars PROVE NarrationInv'
  OBVIOUS
<1>0. Cardinality(Ending) \in Nat /\ Cardinality({}) = 0 /\ IsFiniteSet({})
  BY FS_CardinalityType, FS_EmptySet DEF NarrationInv
<1>1. ASSUME events' = <<Started>>, pc' # "idle", Ending' = {} PROVE NarrationInv'
  <2>1. <<Started>> = Narration(1, Total')
    BY DEF Narration
  <2>2. QED
    BY <1>0, <1>1, <2>1 DEF NarrationInv
<1>2. ASSUME UNCHANGED <<moment, events>>, pc' = pc \/ (pc # "idle" /\ pc' # "idle")
      PROVE  NarrationInv'
  BY <1>2 DEF NarrationInv, Ending, Total
<1>3. ASSUME UNCHANGED moment, pc # "idle", pc' = "idle", events' = Append(events, Finished)
      PROVE  NarrationInv'
  <2>1. Ending' = Ending /\ Total' = Total
    BY <1>3 DEF Ending, Total
  <2>2. 1 + Cardinality(Ending) \in Nat \ {0} /\ events = Narration(1 + Cardinality(Ending), Total)
    BY <1>0, <1>3 DEF NarrationInv
  <2>3. QED
    BY <1>3, <2>1, <2>2 DEF NarrationInv
<1>4. ASSUME NEW b \in Budgets, Represent(b) PROVE NarrationInv'
  BY <1>1, <1>4, NoMoments DEF Represent, Ending
<1>5. ASSUME FindsOut PROVE NarrationInv'
  <2>1. Ending = {} /\ Ending' = {} /\ pc # "idle" /\ pc' # "idle"
    BY <1>5 DEF FindsOut, ReadInv, Ending, Outcomes, Before
  <2>2. Narration(1, Total) = <<Started>>
    BY DEF Narration
  <2>3. events' = <<Started>>
    BY <1>0, <1>5, <2>1, <2>2 DEF FindsOut, NarrationInv
  <2>4. QED
    BY <1>1, <2>1, <2>3
<1>6. ASSUME Concludes \/ Gather \/ Cancel PROVE NarrationInv'
  <2>1. UNCHANGED moment /\ pc # "idle"
    BY <1>6 DEF Concludes, Before, Aside, Gather, Cancel
  <2>2. \/ pc' = "idle" /\ events' = Append(events, Finished)
        \/ pc' # "idle" /\ events' = events
    BY <1>6 DEF Concludes, Gather, Cancel, Over, GoOn
  <2>3. QED
    BY <1>2, <1>3, <2>1, <2>2
<1>7. ASSUME NEW i \in DOMAIN moment, Goes(i) PROVE NarrationInv'
  <2>1. PICK to \in Underway \cup Outcomes \cup {"stopped"} :
          /\ moment' = [moment EXCEPT ![i] = to]
          /\ events' = IF to \in Outcomes
                       THEN Append(events, Progressed(Done(moment'), Cardinality(DOMAIN moment)))
                       ELSE events
    BY <1>7 DEF Goes
  <2>2. pc = "fetching" /\ pc' = "fetching" /\ DOMAIN moment' = DOMAIN moment
    BY <1>7, <2>1 DEF Goes
  <2>3. i \notin Ending
    BY <1>7 DEF Goes, Ending, Underway, Outcomes
  <2>4. Total' = Total
    BY <2>2 DEF Total
  <2>5. events = Narration(1 + Cardinality(Ending), Total)
    BY <2>2 DEF NarrationInv
  <2>6. CASE to \in Outcomes
    <3>1. Ending' = Ending \cup {i}
      BY <2>1, <2>6 DEF Ending
    <3>2. IsFiniteSet(Ending') /\ Cardinality(Ending') = Cardinality(Ending) + 1
      BY <2>3, <3>1, FS_AddElement DEF NarrationInv
    <3>3. Done(moment') = 1 + Cardinality(Ending)
      BY <1>0, <3>2 DEF Done, Ending
    <3>4. events' = Narration((1 + Cardinality(Ending)) + 1, Total)
      BY <1>0, <2>1, <2>5, <2>6, <3>3, NarrationGrows DEF Total
    <3>5. events' = Narration(1 + Cardinality(Ending'), Total')
      BY <1>0, <2>4, <3>2, <3>4
    <3>6. QED
      BY <2>2, <3>2, <3>5 DEF NarrationInv
  <2>7. CASE to \notin Outcomes
    <3>1. Ending' = Ending /\ events' = events
      BY <2>1, <2>3, <2>7 DEF Ending
    <3>2. QED
      BY <1>0, <2>2, <2>4, <2>5, <3>1 DEF NarrationInv
  <2>8. QED
    BY <2>6, <2>7
<1>8. ASSUME UNCHANGED read PROVE NarrationInv'
  BY <1>2, <1>8 DEF read
<1>9. QED
  BY <1>4, <1>5, <1>6, <1>7, <1>8, PortSteps, MomentSteps, Asks DEF Next, vars

(* The observer of a read is told of its start, of one moment more each    *)
(* time, in whatever order they end, and once, at the end, of the finish.  *)
THEOREM ProgressIsInOrder == Spec => []NarratedInOrder
<1>1. ReadInv /\ NarrationInv => NarratedInOrder
  <2> SUFFICES ASSUME ReadInv, NarrationInv PROVE NarratedInOrder
    OBVIOUS
  <2>1. \A k : Started # Finished /\ Progressed(k, Total) # Finished
    BY DEF Started, Finished, Progressed
  <2>2. CASE pc # "idle"
    <3> DEFINE n == 1 + Cardinality(Ending)
    <3>1. n \in Nat \ {0} /\ events = Narration(n, Total)
      BY <2>2, FS_CardinalityType DEF NarrationInv
    <3> HIDE DEF n
    <3>2. /\ Len(events) = n /\ events[1] = Started
          /\ \A k \in 2 .. n : events[k] = Progressed(k - 1, Total)
      BY <3>1, NarrationIsSeq
    <3>3. events[n] # Finished
      BY <2>1, <3>1, <3>2
    <3>4. QED
      BY <2>2, <3>1, <3>2, <3>3 DEF NarratedInOrder, Total
  <2>3. CASE pc = "idle" /\ events = <<>>
    BY <2>3 DEF NarratedInOrder
  <2>4. ASSUME pc = "idle", NEW n \in Nat \ {0}, events = Append(Narration(n, Total), Finished)
        PROVE  NarratedInOrder
    <3> DEFINE s == Narration(n, Total)
    <3>1. /\ s \in Seq(Events(Total)) /\ Len(s) = n /\ s[1] = Started
          /\ Finished \in Events(Total)
      BY NarrationIsSeq DEF Events
    <3>2. \A k \in 2 .. n : s[k] = Progressed(k - 1, Total)
      BY NarrationIsSeq
    <3>3. events = Append(s, Finished)
      BY <2>4
    <3> HIDE DEF s
    <3>4. /\ Len(events) = n + 1 /\ events[n + 1] = Finished
          /\ \A k \in 1 .. n : events[k] = s[k]
      BY <3>1, <3>3
    <3>5. events[1] = Started
      BY <3>1, <3>4
    <3>6. ASSUME NEW k \in 2 .. n + 1, k # n + 1 PROVE events[k] = Progressed(k - 1, Total)
      BY <3>2, <3>4, <3>6
    <3>7. Ended
      BY <2>4 DEF ReadInv
    <3>8. QED
      BY <2>4, <3>4, <3>5, <3>6, <3>7 DEF NarratedInOrder, Total
  <2>5. QED
    BY <2>2, <2>3, <2>4 DEF NarrationInv
<1>2. QED
  BY <1>1, InitRead, NextRead, InitNarration, NextNarration, PTL DEF Spec

----------------------------------------------------------------------------
(* The degradations                                                        *)

Truncated == Report("text truncated")
Blind == Report("vision unavailable")
Undecodable == StartsOf("missing")
Undescribed == StartsOf("failed")
Of(what, starts) == [what |-> what, of |-> starts]

(* What a budget cuts off a text, it does not cut off what is told of it.  *)
LEMMA FitTells ==
  ASSUME NEW S, Truncated \in S, NEW told \in Seq(S),
         NEW text, NEW segments, NEW barriers, NEW most
  PROVE  LET d == Fit(text, segments, barriers, most, told).degradations
         IN  /\ ToSet(told) \subseteq ToSet(d)
             /\ ToSet(d) \subseteq ToSet(told) \cup {Truncated}
<1> DEFINE d == Fit(text, segments, barriers, most, told).degradations
<1>1. d = told \/ d = Append(told, Truncated)
  BY DEF Fit, Whole, Report, Truncated
<1>2. ToSet(Append(told, Truncated)) = ToSet(told) \cup {Truncated}
  BY AppendSet
<1> HIDE DEF d
<1>3. ToSet(told) \subseteq ToSet(d) /\ ToSet(d) \subseteq ToSet(told) \cup {Truncated}
  BY <1>1, <1>2
<1>4. QED
  BY <1>3 DEF d

Whats ==
  {"captions not read", "caption extraction failed", "audio track unavailable",
   "caption cues outside the file", "spoken cues outside the file",
   "no speech detected", "transcription failed",
   "vision unavailable", "frames undecodable", "frame descriptions failed",
   "scene detection failed", "text truncated", "video unprobeable", "no timeline"}

(* A report of times of the timeline, or of none.                          *)
AnyReport ==
  [what : Whats, of : SUBSET {bounds[i].start : i \in DOMAIN moment}]

LEMMA ReportsAreReports ==
  /\ \A what \in Whats : Report(what) \in AnyReport
  /\ WordReports \subseteq AnyReport
  /\ \A says : StartsOf(says) \subseteq {bounds[i].start : i \in DOMAIN moment}
<1>1. \A what \in Whats : Report(what) \in AnyReport
  BY DEF Report, AnyReport
<1>2. WordReports \subseteq AnyReport
  BY <1>1 DEF WordReports, Whats
<1>3. \A says : StartsOf(says) \subseteq {bounds[i].start : i \in DOMAIN moment}
  BY DEF StartsOf
<1>4. QED
  BY <1>1, <1>2, <1>3

LEMMA ReportIfSet ==
  ASSUME NEW what \in Whats, NEW says
  PROVE  /\ ReportIf(what, StartsOf(says)) \in Seq(AnyReport)
         /\ ToSet(ReportIf(what, StartsOf(says))) =
              IF StartsOf(says) = {} THEN {} ELSE {Of(what, StartsOf(says))}
<1> DEFINE r == Of(what, StartsOf(says))
<1>1. r \in AnyReport
  BY ReportsAreReports DEF AnyReport, Of
<1> HIDE DEF r
<1>2. <<r>> \in Seq(AnyReport) /\ <<>> \in Seq(AnyReport)
  BY <1>1
<1>3. ReportIf(what, StartsOf(says)) = IF StartsOf(says) = {} THEN <<>> ELSE <<r>>
  BY DEF ReportIf, r, Of
<1>4. QED
  BY <1>2, <1>3, SingleSet DEF r

LEMMA TimelineTells ==
  /\ TimelineReports \in Seq(AnyReport)
  /\ ToSet(TimelineReports) =
       (IF handler.vision THEN {} ELSE {Blind})
         \cup (IF Undecodable = {} THEN {}
               ELSE {Of("frames undecodable", Undecodable)})
         \cup (IF Undescribed = {} THEN {}
               ELSE {Of("frame descriptions failed", Undescribed)})
<1> DEFINE a == IF handler.vision THEN <<>> ELSE <<Blind>>
           b == ReportIf("frames undecodable", Undecodable)
           c == ReportIf("frame descriptions failed", Undescribed)
<1>1. Blind \in AnyReport
  BY ReportsAreReports DEF Whats, Blind
<1>2. a \in Seq(AnyReport) /\ ToSet(a) = IF handler.vision THEN {} ELSE {Blind}
  <2>1. CASE handler.vision
    BY <2>1, SingleSet, <1>1
  <2>2. CASE ~handler.vision
    BY <2>2, SingleSet, <1>1
  <2>3. QED
    BY <2>1, <2>2
<1>3. b \in Seq(AnyReport)
      /\ ToSet(b) = IF Undecodable = {} THEN {} ELSE {Of("frames undecodable", Undecodable)}
  BY ReportIfSet DEF Whats, Undecodable
<1>4. c \in Seq(AnyReport)
      /\ ToSet(c) = IF Undescribed = {} THEN {} ELSE {Of("frame descriptions failed", Undescribed)}
  BY ReportIfSet DEF Whats, Undescribed
<1>5. TimelineReports = (a \o b) \o c
  BY DEF TimelineReports, Undecodable, Undescribed, Blind
<1> HIDE DEF a, b, c
<1>6. /\ (a \o b) \o c \in Seq(AnyReport)
      /\ ToSet((a \o b) \o c) = (ToSet(a) \cup ToSet(b)) \cup ToSet(c)
  <2>1. a \in Seq(AnyReport) /\ b \in Seq(AnyReport) /\ c \in Seq(AnyReport)
    BY <1>2, <1>3, <1>4
  <2>2. QED
    BY <2>1, ConcatThreeSet
<1>7. QED
  BY <1>2, <1>3, <1>4, <1>5, <1>6

LEMMA AssembledTells ==
  ASSUME ReportsInv, NEW told \in Seq(AnyReport), NEW barriers
  PROVE  LET d == Assembled(barriers, told).degradations
             all == ToSet(TimelineReports) \cup ToSet(reports) \cup ToSet(told)
         IN  all \subseteq ToSet(d) /\ ToSet(d) \subseteq all \cup {Truncated}
<1> DEFINE t == TimelineReports \o reports
<1>1. reports \in Seq(AnyReport)
  BY ReportsAreReports DEF ReportsInv
<1>2. t \in Seq(AnyReport) /\ ToSet(t) = ToSet(TimelineReports) \cup ToSet(reports)
  BY ZenonT(30), <1>1, TimelineTells, ConcatSet
<1> HIDE DEF t
<1>3. t \o told \in Seq(AnyReport) /\ ToSet(t \o told) = ToSet(t) \cup ToSet(told)
  BY <1>2, ConcatSet
<1>4. Truncated \in AnyReport
  BY ReportsAreReports DEF Whats, Truncated
<1>5. Assembled(barriers, told) = Fit(Text, Segments, barriers, budget, t \o told)
  BY DEF Assembled, t
<1> DEFINE d == Assembled(barriers, told).degradations
<1>6. ToSet(t \o told) \subseteq ToSet(d) /\ ToSet(d) \subseteq ToSet(t \o told) \cup {Truncated}
  BY <1>3, <1>4, <1>5, FitTells
<1> HIDE DEF d
<1>7. LET all == ToSet(TimelineReports) \cup ToSet(reports) \cup ToSet(told)
      IN  all \subseteq ToSet(d) /\ ToSet(d) \subseteq all \cup {Truncated}
  BY <1>2, <1>3, <1>6
<1>8. QED
  BY <1>7 DEF d

LEMMA NothingTells ==
  ASSUME NEW what \in Whats
  PROVE  LET d == NothingToRead(what).degradations
         IN  /\ Report(what) \in ToSet(d)
             /\ ToSet(d) \subseteq {Report(what), Truncated}
<1> DEFINE d == NothingToRead(what).degradations
           S == {Report(what), Truncated}
<1>1. <<Report(what)>> \in Seq(S)
  OBVIOUS
<1>2. ToSet(<<Report(what)>>) = {Report(what)}
  BY SingleSet
<1>3. ToSet(<<Report(what)>>) \subseteq ToSet(d)
      /\ ToSet(d) \subseteq ToSet(<<Report(what)>>) \cup {Truncated}
  BY <1>1, FitTells DEF NothingToRead
<1> HIDE DEF d, S
<1>4. Report(what) \in ToSet(d) /\ ToSet(d) \subseteq {Report(what), Truncated}
  BY <1>2, <1>3
<1>5. QED
  BY <1>4 DEF d

(* FailuresTold of what a read returns, from the set of what that tells.   *)
LEMMA ToldIsEnough ==
  ASSUME NEW d, d = ToSet(result'.degradations), UNCHANGED <<bounds, moment>>,
         \A what \in failures' \ Untold : Report(what) \in d,
         \A r \in d : /\ r.what = "scene detection failed" => r.what \in failures'
                      /\ r.what = "frames undecodable" => r.of = Undecodable
                      /\ r.what = "frame descriptions failed" => r.of = Undescribed,
         Undecodable # {} => Of("frames undecodable", Undecodable) \in d,
         Undescribed # {} => Of("frame descriptions failed", Undescribed) \in d
  PROVE  FailuresTold'
<1>1. Told' = {r.what : r \in d}
  BY DEF Told, ToSet
<1>2. \A k \in DOMAIN result'.degradations : result'.degradations[k] \in d
  BY DEF ToSet
<1>3. (failures \ Untold)' \subseteq Told'
  <2>1. ASSUME NEW what \in failures' \ Untold PROVE what \in Told'
    <3>1. Report(what) \in d /\ Report(what).what = what
      BY DEF Report
    <3>2. QED
      BY <1>1, <3>1
  <2>2. QED
    BY <2>1 DEF Untold
<1>4. "scene detection failed" \in Told' => "scene detection failed" \in failures'
  BY <1>1
<1>5. /\ "missing" \in Range(moment) => Undecodable # {}
      /\ StartsOf("missing")' = Undecodable
  BY ZenonT(30) DEF Range, StartsOf, Undecodable
<1>6. /\ "failed" \in Range(moment) => Undescribed # {}
      /\ StartsOf("failed")' = Undescribed
  BY ZenonT(30) DEF Range, StartsOf, Undescribed
<1>7. /\ Undecodable # {} => "frames undecodable" \in Told'
      /\ Undescribed # {} => "frame descriptions failed" \in Told'
  <2>1. \A what, starts : Of(what, starts).what = what
    BY DEF Of
  <2>2. \A r \in d : r.what \in Told'
    BY <1>1
  <2>3. QED
    BY <2>1, <2>2
<1>8. QED
  BY <1>2, <1>3, <1>4, <1>5, <1>6, <1>7 DEF FailuresTold

LEMMA ListenTells ==
  ASSUME NEW told \in Seq(WordReports), NEW video, NEW failed, Listen(video, told, failed)
  PROVE  reports' \in Seq(WordReports) /\ ToSet(told) \subseteq ToSet(reports')
<1> DEFINE r == Report("audio track unavailable")
<1>1. r \in WordReports
  BY DEF WordReports
<1>2. reports' = told \/ reports' = Append(told, r)
  BY DEF Listen
<1> HIDE DEF r
<1>3. Append(told, r) \in Seq(WordReports) /\ ToSet(Append(told, r)) = ToSet(told) \cup {r}
  BY <1>1, AppendSet
<1>4. QED
  BY <1>2, <1>3

(* What Listen itself finds wrong it tells.                                *)
LEMMA ListenFails ==
  ASSUME NEW told \in Seq(WordReports), NEW video, NEW failed, Listen(video, told, failed),
         \A what \in failed \ Untold : Report(what) \in ToSet(told)
  PROVE  \A what \in failures' \ Untold : Report(what) \in ToSet(reports')
<1> DEFINE r == Report("audio track unavailable")
<1>1. r \in WordReports
  BY DEF WordReports
<1>2. \/ reports' = told /\ failures' = failed
      \/ reports' = Append(told, r) /\ failures' = failed \cup {"audio track unavailable"}
  BY DEF Listen
<1>3. CASE reports' = told /\ failures' = failed
  BY <1>3
<1>4. CASE reports' = Append(told, r) /\ failures' = failed \cup {"audio track unavailable"}
  <2>1. \A what \in failures' \ Untold :
          Report(what) \in ToSet(told) \/ Report(what) = r
    BY <1>4
  <2> HIDE DEF r
  <2>2. ToSet(Append(told, r)) = ToSet(told) \cup {r}
    BY <1>1, AppendSet
  <2>3. QED
    BY <1>4, <2>1, <2>2
<1>5. QED
  BY <1>2, <1>3, <1>4

LEMMA InitReports == Init => ReportsInv
<1> SUFFICES ASSUME Init PROVE ReportsInv
  OBVIOUS
<1>1. FailuresTold
  BY DEF Init, FailuresTold, Rendering
<1>2. <<>> \in Seq(WordReports)
  OBVIOUS
<1>3. QED
  BY <1>1, <1>2 DEF Init, ReportsInv

(* A read that ends with nothing but a reason.                             *)
LEMMA NothingIsTold ==
  ASSUME NEW what \in {"video unprobeable", "no timeline"}, DOMAIN moment = {},
         result' = NothingToRead(what), failures' = {what}, UNCHANGED <<bounds, moment>>
  PROVE  FailuresTold'
<1> DEFINE d == ToSet(result'.degradations)
<1>1. Report(what) \in d /\ d \subseteq {Report(what), Truncated}
  BY NothingTells DEF Whats
<1>2. Undecodable = {} /\ Undescribed = {}
  BY DEF Undecodable, Undescribed, StartsOf
<1>3. Report(what).what = what /\ Truncated.what = "text truncated"
  BY DEF Report, Truncated
<1>4. \A r \in {Report(what), Truncated} :
        /\ r.what # "scene detection failed" /\ r.what # "frames undecodable"
        /\ r.what # "frame descriptions failed"
  BY <1>3
<1>5. \A r \in failures' \ Untold : Report(r) \in d
  BY <1>1
<1> HIDE DEF d
<1>6. \A r \in d : r \in {Report(what), Truncated}
  BY <1>1
<1>7. d = ToSet(result'.degradations)
  BY DEF d
<1>8. QED
  BY <1>2, <1>4, <1>5, <1>6, <1>7, ToldIsEnough

Undetected == Report("scene detection failed")

LEMMA TimelineIsTold ==
  ASSUME ReportsInv, pc # "idle", NEW barriers, NEW told \in {<<>>, <<Undetected>>},
         result' = Assembled(barriers, told), UNCHANGED <<bounds, moment>>,
         failures' = failures \cup (IF told = <<>> THEN {} ELSE {"scene detection failed"})
  PROVE  FailuresTold'
<1> DEFINE d == ToSet(result'.degradations)
           all == ToSet(TimelineReports) \cup ToSet(reports) \cup ToSet(told)
<1>1. Undetected \in AnyReport
  BY ReportsAreReports DEF Whats, Undetected
<1>2. told \in Seq(AnyReport) /\ ToSet(told) = IF told = <<>> THEN {} ELSE {Undetected}
  <2>1. CASE told = <<>>
    BY <2>1, <1>1, SingleSet
  <2>2. CASE told = <<Undetected>>
    <3>1. told # <<>>
      BY <2>2
    <3>2. QED
      BY <2>2, <3>1, <1>1, SingleSet
  <2>3. QED
    BY <2>1, <2>2
<1>3. all \subseteq d /\ d \subseteq all \cup {Truncated}
  BY <1>2, AssembledTells
<1>4. ToSet(reports) \subseteq WordReports
  BY SetOfSeq DEF ReportsInv
<1>5. \A r \in failures' \ Untold : Report(r) \in d
  BY <1>2, <1>3 DEF ReportsInv, Undetected
<1>6. /\ Undecodable # {} => Of("frames undecodable", Undecodable) \in d
      /\ Undescribed # {} => Of("frame descriptions failed", Undescribed) \in d
  BY <1>3, TimelineTells
<1>7. ASSUME NEW r \in d
      PROVE  /\ r.what = "scene detection failed" => r.what \in failures'
             /\ r.what = "frames undecodable" => r.of = Undecodable
             /\ r.what = "frame descriptions failed" => r.of = Undescribed
  <2>1. \A what, starts : Report(what).what = what /\ Of(what, starts).what = what
                         /\ Of(what, starts).of = starts
    BY DEF Report, Of
  <2>2. CASE r \in WordReports
    <3>1. r.what \notin {"scene detection failed", "frames undecodable",
                         "frame descriptions failed"}
      BY ZenonT(30), <2>1, <2>2 DEF WordReports
    <3>2. QED
      BY <3>1
  <2>3. CASE r \in {Blind, Truncated}
    <3>1. Blind.what = "vision unavailable" /\ Truncated.what = "text truncated"
      BY <2>1 DEF Blind, Truncated
    <3>2. QED
      BY <2>3, <3>1
  <2>4. CASE r = Undetected /\ told # <<>>
    BY <2>1, <2>4 DEF Undetected
  <2>5. CASE r = Of("frames undecodable", Undecodable)
    BY <2>1, <2>5
  <2>6. CASE r = Of("frame descriptions failed", Undescribed)
    BY <2>1, <2>6
  <2>7. r \in ToSet(TimelineReports) \cup ToSet(reports) \cup ToSet(told) \cup {Truncated}
    BY <1>3, <1>7
  <2>8. CASE r \in ToSet(TimelineReports)
    BY <2>3, <2>5, <2>6, <2>8, TimelineTells
  <2>9. CASE r \in ToSet(told)
    BY <1>2, <2>4, <2>9
  <2>10. QED
    BY <1>4, <2>2, <2>3, <2>7, <2>8, <2>9
<1> HIDE DEF d
<1>8. d = ToSet(result'.degradations)
  BY DEF d
<1>9. QED
  BY <1>5, <1>6, <1>7, <1>8, ToldIsEnough

(* On the way to the words.                                                *)
LEMMA WordsTold ==
  ASSUME pc' # "idle", reports' \in Seq(WordReports),
         \A what \in failures' \ Untold : Report(what) \in ToSet(reports'),
         pc' \in {"locating", "probing", "captioning"} => failures' = {}
  PROVE  ReportsInv'
<1>1. FailuresTold'
  BY DEF FailuresTold, Rendering
<1>2. QED
  BY <1>1 DEF ReportsInv

LEMMA DroppedIsTold ==
  ASSUME NEW given, NEW source
  PROVE  /\ DroppedReport(given, source) \in Seq(WordReports)
         /\ \A what \in Lost(given, source) :
              Report(what) \in ToSet(DroppedReport(given, source))
<1> DEFINE r == Report(Outside(source))
<1>1. r \in WordReports
  BY DEF WordReports, Outside
<1>2. \/ DroppedReport(given, source) = <<r>> /\ Lost(given, source) = {Outside(source)}
      \/ DroppedReport(given, source) = <<>> /\ Lost(given, source) = {}
  BY DEF DroppedReport, Lost
<1>3. \A what \in {Outside(source)} : Report(what) = r
  OBVIOUS
<1> HIDE DEF r
<1>4. ToSet(<<r>>) = {r} /\ <<r>> \in Seq(WordReports)
  BY <1>1, SingleSet
<1>5. CASE DroppedReport(given, source) = <<r>> /\ Lost(given, source) = {Outside(source)}
  BY <1>3, <1>4, <1>5
<1>6. CASE DroppedReport(given, source) = <<>> /\ Lost(given, source) = {}
  BY <1>6
<1>7. QED
  BY <1>2, <1>5, <1>6

LEMMA ListeningTold ==
  ASSUME NEW video, NEW told \in Seq(WordReports), NEW failed, Listen(video, told, failed),
         \A what \in failed \ Untold : Report(what) \in ToSet(told)
  PROVE  ReportsInv'
<1>1. pc' \in {"extracting", "fetching"}
  BY DEF Listen, Fetch, GoOn
<1>2. reports' \in Seq(WordReports)
  BY ListenTells
<1>3. \A what \in failures' \ Untold : Report(what) \in ToSet(reports')
  BY ListenFails
<1>4. QED
  BY <1>1, <1>2, <1>3, WordsTold

LEMMA OneMoreReport ==
  ASSUME reports \in Seq(WordReports), NEW r \in WordReports
  PROVE  /\ Append(reports, r) \in Seq(WordReports)
         /\ ToSet(Append(reports, r)) = ToSet(reports) \cup {r}
  BY AppendSet

LEMMA NextReports == ReadInv /\ ReportsInv /\ [Next]_vars => ReportsInv'
<1> SUFFICES ASSUME ReadInv, ReportsInv, [Next]_vars PROVE ReportsInv'
  OBVIOUS
<1> DEFINE Unread == Report("captions not read")
           Broken == Report("caption extraction failed")
           Silent == Report("no speech detected")
<1>0. /\ Unread \in WordReports /\ Broken \in WordReports /\ Silent \in WordReports
      /\ reports \in Seq(WordReports) /\ <<>> \in Seq(WordReports)
  <2>1. Unread \in WordReports /\ Broken \in WordReports /\ Silent \in WordReports
    BY DEF WordReports
  <2>2. reports \in Seq(WordReports) /\ <<>> \in Seq(WordReports)
    BY DEF ReportsInv
  <2>3. QED
    BY <2>1, <2>2
<1>1. ASSUME NEW b \in Budgets, Represent(b) PROVE ReportsInv'
  BY <1>1, WordsTold DEF Represent
<1>2. ASSUME Locate \/ ExtractAudio PROVE ReportsInv'
  BY <1>2, WordsTold DEF Locate, ExtractAudio, GoOn, words, ReportsInv
<1>3. ASSUME Unreadable PROVE ReportsInv'
  <2>1. FailuresTold'
    BY <1>3, NothingIsTold DEF Unreadable, Over, laidOut, ReadInv, Before
  <2>2. QED
    BY <1>3, <2>1 DEF Unreadable, Over, ReportsInv
<1>4. ASSUME NEW v \in Videos, ProbeNoTimeline(v) PROVE ReportsInv'
  <2>1. FailuresTold'
    BY <1>4, NothingIsTold DEF ProbeNoTimeline, Over, laidOut, ReadInv, Before
  <2>2. QED
    BY <1>4, <2>1 DEF ProbeNoTimeline, Over, ReportsInv
<1>5. ASSUME NEW v \in Videos, ProbeTimeline(v) PROVE ReportsInv'
  <2>1. CASE v.subtitles /\ handler.captions
    <3>1. pc' = "captioning" /\ reports' = reports /\ failures' = failures /\ pc = "probing"
      BY <1>5, <2>1 DEF ProbeTimeline, GoOn
    <3>2. QED
      BY <3>1, WordsTold DEF ReportsInv
  <2>2. CASE v.subtitles /\ ~handler.captions
    <3>1. Listen(v, <<Unread>>, {"captions not read"})
      BY <1>5, <2>2 DEF ProbeTimeline
    <3>2. \A what \in {"captions not read"} : Report(what) = Unread
      OBVIOUS
    <3> HIDE DEF Unread
    <3>3. QED
      BY <1>0, <3>1, <3>2, SingleSet, ListeningTold
  <2>3. CASE ~v.subtitles
    <3>1. Listen(v, <<>>, {})
      BY <1>5, <2>3 DEF ProbeTimeline
    <3>2. QED
      BY <1>0, <3>1, ListeningTold
  <2>4. QED
    BY <2>1, <2>2, <2>3
<1>6. ASSUME NEW l \in CueLists, Captions(l) PROVE ReportsInv'
  <2>1. failures = {}
    BY <1>6 DEF Captions, ReportsInv
  <2>2. CASE Listen(facts, <<>>, failures \cup {NoCaptions(l)})
    <3>1. NoCaptions(l) \in Untold
      BY DEF NoCaptions, Untold
    <3>2. \A what \in (failures \cup {NoCaptions(l)}) \ Untold : Report(what) \in ToSet(<<>>)
      BY <2>1, <3>1
    <3>3. QED
      BY <1>0, <2>2, <3>2, ListeningTold
  <2>3. CASE /\ Fetch(facts, Heard(l, "captioned"))
             /\ reports' = DroppedReport(l, "captioned")
             /\ failures' = failures \cup Lost(l, "captioned")
    <3>1. pc' = "fetching"
      BY <2>3 DEF Fetch, GoOn
    <3>2. failures' = Lost(l, "captioned")
      BY <2>1, <2>3
    <3>3. QED
      BY <2>3, <3>1, <3>2, DroppedIsTold, WordsTold
  <2>4. QED
    BY <1>6, <2>2, <2>3 DEF Captions
<1>7. ASSUME CaptionsFail PROVE ReportsInv'
  <2>1. failures = {}
    BY <1>7 DEF CaptionsFail, ReportsInv
  <2>2. Listen(facts, <<Broken>>, {"caption extraction failed"})
    BY <1>7, <2>1 DEF CaptionsFail
  <2>3. \A what \in {"caption extraction failed"} : Report(what) = Broken
    OBVIOUS
  <2> HIDE DEF Broken
  <2>4. QED
    BY <1>0, <2>2, <2>3, SingleSet, ListeningTold
<1>8. ASSUME NEW at \in {"extracting", "transcribing"},
             NEW what \in {"audio track unavailable", "transcription failed"}, NoSpeech(at, what)
      PROVE  ReportsInv'
  <2> DEFINE r == Report(what)
  <2>1. r \in WordReports
    BY DEF WordReports
  <2>2. /\ reports' = Append(reports, r) /\ failures' = failures \cup {what}
        /\ pc' = "fetching" /\ pc # "idle"
    BY <1>8 DEF NoSpeech, Fail, Fetch, GoOn
  <2>3. \A w \in failures' \ Untold : Report(w) \in ToSet(reports) \cup {r}
    BY <2>2 DEF ReportsInv
  <2> HIDE DEF r
  <2>4. Append(reports, r) \in Seq(WordReports) /\ ToSet(Append(reports, r)) = ToSet(reports) \cup {r}
    BY <1>0, <2>1, OneMoreReport
  <2>5. QED
    BY <2>2, <2>3, <2>4, WordsTold
<1>9. ASSUME NEW l \in CueLists, Transcribe(l) PROVE ReportsInv'
  <2> DEFINE silent == IF Heard(l, "said") = <<>> THEN {"no speech detected"} ELSE {}
             last == IF silent = {} THEN <<>> ELSE <<Silent>>
  <2>1. /\ reports' = (reports \o DroppedReport(l, "said")) \o last
        /\ failures' = (failures \cup Lost(l, "said")) \cup silent
        /\ pc' = "fetching" /\ pc # "idle"
    BY <1>9 DEF Transcribe, Fetch, GoOn
  <2>2. \A w \in failures' \ Untold :
          \/ Report(w) \in ToSet(reports)
          \/ Report(w) \in ToSet(DroppedReport(l, "said"))
          \/ silent # {} /\ Report(w) = Silent
    BY <2>1, DroppedIsTold DEF ReportsInv
  <2> HIDE DEF Silent, silent
  <2>3. last \in Seq(WordReports) /\ (silent # {} => Silent \in ToSet(last))
    BY <1>0, SingleSet
  <2> HIDE DEF last
  <2>4. /\ reports' \in Seq(WordReports)
        /\ ToSet(reports') =
             (ToSet(reports) \cup ToSet(DroppedReport(l, "said"))) \cup ToSet(last)
    BY <2>1, <2>3, DroppedIsTold, ConcatThreeSet DEF ReportsInv
  <2>5. \A w \in failures' \ Untold : Report(w) \in ToSet(reports')
    BY <2>2, <2>3, <2>4
  <2>6. QED
    BY <2>1, <2>4, <2>5, WordsTold
<1>10. ASSUME NEW cuts \in CutSets, Detect(cuts) PROVE ReportsInv'
  <2>1. /\ result' = Assembled(Barriers(cuts), <<>>) /\ failures' = failures
        /\ UNCHANGED <<bounds, moment, reports>> /\ pc # "idle" /\ pc' = "idle"
    BY <1>10 DEF Detect, Over, words
  <2>2. FailuresTold'
    BY <2>1, TimelineIsTold
  <2>3. QED
    BY <2>1, <2>2 DEF ReportsInv
<1>11. ASSUME DetectFails PROVE ReportsInv'
  <2>1. /\ result' = Assembled(EntryBarriers, <<Undetected>>)
        /\ failures' = failures \cup {"scene detection failed"}
        /\ UNCHANGED <<bounds, moment, reports>> /\ pc # "idle" /\ pc' = "idle"
    BY <1>11 DEF DetectFails, Over, laidOut, Fail, Undetected
  <2>2. <<Undetected>> # <<>>
    OBVIOUS
  <2>3. FailuresTold'
    BY <2>1, <2>2, TimelineIsTold
  <2>4. QED
    BY <2>1, <2>3 DEF ReportsInv
<1>12. ASSUME Gather \/ Cancel PROVE ReportsInv'
  <2>1. UNCHANGED words /\ pc # "idle" /\ pc' \notin {"locating", "probing", "captioning"}
    BY <1>12 DEF Gather, Cancel, Over, GoOn
  <2>2. pc' = "idle" => result' = Raised
    BY <1>12 DEF Gather, Cancel, Over, GoOn
  <2>3. FailuresTold'
    BY <2>2 DEF FailuresTold, Rendering
  <2>4. QED
    BY <2>1, <2>3 DEF ReportsInv, words
<1>13. ASSUME NEW i \in DOMAIN moment, Goes(i) PROVE ReportsInv'
  BY <1>13, WordsTold DEF Goes, words, ReportsInv
<1>14. ASSUME UNCHANGED read PROVE ReportsInv'
  BY ZenonT(30), <1>14 DEF read, words, ReportsInv, FailuresTold, Rendering, Told, StartsOf
<1>15. QED
  BY <1>1, <1>2, <1>3, <1>4, <1>5, <1>6, <1>7, <1>8, <1>9, <1>10, <1>11, <1>12, <1>13,
     <1>14, MomentSteps, Asks DEF Next, Port, vars

(* Whatever failed a read is named by what it renders, whichever way it    *)
(* went to its words and wherever the budget cut it off.                   *)
THEOREM FailuresAreTold == Spec => []FailuresTold
<1>1. ReportsInv => FailuresTold
  BY DEF ReportsInv
<1>2. QED
  BY <1>1, InitRead, NextRead, InitReports, NextReports, PTL DEF Spec

----------------------------------------------------------------------------
(* What comes in order: numbers, and places of a sequence.                 *)

(* Numbers in order.                                                       *)
LEMMA NumbersInOrder ==
  ASSUME NEW S \in SUBSET Int, IsFiniteSet(S)
  PROVE  LET s == InOrder(S, <)
         IN  /\ s \in Seq(S) /\ Len(s) = Cardinality(S)
             /\ \A x \in S : \E k \in DOMAIN s : s[k] = x
             /\ \A j, k \in DOMAIN s : j < k => s[j] < s[k]
<1> DEFINE R == {p \in S \X S : p[1] < p[2]}
<1>1. \A x, y \in S : <<x, y>> \in R <=> x < y
  OBVIOUS
<1> HIDE DEF R
<1>2. StrictlyOrders(R, S)
  BY <1>1 DEF StrictlyOrders
<1>3. \A x \in S : Rank(R, S, x) = Cardinality({y \in S : y < x})
  <2> TAKE x \in S
  <2>1. {y \in S : <<y, x>> \in R} = {y \in S : y < x}
    BY <1>1
  <2>2. QED
    BY <2>1 DEF Rank
<1>4. InOrder(S, <) = Sorted(R, S)
  <2> DEFINE n == Cardinality(S)
             C(k) == CHOOSE x \in S : Cardinality({y \in S : y < x}) = k - 1
             D(k) == CHOOSE x \in S : Rank(R, S, x) = k - 1
  <2>1. InOrder(S, <) = [k \in 1 .. n |-> C(k)]
    BY DEF InOrder
  <2>2. Sorted(R, S) = [k \in 1 .. n |-> D(k)]
    BY DEF Sorted
  <2>3. \A k \in 1 .. n : C(k) = D(k)
    BY <1>3
  <2> HIDE DEF C, D
  <2>4. QED
    BY <2>1, <2>2, <2>3, Zenon
<1> DEFINE s == Sorted(R, S)
<1>5. /\ s \in Seq(S) /\ Len(s) = Cardinality(S)
      /\ \A x \in S : \E k \in DOMAIN s : s[k] = x
      /\ \A j, k \in DOMAIN s : j < k => <<s[j], s[k]>> \in R
  BY <1>2, SortedProperties
<1> HIDE DEF s
<1>6. ASSUME NEW j \in DOMAIN s, NEW k \in DOMAIN s, j < k PROVE s[j] < s[k]
  <2>1. s[j] \in S /\ s[k] \in S
    BY <1>5
  <2>2. <<s[j], s[k]>> \in R
    BY <1>5, <1>6
  <2>3. QED
    BY <1>1, <2>1, <2>2
<1>7. QED
  BY <1>4, <1>5, <1>6 DEF s

(* What a sequence has at some of its places is no longer than it is, and  *)
(* comes in the same order.                                                *)
LEMMA ThoseProperties ==
  ASSUME NEW T, NEW seq \in Seq(T), NEW I \in SUBSET (DOMAIN seq)
  PROVE  LET r == Those(seq, I)
             p == InOrder(I, <)
         IN  /\ r \in Seq(T) /\ DOMAIN r = DOMAIN p /\ Len(r) = Cardinality(I)
             /\ Len(r) <= Len(seq)
             /\ \A k \in DOMAIN r : p[k] \in I /\ r[k] = seq[p[k]]
             /\ \A i \in I : \E k \in DOMAIN r : r[k] = seq[i]
             /\ \A j, k \in DOMAIN r : j < k => p[j] < p[k]
<1> DEFINE r == Those(seq, I)
           p == InOrder(I, <)
           n == Len(seq)
<1>1. n \in Nat /\ DOMAIN seq = 1 .. n
  OBVIOUS
<1>2. IsFiniteSet(I) /\ Cardinality(I) <= n /\ I \in SUBSET Int
  <2> HIDE DEF n
  <2>1. IsFiniteSet(1 .. n) /\ Cardinality(1 .. n) = n
    BY <1>1, FS_Interval
  <2>2. QED
    BY <1>1, <2>1, FS_Subset
<1>3. /\ p \in Seq(I) /\ Len(p) = Cardinality(I)
      /\ \A x \in I : \E k \in DOMAIN p : p[k] = x
      /\ \A j, k \in DOMAIN p : j < k => p[j] < p[k]
  BY <1>2, NumbersInOrder
<1>4. r = [k \in DOMAIN p |-> seq[p[k]]]
  BY DEF Those
<1> HIDE DEF p, r, n
<1>5. \A k \in DOMAIN p : p[k] \in I /\ seq[p[k]] \in T
  BY <1>3
<1>6. DOMAIN p = 1 .. Cardinality(I) /\ Cardinality(I) \in Nat
  BY <1>3
<1>7. r \in [1 .. Cardinality(I) -> T]
  BY <1>4, <1>5, <1>6
<1>8. r \in Seq(T) /\ Len(r) = Cardinality(I) /\ DOMAIN r = DOMAIN p
  BY <1>4, <1>6, <1>7
<1>9. \A i \in I : \E k \in DOMAIN r : r[k] = seq[i]
  BY <1>3, <1>4
<1>10. QED
  BY <1>2, <1>3, <1>4, <1>5, <1>8, <1>9 DEF p, r, n

(* The first m places give the first m of it.                              *)
LEMMA ThoseOfPrefix ==
  ASSUME NEW T, NEW seq \in Seq(T), NEW m \in 0 .. Len(seq)
  PROVE  LET r == Those(seq, 1 .. m)
         IN  r \in Seq(T) /\ Len(r) = m /\ \A k \in 1 .. m : r[k] = seq[k]
<1> DEFINE I == 1 .. m
           r == Those(seq, I)
           p == InOrder(I, <)
<1>1. m \in Nat /\ Len(seq) \in Nat /\ I \in SUBSET (DOMAIN seq)
  OBVIOUS
<1>2. IsFiniteSet(I) /\ Cardinality(I) = m
  BY <1>1, FS_Interval
<1> HIDE DEF I
<1>3. /\ r \in Seq(T) /\ DOMAIN r = DOMAIN p /\ Len(r) = m
      /\ \A k \in DOMAIN r : p[k] \in I /\ r[k] = seq[p[k]]
  BY <1>1, <1>2, ThoseProperties
<1>4. \A x \in I : Cardinality({y \in I : y < x}) = x - 1
  <2> TAKE x \in I
  <2>1. {y \in I : y < x} = 1 .. x - 1 /\ x \in Nat \ {0}
    BY <1>1 DEF I
  <2>2. Cardinality(1 .. x - 1) = x - 1
    BY <2>1, FS_Interval
  <2>3. QED
    BY <2>1, <2>2
<1>5. ASSUME NEW k \in I PROVE p[k] = k
  <2> DEFINE C(j) == CHOOSE x \in I : Cardinality({y \in I : y < x}) = j - 1
  <2>1. p = [j \in 1 .. Cardinality(I) |-> C(j)]
    BY DEF InOrder
  <2>2. C(k) \in I /\ Cardinality({y \in I : y < C(k)}) = k - 1
    <3>1. Cardinality({y \in I : y < k}) = k - 1
      BY <1>4
    <3>2. QED
      BY <3>1
  <2> HIDE DEF C
  <2>3. C(k) - 1 = k - 1 /\ C(k) \in Int /\ k \in Int
    BY <1>4, <2>2 DEF I
  <2>4. k \in 1 .. Cardinality(I)
    BY <1>2 DEF I
  <2> HIDE DEF p
  <2>5. p[k] = C(k)
    BY <2>1, <2>4
  <2>6. QED
    BY <2>3, <2>5
<1> HIDE DEF r, p
<1>6. DOMAIN r = I
  BY <1>1, <1>3 DEF I
<1>7. QED
  BY <1>3, <1>5, <1>6 DEF r, I

(* Some places, in order, that it has its elements from.                   *)
LEMMA ThosePlaces ==
  ASSUME NEW T, NEW seq \in Seq(T), NEW I \in SUBSET (DOMAIN seq)
  PROVE  LET r == Those(seq, I)
         IN  /\ r \in Seq(T) /\ Len(r) <= Len(seq)
             /\ \E p : /\ \A k \in DOMAIN r : p[k] \in I /\ r[k] = seq[p[k]]
                       /\ \A j, k \in DOMAIN r : j < k => p[j] < p[k]
<1> DEFINE r == Those(seq, I)
           p == InOrder(I, <)
<1>1. /\ r \in Seq(T) /\ Len(r) <= Len(seq)
      /\ \A k \in DOMAIN r : p[k] \in I /\ r[k] = seq[p[k]]
      /\ \A j, k \in DOMAIN r : j < k => p[j] < p[k]
  BY ThoseProperties
<1> HIDE DEF r, p
<1>2. QED
  BY <1>1 DEF r

----------------------------------------------------------------------------
(* Spans                                                                   *)

(* Where the k-th of some starts belongs when each span has its width.     *)
Pushed(at, width, k) == {at[j] + (k - j) * width : j \in 1 .. k}
IsPlace(at, width, k, p) == p \in Pushed(at, width, k) /\ \A q \in Pushed(at, width, k) : q <= p
PlaceOf(at, width, k) == CHOOSE p \in Pushed(at, width, k) : \A q \in Pushed(at, width, k) : q <= p

LEMMA PlacesStep ==
  ASSUME NEW at \in Seq(Int), NEW width \in Nat, NEW k \in 1 .. Len(at) - 1,
         NEW p, IsPlace(at, width, k, p)
  PROVE  IsPlace(at, width, k + 1, Greater(at[k + 1], p + width))
<1> DEFINE new == Greater(at[k + 1], p + width)
<1>1. /\ k \in Nat \ {0} /\ k + 1 \in Nat \ {0}
      /\ \A j \in 1 .. k + 1 : at[j] \in Int /\ j \in Int
  OBVIOUS
<1>2. \A j \in 1 .. k : (k + 1 - j) * width = (k - j) * width + width
  BY <1>1
<1>3. (k + 1 - (k + 1)) * width = 0
  BY <1>1
<1>4. PICK i \in 1 .. k : p = at[i] + (k - i) * width
  BY DEF IsPlace, Pushed
<1>5. (k - i) * width \in Int /\ p \in Int /\ p + width = at[i] + (k + 1 - i) * width
  BY <1>1, <1>2, <1>4
<1>6. new \in Pushed(at, width, k + 1)
  <2>1. at[k + 1] \in Pushed(at, width, k + 1)
    <3>1. k + 1 \in 1 .. k + 1 /\ at[k + 1] = at[k + 1] + (k + 1 - (k + 1)) * width
      BY <1>1, <1>3
    <3>2. \E j \in 1 .. k + 1 : at[k + 1] = at[j] + (k + 1 - j) * width
      BY <3>1
    <3>3. QED
      BY <3>2 DEF Pushed
  <2>2. p + width \in Pushed(at, width, k + 1)
    <3>1. i \in 1 .. k + 1
      BY <1>1
    <3>2. QED
      BY <1>5, <3>1 DEF Pushed
  <2>3. QED
    BY <2>1, <2>2 DEF Greater
<1>7. ASSUME NEW j \in 1 .. k + 1 PROVE at[j] + (k + 1 - j) * width <= new
  <2>1. CASE j = k + 1
    BY <1>1, <1>3, <1>5, <2>1 DEF Greater
  <2>2. CASE j # k + 1
    <3>1. j \in 1 .. k
      BY <1>1, <2>2
    <3>2. at[j] + (k - j) * width <= p
      BY <3>1 DEF IsPlace, Pushed
    <3>3. (k - j) * width \in Int
      BY <1>1
    <3>4. at[j] + (k + 1 - j) * width <= p + width
      BY <1>1, <1>2, <1>5, <3>1, <3>2, <3>3, SMTT(20)
    <3>5. p + width <= new
      BY <1>1, <1>5 DEF Greater
    <3>6. QED
      BY <1>1, <1>2, <1>5, <3>1, <3>3, <3>4, <3>5 DEF Greater
  <2>3. QED
    BY <2>1, <2>2
<1>8. QED
  BY <1>6, <1>7 DEF IsPlace, Pushed

LEMMA PlacesExist ==
  ASSUME NEW at \in Seq(Int), NEW width \in Nat, NEW k \in 1 .. Len(at)
  PROVE  IsPlace(at, width, k, PlaceOf(at, width, k)) /\ PlaceOf(at, width, k) \in Int
<1> DEFINE n == Len(at)
           S == {i \in 0 .. n - 1 : \E p : IsPlace(at, width, i + 1, p)}
<1>1. n \in Nat /\ 0 \in 0 .. n - 1
  OBVIOUS
<1>2. 0 \in S
  <2>1. at[1] \in Int /\ (1 - 1) * width = 0
    OBVIOUS
  <2>2. IsPlace(at, width, 0 + 1, at[1])
    BY <2>1 DEF IsPlace, Pushed
  <2>3. QED
    BY <1>1, <2>2
<1>3. ASSUME NEW i \in 0 .. (n - 1) - 1, i \in S PROVE i + 1 \in S
  <2>1. PICK p : IsPlace(at, width, i + 1, p)
    BY <1>3
  <2>2. i + 1 \in 1 .. n - 1 /\ i + 1 \in 0 .. n - 1
    BY <1>1
  <2>3. \E q : IsPlace(at, width, (i + 1) + 1, q)
    BY <2>1, <2>2, PlacesStep
  <2>4. QED
    BY <2>2, <2>3
<1>4. k - 1 \in S
  <2> HIDE DEF S
  <2>1. n - 1 \in Nat /\ k - 1 \in 0 .. n - 1
    BY <1>1
  <2>2. 0 .. n - 1 \subseteq S
    BY <1>2, <1>3, <2>1, InductionUpTo
  <2>3. QED
    BY <2>1, <2>2
<1>5. PICK p : IsPlace(at, width, k, p)
  BY <1>1, <1>4
<1>6. IsPlace(at, width, k, PlaceOf(at, width, k))
  BY <1>5 DEF IsPlace, PlaceOf
<1>7. Pushed(at, width, k) \subseteq Int
  <2>1. \A j \in 1 .. k : at[j] \in Int /\ (k - j) * width \in Int
    OBVIOUS
  <2>2. QED
    BY <2>1 DEF Pushed
<1>8. QED
  BY <1>6, <1>7 DEF IsPlace

(* Each belongs where the one before leaves room, and not before its time. *)
LEMMA PlaceAfter ==
  ASSUME NEW at \in Seq(Int), NEW width \in Nat, NEW k \in 1 .. Len(at) - 1
  PROVE  PlaceOf(at, width, k + 1) = Greater(at[k + 1], PlaceOf(at, width, k) + width)
<1> DEFINE p == PlaceOf(at, width, k)
           q == PlaceOf(at, width, k + 1)
           new == Greater(at[k + 1], p + width)
<1>1. k \in 1 .. Len(at) /\ k + 1 \in 1 .. Len(at)
  OBVIOUS
<1>2. IsPlace(at, width, k, p) /\ IsPlace(at, width, k + 1, q) /\ p \in Int /\ q \in Int
  BY <1>1, PlacesExist
<1> HIDE DEF p, q
<1>3. IsPlace(at, width, k + 1, new)
  BY <1>2, PlacesStep
<1> HIDE DEF new
<1>4. q <= new /\ new <= q
  BY <1>2, <1>3 DEF IsPlace
<1>5. new \in Int
  <2>1. at[k + 1] \in Int
    BY <1>1
  <2>2. QED
    BY <1>2, <2>1 DEF new, Greater
<1>6. q = new
  BY <1>2, <1>4, <1>5
<1>7. QED
  BY <1>6 DEF p, q, new

LEMMA FirstPlace ==
  ASSUME NEW at \in Seq(Int), NEW width \in Nat, at # <<>>
  PROVE  PlaceOf(at, width, 1) = at[1]
<1>1. 1 \in 1 .. Len(at) /\ at[1] \in Int /\ (1 - 1) * width = 0
  OBVIOUS
<1>2. Pushed(at, width, 1) = {at[1]}
  BY <1>1 DEF Pushed
<1>3. QED
  BY <1>1, <1>2, PlacesExist DEF IsPlace

(* ... up to the end of the file, past which they are an epsilon apart.    *)
LateOf(at, width, duration, k) == {j \in 1 .. k - 1 : PlaceOf(at, width, j) >= duration}
StartOf(at, width, duration, k) ==
  IF PlaceOf(at, width, k) < duration THEN PlaceOf(at, width, k)
  ELSE duration + Epsilon * Cardinality(LateOf(at, width, duration, k))

LEMMA LateStep ==
  ASSUME NEW at, NEW width, NEW duration, NEW k \in Nat \ {0}
  PROVE  /\ IsFiniteSet(LateOf(at, width, duration, k))
         /\ Cardinality(LateOf(at, width, duration, k)) \in 0 .. k - 1
         /\ Cardinality(LateOf(at, width, duration, k + 1)) =
              Cardinality(LateOf(at, width, duration, k))
                + (IF PlaceOf(at, width, k) >= duration THEN 1 ELSE 0)
<1> DEFINE L == LateOf(at, width, duration, k)
           M == LateOf(at, width, duration, k + 1)
           late == PlaceOf(at, width, k) >= duration
<1>1. IsFiniteSet(1 .. k - 1) /\ Cardinality(1 .. k - 1) = k - 1
  BY FS_Interval
<1>2. L \in SUBSET (1 .. k - 1)
  BY DEF LateOf
<1>3. IsFiniteSet(L) /\ Cardinality(L) \in Nat /\ Cardinality(L) <= k - 1
  BY <1>1, <1>2, FS_Subset, FS_CardinalityType
<1>4. k \notin L /\ M = IF late THEN L \cup {k} ELSE L
  <2>1. 1 .. (k + 1) - 1 = (1 .. k - 1) \cup {k} /\ k \notin 1 .. k - 1
    OBVIOUS
  <2>2. M = {j \in (1 .. k - 1) \cup {k} : PlaceOf(at, width, j) >= duration}
    BY <2>1 DEF LateOf
  <2>3. k \notin L
    BY <1>2, <2>1
  <2>4. QED
    BY <2>2, <2>3 DEF LateOf
<1>5. Cardinality(L \cup {k}) = Cardinality(L) + 1
  BY <1>3, <1>4, FS_AddElement
<1> HIDE DEF L, M, late
<1>6. Cardinality(M) = Cardinality(L) + (IF late THEN 1 ELSE 0)
  BY <1>3, <1>4, <1>5
<1>7. QED
  BY <1>3, <1>6 DEF L, M, late

(* Until one belongs at the end of the file or beyond, none is late, and   *)
(* from then on all are.                                                   *)
LEMMA LateOnce ==
  ASSUME NEW at \in Seq(Int), NEW width \in Nat \ {0}, NEW duration \in Nat \ {0},
         at # <<>>, at[1] = 0, NEW k \in 1 .. Len(at),
         PlaceOf(at, width, k) < duration
  PROVE  LateOf(at, width, duration, k) = {}
<1> DEFINE n == Len(at)
           P(i) == PlaceOf(at, width, i)
           S == {i \in 0 .. n - 1 : \A j \in 1 .. i + 1 : P(j) <= P(i + 1)}
<1>1. n \in Nat /\ 0 \in 0 .. n - 1 /\ \A i \in 1 .. n : P(i) \in Int
  BY PlacesExist
<1> HIDE DEF P
<1>2. 0 \in S
  BY <1>1
<1>3. ASSUME NEW i \in 0 .. (n - 1) - 1, i \in S PROVE i + 1 \in S
  <2>1. i + 1 \in 1 .. n - 1 /\ i + 1 \in 0 .. n - 1 /\ i \in Nat
    BY <1>1
  <2>2. P((i + 1) + 1) = Greater(at[(i + 1) + 1], P(i + 1) + width)
    BY <2>1, PlaceAfter DEF P
  <2>3. P(i + 1) \in Int /\ P((i + 1) + 1) \in Int /\ at[(i + 1) + 1] \in Int
    BY <1>1, <2>1
  <2>4. P(i + 1) <= P((i + 1) + 1)
    BY <2>2, <2>3 DEF Greater
  <2>5. ASSUME NEW j \in 1 .. (i + 1) + 1 PROVE P(j) <= P((i + 1) + 1)
    <3>1. CASE j = (i + 1) + 1
      BY <2>3, <3>1
    <3>2. CASE j # (i + 1) + 1
      <4>1. j \in 1 .. i + 1 /\ j \in 1 .. n
        BY <2>1, <3>2
      <4>2. P(j) <= P(i + 1) /\ P(j) \in Int
        BY <1>1, <1>3, <4>1
      <4>3. QED
        BY <2>3, <2>4, <4>2
    <3>3. QED
      BY <3>1, <3>2
  <2>6. QED
    BY <2>1, <2>5
<1>4. k - 1 \in S
  <2> HIDE DEF S
  <2>1. n - 1 \in Nat /\ k - 1 \in 0 .. n - 1
    BY <1>1
  <2>2. 0 .. n - 1 \subseteq S
    BY <1>2, <1>3, <2>1, InductionUpTo
  <2>3. QED
    BY <2>1, <2>2
<1>5. ASSUME NEW j \in 1 .. k - 1 PROVE ~(P(j) >= duration)
  <2>1. (k - 1) + 1 = k /\ j \in 1 .. (k - 1) + 1 /\ j \in 1 .. n
    BY <1>1
  <2>2. P(j) <= P(k) /\ P(j) \in Int /\ P(k) \in Int /\ P(k) < duration
    BY <1>1, <1>4, <2>1 DEF P
  <2>3. QED
    BY <2>2
<1>6. QED
  BY <1>5 DEF LateOf, P

(* That is what the loop of tile computes, one start from the other.       *)
NextStart(at, width, duration, k, before) ==
  LET wanted == Lesser(Greater(at[k], before + width), duration)
  IN  IF wanted > before THEN wanted ELSE before + Epsilon

LEMMA StartStep ==
  ASSUME NEW at \in Seq(Int), NEW width \in Nat \ {0}, NEW duration \in Nat \ {0},
         at # <<>>, at[1] = 0, NEW k \in 1 .. Len(at) - 1
  PROVE  LET s == StartOf(at, width, duration, k)
             t == StartOf(at, width, duration, k + 1)
         IN  s \in Int /\ t \in Int /\ s < t /\ t = NextStart(at, width, duration, k + 1, s)
<1> DEFINE s == StartOf(at, width, duration, k)
           t == StartOf(at, width, duration, k + 1)
           p == PlaceOf(at, width, k)
           q == PlaceOf(at, width, k + 1)
           l == Cardinality(LateOf(at, width, duration, k))
           m == Cardinality(LateOf(at, width, duration, k + 1))
<1>1. k \in 1 .. Len(at) /\ k + 1 \in 1 .. Len(at) /\ k \in Nat \ {0} /\ at[k + 1] \in Int
  OBVIOUS
<1>2. p \in Int /\ q \in Int
  BY <1>1, PlacesExist
<1>3. q = Greater(at[k + 1], p + width)
  BY PlaceAfter
<1>4. l \in Nat /\ m = l + (IF p >= duration THEN 1 ELSE 0)
  BY <1>1, LateStep
<1>5. p < duration => l = 0
  BY <1>1, LateOnce, FS_EmptySet
<1>6. /\ s = IF p < duration THEN p ELSE duration + l
      /\ t = IF q < duration THEN q ELSE duration + m
  BY <1>4 DEF StartOf, Epsilon
<1> HIDE DEF s, t, p, q, l, m
<1>7. CASE p < duration
  <2>1. s = p /\ m = 0
    BY <1>2, <1>4, <1>5, <1>6, <1>7
  <2>2. t = Lesser(q, duration) /\ p < q
    BY <1>1, <1>2, <1>3, <1>6, <1>7, <2>1 DEF Lesser, Greater
  <2>3. s < t /\ t \in Int /\ s \in Int
    BY <1>2, <1>7, <2>1, <2>2 DEF Lesser
  <2>4. t = NextStart(at, width, duration, k + 1, s)
    BY <1>3, <2>1, <2>2, <2>3 DEF NextStart
  <2>5. QED
    BY <2>3, <2>4 DEF s, t
<1>8. CASE ~(p < duration)
  <2>1. s = duration + l /\ m = l + 1 /\ q >= duration
    BY <1>1, <1>2, <1>3, <1>4, <1>6, <1>8 DEF Greater
  <2>2. t = s + 1 /\ s >= duration /\ s \in Int /\ t \in Int
    BY <1>2, <1>4, <1>6, <2>1
  <2>3. ~(Lesser(Greater(at[k + 1], s + width), duration) > s)
    BY <1>1, <2>2 DEF Lesser, Greater
  <2>4. t = NextStart(at, width, duration, k + 1, s)
    BY <2>2, <2>3 DEF NextStart, Epsilon
  <2>5. QED
    BY <2>2, <2>4 DEF s, t
<1>9. QED
  BY <1>7, <1>8

LEMMA ForcedStarts ==
  ASSUME NEW at \in Seq(Int), NEW width \in Nat \ {0}, NEW duration \in Nat \ {0},
         at # <<>>, at[1] = 0
  PROVE  /\ DOMAIN Forced(at, duration, width) = 1 .. Len(at)
         /\ \A k \in 1 .. Len(at) :
              Forced(at, duration, width)[k] = StartOf(at, width, duration, k)
<1> DEFINE n == Len(at)
           Start(k) == StartOf(at, width, duration, k)
           Step(f) == [i \in DOMAIN at |->
                        IF i = 1 THEN 0 ELSE NextStart(at, width, duration, i, f[i - 1])]
           forced == CHOOSE f : f = Step(f)
           g == [i \in DOMAIN at |-> Start(i)]
           S == {i \in 0 .. n - 1 : forced[i + 1] = Start(i + 1)}
<1>1. n \in Nat \ {0} /\ DOMAIN at = 1 .. n
  OBVIOUS
<1>2. Start(1) = 0
  <2>1. PlaceOf(at, width, 1) = 0
    BY FirstPlace
  <2>2. QED
    BY <2>1 DEF StartOf
<1>3. \A k \in 1 .. n - 1 : Start(k + 1) = NextStart(at, width, duration, k + 1, Start(k))
  BY StartStep
<1> HIDE DEF Start
<1>4. ASSUME NEW i \in DOMAIN at
      PROVE  g[i] = IF i = 1 THEN 0 ELSE NextStart(at, width, duration, i, g[i - 1])
  <2>1. CASE i = 1
    BY <1>1, <1>2, <2>1
  <2>2. CASE i # 1
    <3>1. i - 1 \in 1 .. n - 1 /\ i - 1 \in DOMAIN at /\ (i - 1) + 1 = i
      BY <1>1, <2>2
    <3>2. Start(i) = NextStart(at, width, duration, i, Start(i - 1))
      BY <1>3, <3>1
    <3>3. QED
      BY <1>1, <2>2, <3>1, <3>2
  <2>3. QED
    BY <2>1, <2>2
<1>5. g = Step(g)
  BY <1>4
<1>6. forced = Step(forced)
  BY <1>5, Zenon
<1>7. Forced(at, duration, width) = forced
  BY DEF Forced, NextStart
<1> HIDE DEF forced
<1>8. 0 \in S
  BY <1>1, <1>2, <1>6
<1>9. ASSUME NEW i \in 0 .. (n - 1) - 1, i \in S PROVE i + 1 \in S
  <2>1. /\ i + 1 \in 1 .. n - 1 /\ i + 1 \in 0 .. n - 1 /\ (i + 1) + 1 \in 1 .. n
        /\ (i + 1) + 1 # 1 /\ ((i + 1) + 1) - 1 = i + 1
    BY <1>1
  <2>2. forced[(i + 1) + 1]
          = IF (i + 1) + 1 = 1 THEN 0
            ELSE NextStart(at, width, duration, (i + 1) + 1, forced[((i + 1) + 1) - 1])
    BY <1>1, <1>6, <2>1
  <2>3. forced[(i + 1) + 1] = NextStart(at, width, duration, (i + 1) + 1, Start(i + 1))
    BY <1>9, <2>1, <2>2
  <2>4. QED
    BY <1>3, <2>1, <2>3
<1>10. ASSUME NEW k \in 1 .. n PROVE forced[k] = Start(k)
  <2> HIDE DEF S
  <2>1. n - 1 \in Nat /\ k - 1 \in 0 .. n - 1 /\ (k - 1) + 1 = k
    BY <1>1
  <2>2. 0 .. n - 1 \subseteq S
    BY <1>8, <1>9, <2>1, InductionUpTo
  <2>3. k - 1 \in S
    BY <2>1, <2>2
  <2>4. QED
    BY <2>1, <2>3 DEF S
<1>11. DOMAIN forced = 1 .. n
  BY <1>1, <1>6
<1>12. QED
  BY <1>7, <1>10, <1>11 DEF Start

(* "Total, gapless, zero-start coverage" (timeline.py:12): the spans tile  *)
(* the file, whatever entries coincide, crowd its end or lie beyond; and   *)
(* "no returned end may exceed duration_s + min_width_s" (timeline.py:55), *)
(* as long as there are no more entries than epsilons in a width.          *)
THEOREM SpansTileTheFile ==
  ASSUME NEW starts \in Seq(Int), NEW width \in Nat \ {0}, NEW duration \in Nat \ {0},
         starts # <<>>, starts[1] = 0, Len(starts) <= width
  PROVE  LET spans == Tile(starts, duration, width)
             n == Len(starts)
         IN  /\ spans \in [1 .. n -> [start : Int, end : Int]]
             /\ spans[1].start = 0 /\ spans[n].end >= duration
             /\ \A k \in 1 .. n :
                  /\ spans[k].start = StartOf(starts, width, duration, k)
                  /\ 0 <= spans[k].start /\ spans[k].start < spans[k].end
                  /\ spans[k].end <= duration + width
                  /\ k < n => spans[k].end = spans[k + 1].start
<1> DEFINE n == Len(starts)
           F == Forced(starts, duration, width)
           spans == Tile(starts, duration, width)
           Start(k) == StartOf(starts, width, duration, k)
           last == Lesser(Greater(duration, F[n] + width), duration + width)
<1>1. n \in Nat \ {0} /\ DOMAIN starts = 1 .. n /\ n <= width /\ 1 \in 1 .. n /\ n \in 1 .. n
  OBVIOUS
<1>2. \A k \in 1 .. n : F[k] = Start(k)
  BY ForcedStarts
<1>3. Start(1) = 0
  <2>1. PlaceOf(starts, width, 1) = 0
    BY FirstPlace
  <2>2. QED
    BY <2>1 DEF StartOf
<1>4. \A k \in 1 .. n - 1 : Start(k) \in Int /\ Start(k + 1) \in Int /\ Start(k) < Start(k + 1)
  BY StartStep
<1>5. ASSUME NEW k \in 1 .. n PROVE Start(k) \in Int /\ Start(k) < duration + width
  <2> DEFINE late == Cardinality(LateOf(starts, width, duration, k))
  <2>1. late \in 0 .. k - 1 /\ PlaceOf(starts, width, k) \in Int
    BY <1>1, LateStep, PlacesExist
  <2>2. late \in Nat /\ late < width
    BY <1>1, <2>1
  <2> HIDE DEF late
  <2>3. Start(k) = IF PlaceOf(starts, width, k) < duration THEN PlaceOf(starts, width, k)
                   ELSE duration + late
    BY <2>2 DEF StartOf, Epsilon, late
  <2> HIDE DEF Start
  <2>4. QED
    BY <2>1, <2>2, <2>3
<1> HIDE DEF Start, F
<1>6. \A k \in 1 .. n : 0 <= Start(k)
  <2> DEFINE S == {i \in 0 .. n - 1 : 0 <= Start(i + 1)}
  <2>1. 0 \in S /\ n - 1 \in Nat
    BY <1>1, <1>3
  <2>2. ASSUME NEW i \in 0 .. (n - 1) - 1, i \in S PROVE i + 1 \in S
    <3>1. i + 1 \in 1 .. n - 1 /\ i + 1 \in 0 .. n - 1
      BY <1>1
    <3>2. QED
      BY <1>4, <2>2, <3>1
  <2> HIDE DEF S
  <2>3. 0 .. n - 1 \subseteq S
    BY <2>1, <2>2, InductionUpTo
  <2>4. ASSUME NEW k \in 1 .. n PROVE 0 <= Start(k)
    <3>1. k - 1 \in 0 .. n - 1 /\ (k - 1) + 1 = k
      BY <1>1
    <3>2. QED
      BY <2>3, <3>1 DEF S
  <2>5. QED
    BY <2>4
<1>7. F[n] = Start(n) /\ F[n] \in Int /\ F[n] < duration + width
  BY <1>1, <1>2, <1>5
<1>8. last \in Int /\ last > F[n] /\ last >= duration /\ last <= duration + width
  BY <1>7 DEF Lesser, Greater
<1> HIDE DEF last
<1>9. spans = [k \in 1 .. n |-> [start |-> F[k], end |-> IF k < n THEN F[k + 1] ELSE last]]
  BY <1>1 DEF Tile, F, last
<1> HIDE DEF spans
<1>10. ASSUME NEW k \in 1 .. n
       PROVE  /\ spans[k] \in [start : Int, end : Int]
              /\ spans[k].start = Start(k)
              /\ spans[k].end = IF k < n THEN Start(k + 1) ELSE last
              /\ spans[k].start < spans[k].end
              /\ spans[k].end <= duration + width
  <2>1. spans[k] = [start |-> F[k], end |-> IF k < n THEN F[k + 1] ELSE last] /\ F[k] = Start(k)
    BY <1>2, <1>9
  <2>2. CASE k < n
    <3>1. k \in 1 .. n - 1 /\ k + 1 \in 1 .. n
      BY <1>1, <2>2
    <3>2. F[k + 1] = Start(k + 1) /\ Start(k) < Start(k + 1) /\ Start(k) \in Int
          /\ Start(k + 1) \in Int /\ Start(k + 1) < duration + width
      BY <1>2, <1>4, <1>5, <3>1
    <3>3. QED
      BY <2>1, <2>2, <3>2
  <2>3. CASE ~(k < n)
    <3> HIDE DEF n
    <3>1. k = n
      BY <1>1, <2>3
    <3>2. spans[k] = [start |-> F[n], end |-> last]
      BY <2>1, <2>3, <3>1
    <3>3. QED
      BY <1>7, <1>8, <2>3, <3>1, <3>2
  <2>4. QED
    BY <2>2, <2>3
<1>11. spans \in [1 .. n -> [start : Int, end : Int]]
  BY <1>9, <1>10
<1>12. spans[1].start = 0 /\ spans[n].end = last
  BY <1>1, <1>3, <1>10
<1>13. ASSUME NEW k \in 1 .. n, k < n PROVE spans[k].end = spans[k + 1].start
  <2>1. k + 1 \in 1 .. n
    BY <1>1, <1>13
  <2>2. QED
    BY <1>10, <1>13, <2>1
<1>14. QED
  BY <1>6, <1>8, <1>10, <1>11, <1>12, <1>13 DEF spans, Start

----------------------------------------------------------------------------
(* The text of a timeline                                                  *)

SaysOf(es, cs, ms, i) == IF es[i].cue = 0 THEN ms[i] ELSE cs[es[i].cue].source
LengthOf(es, cs, ms, i) == ChunkLength[SaysOf(es, cs, ms, i)]

OffsetsOf(es, cs, ms) ==
  LET offset[i \in 1 .. Len(es) + 1] ==
        IF i = 1 THEN 0 ELSE offset[i - 1] + ChunkLength[SaysOf(es, cs, ms, i - 1)]
  IN  offset

TextOf(es, cs, ms) ==
  FlattenSeq([i \in DOMAIN es |->
    [k \in 1 .. ChunkLength[SaysOf(es, cs, ms, i)] |->
      [at |-> es[i].at, cue |-> es[i].cue, says |-> SaysOf(es, cs, ms, i)]]])

(* Each entry has its characters, one entry behind the other.              *)
LEMMA TextOfEntries ==
  ASSUME NEW es, NEW cs, NEW ms, Len(es) \in Nat \ {0}, DOMAIN es = 1 .. Len(es),
         \A i \in 1 .. Len(es) : LengthOf(es, cs, ms, i) \in Nat \ {0}
  PROVE  LET n == Len(es)
             g == OffsetsOf(es, cs, ms)
             text == TextOf(es, cs, ms)
         IN  /\ DOMAIN g = 1 .. n + 1 /\ Grows(g, n)
             /\ \E T : text \in Seq(T)
             /\ Len(text) = g[n + 1]
             /\ \A i \in 1 .. n : \A o \in 1 .. g[n + 1] :
                  g[i] < o /\ o <= g[i + 1] =>
                    text[o] = [at |-> es[i].at, cue |-> es[i].cue, says |-> SaysOf(es, cs, ms, i)]
<1> DEFINE n == Len(es)
           len(i) == LengthOf(es, cs, ms, i)
           char(i) == [at |-> es[i].at, cue |-> es[i].cue, says |-> SaysOf(es, cs, ms, i)]
           T == {char(i) : i \in 1 .. n}
           part(i) == [k \in 1 .. len(i) |-> char(i)]
           parts == [i \in 1 .. n |-> part(i)]
<1>1. TextOf(es, cs, ms) = FlattenSeq(parts)
  BY DEF TextOf, LengthOf
<1>2. n \in Nat \ {0} /\ \A i \in 1 .. n : len(i) \in Nat \ {0}
  OBVIOUS
<1> DEFINE Step(h) == [i \in 1 .. n + 1 |-> IF i = 1 THEN 0 ELSE h[i - 1] + len(i - 1)]
           offset == CHOOSE h : h = Step(h)
<1>3. OffsetsOf(es, cs, ms) = offset
  BY DEF OffsetsOf, LengthOf
<1> HIDE DEF len, char, n
<1>4. \A i \in 1 .. n : /\ part(i) \in Seq(T) /\ Len(part(i)) = len(i)
                        /\ \A o \in 1 .. len(i) : part(i)[o] = char(i)
  <2> TAKE i \in 1 .. n
  <2>1. char(i) \in T /\ len(i) \in Nat
    BY <1>2
  <2> HIDE DEF T
  <2>2. part(i) \in [1 .. len(i) -> T]
    BY <2>1
  <2>3. QED
    BY <2>1, <2>2
<1> HIDE DEF T, part
<1>5. parts \in Seq(Seq(T)) /\ Len(parts) = n /\ parts # <<>> /\ \A i \in 1 .. n : parts[i] = part(i)
  <2>1. parts \in [1 .. n -> Seq(T)]
    BY <1>4
  <2>2. QED
    BY <1>2, <2>1
<1> HIDE DEF parts
<1>6. PICK f : Flattens(T, parts, f)
  BY <1>5, FlattensExist
<1> DEFINE g == Places(parts, f)
           text == FlattenSeq(parts)
<1>7. /\ text \in Seq(T) /\ Len(text) = g[n + 1]
      /\ \A i \in 1 .. n : g[i] \in Nat /\ g[i + 1] = g[i] + Len(parts[i])
      /\ \A i \in 1 .. n : \A o \in 1 .. Len(parts[i]) : text[g[i] + o] = parts[i][o]
  <2>0. parts \in Seq(Seq(T)) /\ parts # <<>> /\ Flattens(T, parts, f)
    BY <1>5, <1>6
  <2>1. /\ text \in Seq(T) /\ Len(text) = g[Len(parts) + 1]
        /\ \A i \in 1 .. Len(parts) : g[i] \in Nat /\ g[i + 1] = g[i] + Len(parts[i])
        /\ \A i \in 1 .. Len(parts) : \A o \in 1 .. Len(parts[i]) : text[g[i] + o] = parts[i][o]
    <3> USE <2>0
    <3>1. text \in Seq(T) /\ Len(text) = g[Len(parts) + 1]
      BY FlattenPlaces
    <3>2. \A i \in 1 .. Len(parts) : g[i] \in Nat /\ g[i + 1] = g[i] + Len(parts[i])
      BY FlattenPlaces
    <3>3. \A i \in 1 .. Len(parts) : \A o \in 1 .. Len(parts[i]) : text[g[i] + o] = parts[i][o]
      BY FlattenPlaces
    <3>4. QED
      BY <3>1, <3>2, <3>3
  <2> HIDE DEF g, text
  <2>2. QED
    BY <1>5, <2>1
<1>8. g[1] = 0 /\ DOMAIN g = 1 .. n + 1 /\ g = [i \in 1 .. n + 1 |-> g[i]]
  BY <1>2, <1>5 DEF Places
<1> HIDE DEF g, text
<1>9. \A i \in 1 .. n : g[i] \in Nat /\ g[i + 1] = g[i] + len(i)
  BY <1>4, <1>5, <1>7
<1>10. Grows(g, n)
  <2>1. ASSUME NEW i \in 1 .. n PROVE g[i] \in Nat /\ g[i] < g[i + 1] /\ g[i + 1] \in Nat
    <3>1. len(i) \in Nat \ {0} /\ g[i] \in Nat /\ g[i + 1] = g[i] + len(i)
      BY <1>2, <1>9
    <3>2. QED
      BY <3>1
  <2>2. ASSUME NEW i \in 1 .. n + 1 PROVE g[i] \in Nat
    <3>1. i \in 1 .. n \/ (i = n + 1 /\ n \in 1 .. n)
      BY <1>2
    <3>2. QED
      BY <2>1, <3>1
  <2>3. QED
    BY <1>8, <2>1, <2>2 DEF Grows
<1>11. offset = g
  <2>1. ASSUME NEW i \in 1 .. n + 1
        PROVE  g[i] = IF i = 1 THEN 0 ELSE g[i - 1] + len(i - 1)
    <3>1. CASE i = 1
      BY <1>8, <3>1
    <3>2. CASE i # 1
      <4>1. i - 1 \in 1 .. n /\ (i - 1) + 1 = i
        BY <1>2, <3>2
      <4>2. QED
        BY <1>9, <3>2, <4>1
    <3>3. QED
      BY <3>1, <3>2
  <2>2. g = Step(g)
    BY <1>8, <2>1
  <2>3. offset = Step(offset)
    BY <2>2, Zenon
  <2> HIDE DEF offset
  <2>4. \A i \in 1 .. n + 1 : offset[i] = IF i = 1 THEN 0 ELSE offset[i - 1] + len(i - 1)
    BY <2>3
  <2> DEFINE S == {k \in 0 .. n : offset[k + 1] = g[k + 1]}
  <2>5. 0 \in S
    BY <1>2, <1>8, <2>4
  <2>6. ASSUME NEW k \in 0 .. n - 1, k \in S PROVE k + 1 \in S
    <3>1. /\ k + 1 \in 0 .. n /\ (k + 1) + 1 \in 1 .. n + 1
          /\ (k + 1) + 1 # 1 /\ ((k + 1) + 1) - 1 = k + 1
      BY <1>2
    <3>2. offset[(k + 1) + 1] = offset[k + 1] + len(k + 1)
      BY <2>4, <3>1
    <3>3. g[(k + 1) + 1] = g[k + 1] + len(k + 1)
      BY <2>1, <3>1
    <3>4. QED
      BY <2>6, <3>1, <3>2, <3>3
  <2>7. ASSUME NEW i \in 1 .. n + 1 PROVE offset[i] = g[i]
    <3> HIDE DEF S
    <3>1. 0 .. n \subseteq S
      BY <1>2, <2>5, <2>6, InductionUpTo
    <3>2. i - 1 \in S /\ (i - 1) + 1 = i
      BY <1>2, <3>1
    <3>3. QED
      BY <3>2 DEF S
  <2>8. DOMAIN offset = 1 .. n + 1 /\ offset = [i \in 1 .. n + 1 |-> offset[i]]
    BY <2>3
  <2>9. QED
    BY <1>8, <2>7, <2>8
<1> HIDE DEF offset
<1>12. ASSUME NEW i \in 1 .. n, NEW o \in 1 .. g[n + 1], g[i] < o, o <= g[i + 1]
       PROVE  text[o] = char(i)
  <2> DEFINE p == o - g[i]
  <2>1. g[i] \in Nat /\ g[i + 1] = g[i] + len(i) /\ len(i) \in Nat /\ o \in Nat
    BY <1>2, <1>7, <1>9
  <2>2. p \in 1 .. len(i) /\ g[i] + p = o
    BY <1>12, <2>1
  <2> HIDE DEF p
  <2>3. text[g[i] + p] = parts[i][p] /\ parts[i][p] = char(i)
    BY <1>4, <1>5, <1>7, <2>2
  <2>4. QED
    BY <2>2, <2>3
<1>13. QED
  BY <1>1, <1>3, <1>7, <1>8, <1>10, <1>11, <1>12 DEF n, char, text

LEMMA BucketIsPlace ==
  ASSUME NEW time, NEW spans, Len(spans) \in Nat \ {0}
  PROVE  Bucket(time, spans) \in 1 .. Len(spans)
<1> DEFINE S == {i \in 1 .. Len(spans) : spans[i].start <= time}
           last == IF S # {} THEN Max(S) ELSE 0
<1>1. Bucket(time, spans) = Greater(1, last)
  BY DEF Bucket, SelectLastInSeq
<1>2. last \in 0 .. Len(spans)
  <2>1. CASE S = {}
    BY <2>1
  <2>2. CASE S # {}
    <3>1. Max(S) \in S
      BY <2>2, MaxIsGreatest
    <3>2. QED
      BY <2>2, <3>1
  <2>3. QED
    BY <2>1, <2>2
<1> HIDE DEF last
<1>3. QED
  BY <1>1, <1>2 DEF Greater

(* A character is found in the segment it is in.                           *)
LEMMA SegmentOfCharacter ==
  ASSUME NEW n \in Nat, NEW g, Grows(g, n), NEW segments, NEW m \in 1 .. n, Len(segments) = m,
         \A k \in 1 .. m : segments[k].start = g[k],
         NEW i \in 1 .. m, NEW o \in Nat, g[i] < o, i < m => o <= g[i + 1]
  PROVE  SegmentAt(segments, o - 1) = i
<1> DEFINE S == {k \in 1 .. Len(segments) : segments[k].start <= o - 1}
<1>1. SegmentAt(segments, o - 1) = IF S # {} THEN Max(S) ELSE 0
  BY DEF SegmentAt, SelectLastInSeq
<1>2. i \in S
  <2>1. g[i] \in Nat
    BY DEF Grows
  <2>2. QED
    BY <2>1
<1>3. ASSUME NEW k \in S PROVE k <= i
  <2> SUFFICES ASSUME i < k PROVE FALSE
    BY <1>3
  <2>1. i < m /\ i + 1 \in 1 .. n + 1 /\ k \in 1 .. n + 1 /\ g[k] <= o - 1
    BY <1>3
  <2>2. g[i + 1] <= g[k]
    <3>1. CASE k = i + 1
      BY <2>1, <3>1 DEF Grows
    <3>2. CASE k # i + 1
      <4>1. i + 1 < k
        BY <2>1, <3>2
      <4>2. g[i + 1] < g[k] /\ g[i + 1] \in Nat /\ g[k] \in Nat
        BY <2>1, <4>1, GrowsFurther DEF Grows
      <4>3. QED
        BY <4>2
    <3>3. QED
      BY <3>1, <3>2
  <2>3. g[i + 1] \in Nat /\ g[k] \in Nat
    BY <2>1 DEF Grows
  <2>4. QED
    BY <2>1, <2>2, <2>3
<1>4. S \in SUBSET (1 .. m) /\ m \in Nat
  OBVIOUS
<1> HIDE DEF S
<1>5. Max(S) \in S /\ i <= Max(S) /\ Max(S) <= i
  BY <1>2, <1>3, <1>4, MaxIsGreatest
<1>6. Max(S) \in Nat
  BY <1>4, <1>5
<1>7. QED
  BY <1>1, <1>2, <1>5, <1>6

(* Breaks in the places of some segments but the first.                    *)
Breaks(barriers, g, m) ==
  /\ barriers \in Seq(Nat)
  /\ \A k \in DOMAIN barriers : \E i \in 2 .. m : barriers[k] = g[i]
  /\ \A j, k \in DOMAIN barriers : j < k => barriers[j] < barriers[k]

(* A rendition of the first size characters of a text, that end in the     *)
(* m-th of the segments that g and spans lay out.                          *)
CutAt(r, text, g, spans, m, size) ==
  /\ g[m] < size /\ size <= g[m + 1]
  /\ DOMAIN r.text = 1 .. size /\ Len(r.text) = size /\ \A o \in 1 .. size : r.text[o] = text[o]
  /\ DOMAIN r.segments = 1 .. m /\ Len(r.segments) = m
  /\ \A k \in 1 .. m :
       /\ r.segments[k].start = g[k]
       /\ r.segments[k].end = IF k < m THEN g[k + 1] ELSE size
       /\ r.segments[k].locator = spans[k]
  /\ Breaks(r.barriers, g, m)

(* A cut to a budget keeps the segments it reaches, the last one shorter,  *)
(* and the breaks before them.                                             *)
LEMMA FitCuts ==
  ASSUME NEW n \in Nat \ {0}, NEW g, Grows(g, n),
         NEW T, NEW text \in Seq(T), Len(text) = g[n + 1], NEW spans,
         NEW barriers, Breaks(barriers, g, n),
         NEW most \in Nat \cup {Unlimited}, NEW told
  PROVE  LET segments == [i \in 1 .. n |-> [start |-> g[i], end |-> g[i + 1], locator |-> spans[i]]]
             r == Fit(text, segments, barriers, most, told)
         IN  \E m \in 1 .. n : \E size \in Nat : CutAt(r, text, g, spans, m, size)
<1> DEFINE segments == [i \in 1 .. n |-> [start |-> g[i], end |-> g[i + 1], locator |-> spans[i]]]
           r == Fit(text, segments, barriers, most, told)
<1>1. /\ \A i \in 1 .. n + 1 : g[i] \in Nat
      /\ n \in 1 .. n /\ n + 1 \in 1 .. n + 1 /\ 1 \in 1 .. n + 1
      /\ g[n] < g[n + 1] /\ g[n + 1] \in Nat \ {0}
  <2>1. n \in 1 .. n /\ n + 1 \in 1 .. n + 1 /\ 1 \in 1 .. n + 1 /\ n \in 1 .. n + 1
    OBVIOUS
  <2>2. g[n] \in Nat /\ g[n + 1] \in Nat /\ g[n] < g[n + 1]
    BY <2>1 DEF Grows
  <2>3. QED
    BY <2>1, <2>2 DEF Grows
<1>2. CASE most = Unlimited \/ Len(text) <= most
  <2>1. r = Whole(text, segments, barriers, told)
    BY <1>2 DEF Fit
  <2>2. r.text = text /\ r.segments = segments /\ r.barriers = barriers
    <3> HIDE DEF r, segments
    <3>1. QED
      BY <2>1 DEF Whole
  <2>3. DOMAIN segments = 1 .. n /\ Len(segments) = n
    OBVIOUS
  <2>4. \A k \in 1 .. n : /\ segments[k].start = g[k]
                          /\ segments[k].end = IF k < n THEN g[k + 1] ELSE g[n + 1]
                          /\ segments[k].locator = spans[k]
    OBVIOUS
  <2>5. DOMAIN text = 1 .. g[n + 1] /\ g[n + 1] <= g[n + 1]
    BY <1>1
  <2> HIDE DEF segments, r
  <2>6. CutAt(r, text, g, spans, n, g[n + 1])
    BY <1>1, <2>2, <2>3, <2>4, <2>5 DEF CutAt
  <2>7. QED
    BY <1>1, <2>6 DEF r, segments
<1>3. CASE ~(most = Unlimited \/ Len(text) <= most)
  <2> DEFINE keep == IF most < 1 THEN 1 ELSE most
             kept == Those(segments, {i \in DOMAIN segments : segments[i].start < keep})
             before == {i \in DOMAIN barriers : barriers[i] < keep}
  <2>1. most \in Nat /\ most < g[n + 1]
    BY <1>1, <1>3
  <2>2. keep \in 1 .. g[n + 1] /\ keep \in Nat
    BY <1>1, <2>1
  <2>3. /\ r.text = SubSeq(text, 1, keep) /\ r.segments = Pruned(segments, keep)
        /\ r.barriers = Those(barriers, before)
    BY <1>3 DEF Fit, Whole
  <2> HIDE DEF keep, r
  <2>4. PICK m \in 1 .. n : g[m] < keep /\ keep <= g[m + 1]
    BY <2>2, GrowsPast
  <2>5. /\ \A i \in 1 .. n : g[i] < keep <=> i <= m
        /\ \A i \in 1 .. m : i < m => g[i + 1] < keep
    <3>1. ASSUME NEW i \in 1 .. n + 1, i <= m PROVE g[i] < keep
      <4>1. CASE i = m
        BY <2>4, <4>1
      <4>2. CASE i # m
        <5>1. i < m /\ m \in 1 .. n + 1
          BY <3>1, <4>2
        <5>2. g[i] < g[m] /\ g[i] \in Nat /\ g[m] \in Nat
          BY <1>1, <5>1, GrowsFurther
        <5>3. QED
          BY <2>2, <2>4, <5>2
      <4>3. QED
        BY <4>1, <4>2
    <3>2. ASSUME NEW i \in 1 .. n, ~(i <= m) PROVE ~(g[i] < keep)
      <4>1. i = m + 1 \/ m + 1 < i
        BY <3>2
      <4>2. i \in 1 .. n + 1 /\ m + 1 \in 1 .. n + 1
        OBVIOUS
      <4>3. g[m + 1] <= g[i] /\ g[m + 1] \in Nat /\ g[i] \in Nat
        <5>1. CASE i = m + 1
          BY <1>1, <4>2, <5>1
        <5>2. CASE m + 1 < i
          <6>1. g[m + 1] < g[i]
            BY <4>2, <5>2, GrowsFurther
          <6>2. QED
            BY <1>1, <4>2, <6>1
        <5>3. QED
          BY <4>1, <5>1, <5>2
      <4>4. QED
        BY <2>2, <2>4, <4>3
    <3>3. ASSUME NEW i \in 1 .. m, i < m PROVE g[i + 1] < keep
      <4>1. i + 1 \in 1 .. n + 1 /\ i + 1 <= m
        BY <3>3
      <4>2. QED
        BY <3>1, <4>1
    <3>4. \A i \in 1 .. n : i \in 1 .. n + 1
      OBVIOUS
    <3>5. QED
      BY <3>1, <3>2, <3>3, <3>4
  <2> DEFINE U == {segments[i] : i \in 1 .. n}
  <2>6. segments \in Seq(U) /\ Len(segments) = n /\ DOMAIN segments = 1 .. n
    <3>1. segments \in [1 .. n -> U]
      OBVIOUS
    <3> HIDE DEF segments, U
    <3>2. QED
      BY <3>1
  <2>7. {i \in DOMAIN segments : segments[i].start < keep} = 1 .. m
    <3>1. \A i \in 1 .. n : segments[i].start = g[i]
      OBVIOUS
    <3> HIDE DEF segments
    <3>2. QED
      BY <2>5, <2>6, <3>1
  <2>8. Len(kept) = m /\ DOMAIN kept = 1 .. m /\ \A k \in 1 .. m : kept[k] = segments[k]
    <3> HIDE DEF U, segments
    <3>1. m \in 0 .. Len(segments)
      BY <2>6
    <3>2. LET q == Those(segments, 1 .. m)
          IN  q \in Seq(U) /\ Len(q) = m /\ \A k \in 1 .. m : q[k] = segments[k]
      BY <2>6, <3>1, ThoseOfPrefix
    <3>3. kept = Those(segments, 1 .. m)
      BY <2>7
    <3> HIDE DEF kept
    <3>4. QED
      BY <3>2, <3>3
  <2>9. r.segments = [k \in 1 .. m |-> [kept[k] EXCEPT !.end = IF @ < keep THEN @ ELSE keep]]
    <3>1. r.segments = [k \in DOMAIN kept |-> [kept[k] EXCEPT !.end = IF @ < keep THEN @ ELSE keep]]
      BY <2>3 DEF Pruned
    <3> HIDE DEF kept
    <3>2. QED
      BY <2>8, <3>1
  <2> HIDE DEF kept
  <2>10. DOMAIN r.segments = 1 .. m /\ Len(r.segments) = m
    BY <2>9
  <2>11. ASSUME NEW k \in 1 .. m
         PROVE  /\ r.segments[k].start = g[k]
                /\ r.segments[k].end = IF k < m THEN g[k + 1] ELSE keep
                /\ r.segments[k].locator = spans[k]
    <3>1. k \in 1 .. n
      OBVIOUS
    <3>2. kept[k] = [start |-> g[k], end |-> g[k + 1], locator |-> spans[k]]
      BY <2>8, <3>1
    <3>3. r.segments[k] = [start |-> g[k], end |-> IF g[k + 1] < keep THEN g[k + 1] ELSE keep,
                           locator |-> spans[k]]
      BY <2>9, <3>2, SMTT(20)
    <3>4. (IF g[k + 1] < keep THEN g[k + 1] ELSE keep) = IF k < m THEN g[k + 1] ELSE keep
      <4>1. CASE k < m
        BY <2>5, <4>1
      <4>2. CASE ~(k < m)
        <5>1. k = m
          BY <4>2
        <5>2. g[k + 1] \in Nat /\ keep <= g[k + 1]
          BY <1>1, <2>4, <5>1
        <5>3. QED
          BY <2>2, <4>2, <5>2
      <4>3. QED
        BY <4>1, <4>2
    <3>5. QED
      BY <3>3, <3>4
  <2>12. /\ DOMAIN r.text = 1 .. keep /\ Len(r.text) = keep
         /\ \A o \in 1 .. keep : r.text[o] = text[o]
    <3>1. 1 \in 1 .. Len(text) + 1 /\ keep \in 1 - 1 .. Len(text)
      BY <1>1, <2>2
    <3>2. /\ SubSeq(text, 1, keep) \in Seq(T) /\ Len(SubSeq(text, 1, keep)) = keep
          /\ \A o \in 1 .. keep : SubSeq(text, 1, keep)[o] = text[o]
      BY <1>1, <2>2
    <3>3. QED
      BY <2>2, <2>3, <3>2
  <2>13. Breaks(r.barriers, g, m)
    <3> DEFINE q == Those(barriers, before)
    <3>1. barriers \in Seq(Nat) /\ before \in SUBSET (DOMAIN barriers)
      BY DEF Breaks
    <3> HIDE DEF before
    <3>2. /\ q \in Seq(Nat)
          /\ \E p : /\ \A k \in DOMAIN q : p[k] \in before /\ q[k] = barriers[p[k]]
                    /\ \A j, k \in DOMAIN q : j < k => p[j] < p[k]
      BY <3>1, ThosePlaces
    <3> HIDE DEF q
    <3>3. PICK p : /\ \A k \in DOMAIN q : p[k] \in before /\ q[k] = barriers[p[k]]
                  /\ \A j, k \in DOMAIN q : j < k => p[j] < p[k]
      BY <3>2
    <3>4. ASSUME NEW k \in DOMAIN q PROVE \E i \in 2 .. m : q[k] = g[i]
      <4>1. p[k] \in DOMAIN barriers /\ barriers[p[k]] < keep /\ q[k] = barriers[p[k]]
        BY <3>3 DEF before
      <4>2. PICK i \in 2 .. n : q[k] = g[i]
        BY <4>1 DEF Breaks
      <4>3. i \in 1 .. n /\ g[i] < keep
        BY <4>1, <4>2
      <4>4. i \in 2 .. m
        BY <2>5, <4>3
      <4>5. QED
        BY <4>2, <4>4
    <3>5. ASSUME NEW j \in DOMAIN q, NEW k \in DOMAIN q, j < k PROVE q[j] < q[k]
      <4>1. p[j] \in DOMAIN barriers /\ p[k] \in DOMAIN barriers /\ p[j] < p[k]
        BY <3>1, <3>3, <3>5
      <4>2. QED
        BY <3>3, <4>1 DEF Breaks
    <3>6. r.barriers = q
      BY <2>3 DEF q
    <3>7. QED
      BY <3>2, <3>4, <3>5, <3>6 DEF Breaks
  <2> HIDE DEF segments
  <2>14. CutAt(r, text, g, spans, m, keep)
    BY <2>4, <2>10, <2>11, <2>12, <2>13 DEF CutAt
  <2>15. QED
    BY <2>2, <2>14 DEF r, segments
<1>4. QED
  BY <1>2, <1>3

----------------------------------------------------------------------------
(* What a read renders                                                     *)

PlaceIn(es, i) == LET pushed == {es[j].at + (i - j) * FrameDuration : j \in 1 .. i}
                  IN CHOOSE p \in pushed : \A q \in pushed : q <= p

(* TimelineLocated, of some entries, cues and moments.                     *)
LocatedIn(es, cs, ms, duration, r) ==
  LET spans == [k \in DOMAIN r.segments |-> r.segments[k].locator]
      places == [k \in DOMAIN spans |-> PlaceIn(es, k)]
  IN  /\ IsRendered(r)
      /\ spans[1].start = 0
      /\ \A k \in DOMAIN spans :
           /\ spans[k].start < spans[k].end
           /\ spans[k].end <= duration + FrameDuration
           /\ k < Len(spans) => spans[k].end = spans[k + 1].start
           /\ spans[k].start =
                IF places[k] < duration THEN places[k]
                ELSE duration
                       + Epsilon * Cardinality({j \in 1 .. k - 1 : places[j] >= duration})
      /\ Len(r.text) = OffsetsOf(es, cs, ms)[Len(es) + 1] =>
           spans[Len(spans)].end >= duration
      /\ \A o \in DOMAIN r.text :
           LET entry == es[SegmentAt(r.segments, o - 1)]
           IN  entry.at = r.text[o].at /\ entry.cue = r.text[o].cue
      /\ Range(r.barriers)
           \subseteq {r.segments[k].start : k \in 2 .. Len(spans)}

(* Entries that have a place each in a file, and something to say.         *)
Entries(es, cs, ms) ==
  /\ es \in Seq([at : Nat, cue : Nat]) /\ es # <<>> /\ es[1].at = 0
  /\ Len(es) <= FrameDuration
  /\ \A i \in 1 .. Len(es) : LengthOf(es, cs, ms, i) \in Nat \ {0}

Starts(es) == [i \in DOMAIN es |-> es[i].at]

LEMMA PlacesOfEntries ==
  ASSUME NEW es \in Seq([at : Nat, cue : Nat]), NEW k \in 1 .. Len(es)
  PROVE  PlaceIn(es, k) = PlaceOf(Starts(es), FrameDuration, k)
<1>1. \A j \in 1 .. k : Starts(es)[j] = es[j].at
  BY DEF Starts
<1>2. Pushed(Starts(es), FrameDuration, k) = {es[j].at + (k - j) * FrameDuration : j \in 1 .. k}
  BY <1>1 DEF Pushed
<1>3. QED
  BY <1>2 DEF PlaceIn, PlaceOf

(* A segment is of some characters, and ends where the next one starts.    *)
LEMMA CutIsRendered ==
  ASSUME NEW n \in Nat \ {0}, NEW g, Grows(g, n), NEW r, NEW text, NEW spans,
         NEW m \in 1 .. n, NEW size \in Nat, CutAt(r, text, g, spans, m, size)
  PROVE  IsRendered(r)
<1>1. /\ DOMAIN r.segments = 1 .. m /\ Len(r.segments) = m /\ Len(r.text) = size
      /\ g[m] < size /\ size <= g[m + 1]
      /\ \A k \in 1 .. m : /\ r.segments[k].start = g[k]
                           /\ r.segments[k].end = IF k < m THEN g[k + 1] ELSE size
  BY DEF CutAt
<1>2. \A k \in 1 .. n + 1 : g[k] \in Nat
  BY DEF Grows
<1>3. IsMap(r.segments)
  <2>1. r.segments # <<>>
    BY <1>1
  <2>2. r.segments[1].start = 0
    BY <1>1 DEF Grows
  <2>3. ASSUME NEW i \in 1 .. m PROVE r.segments[i].start < r.segments[i].end
    <3>1. CASE i < m
      <4>1. i \in 1 .. n
        OBVIOUS
      <4>2. QED
        BY <1>1, <3>1, <4>1 DEF Grows
    <3>2. CASE ~(i < m)
      <4>1. i = m
        BY <3>2
      <4>2. QED
        BY <1>1, <3>2, <4>1
    <3>3. QED
      BY <3>1, <3>2
  <2>4. ASSUME NEW i \in 1 .. m - 1 PROVE r.segments[i].end = r.segments[i + 1].start
    <3>1. i \in 1 .. m /\ i < m /\ i + 1 \in 1 .. m
      OBVIOUS
    <3>2. QED
      BY <1>1, <3>1
  <2>5. QED
    BY <1>1, <2>1, <2>2, <2>3, <2>4 DEF IsMap
<1>4. MapLength(r.segments) = Len(r.text)
  <2>1. m \in 1 .. m /\ ~(m < m)
    OBVIOUS
  <2>2. QED
    BY <1>1, <2>1 DEF MapLength
<1>5. Breaks(r.barriers, g, m)
  BY DEF CutAt
<1>6. ASSUME NEW k \in DOMAIN r.barriers PROVE r.barriers[k] \in 0 .. size
  <2>1. PICK i \in 2 .. m : r.barriers[k] = g[i]
    BY <1>5 DEF Breaks
  <2>2. i \in 1 .. n + 1 /\ m \in 1 .. n + 1 /\ (i = m \/ i < m)
    OBVIOUS
  <2>3. g[i] \in Nat /\ g[m] \in Nat /\ (i < m => g[i] < g[m])
    BY <1>2, <2>2, GrowsFurther
  <2>4. g[i] <= g[m]
    BY <2>2, <2>3
  <2>5. QED
    BY <1>1, <2>1, <2>3, <2>4
<1>7. ASSUME NEW k \in 1 .. Len(r.barriers) - 1 PROVE r.barriers[k] < r.barriers[k + 1]
  <2>1. r.barriers \in Seq(Nat)
    BY <1>5 DEF Breaks
  <2>2. k \in DOMAIN r.barriers /\ k + 1 \in DOMAIN r.barriers /\ k < k + 1
    BY <2>1
  <2>3. QED
    BY <1>5, <2>2 DEF Breaks
<1>8. QED
  BY <1>1, <1>3, <1>4, <1>6, <1>7 DEF IsRendered

LEMMA CutIsLocated ==
  ASSUME NEW es, NEW cs, NEW ms, Entries(es, cs, ms), NEW duration \in Nat \ {0},
         NEW r, NEW m \in 1 .. Len(es), NEW size \in Nat,
         CutAt(r, TextOf(es, cs, ms), OffsetsOf(es, cs, ms),
               Tile(Starts(es), duration, FrameDuration), m, size)
  PROVE  LocatedIn(es, cs, ms, duration, r)
<1> DEFINE n == Len(es)
           g == OffsetsOf(es, cs, ms)
           text == TextOf(es, cs, ms)
           at == Starts(es)
           bs == Tile(at, duration, FrameDuration)
           spans == [k \in DOMAIN r.segments |-> r.segments[k].locator]
           places == [k \in DOMAIN spans |-> PlaceIn(es, k)]
<1>1. /\ n \in Nat \ {0} /\ DOMAIN es = 1 .. n /\ n <= FrameDuration
      /\ FrameDuration \in Nat \ {0} /\ es \in Seq([at : Nat, cue : Nat])
  BY VideoAssumption DEF Entries
<1>2. at \in Seq(Int) /\ at # <<>> /\ Len(at) = n /\ at[1] = 0
  <2>1. ASSUME NEW i \in 1 .. n PROVE es[i].at \in Nat
    <3>1. es[i] \in [at : Nat, cue : Nat]
      BY <1>1, ElementOfSeq
    <3>2. QED
      BY <3>1
  <2>2. at = [i \in 1 .. n |-> es[i].at]
    BY <1>1 DEF Starts
  <2>3. es[1].at = 0
    BY DEF Entries
  <2> HIDE DEF at, n
  <2>4. at \in [1 .. n -> Int] /\ at[1] = 0
    BY <1>1, <2>1, <2>2, <2>3
  <2>5. QED
    BY <1>1, <2>4
<1>3. /\ bs[1].start = 0 /\ bs[n].end >= duration
      /\ \A k \in 1 .. n :
           /\ bs[k].start = StartOf(at, FrameDuration, duration, k)
           /\ bs[k].start < bs[k].end
           /\ bs[k].end <= duration + FrameDuration
           /\ k < n => bs[k].end = bs[k + 1].start
  <2> HIDE DEF at
  <2>1. Len(at) <= FrameDuration /\ FrameDuration \in Nat \ {0}
    BY <1>1, <1>2
  <2>2. /\ bs[1].start = 0 /\ bs[Len(at)].end >= duration
        /\ \A k \in 1 .. Len(at) :
             /\ bs[k].start = StartOf(at, FrameDuration, duration, k)
             /\ bs[k].start < bs[k].end
             /\ bs[k].end <= duration + FrameDuration
             /\ k < Len(at) => bs[k].end = bs[k + 1].start
    <3> USE <1>2, <2>1
    <3>1. bs[1].start = 0 /\ bs[Len(at)].end >= duration
      BY SpansTileTheFile
    <3>2. \A k \in 1 .. Len(at) : bs[k].start = StartOf(at, FrameDuration, duration, k)
      BY SpansTileTheFile, ZenonT(30)
    <3>3. \A k \in 1 .. Len(at) : bs[k].start < bs[k].end
      BY SpansTileTheFile
    <3>4. \A k \in 1 .. Len(at) : bs[k].end <= duration + FrameDuration
      BY SpansTileTheFile
    <3>5. \A k \in 1 .. Len(at) : k < Len(at) => bs[k].end = bs[k + 1].start
      BY SpansTileTheFile
    <3>6. QED
      BY <3>1, <3>2, <3>3, <3>4, <3>5
  <2> HIDE DEF bs
  <2>3. QED
    BY <1>2, <2>2
<1>4. /\ Grows(g, n) /\ Len(text) = g[n + 1]
      /\ \A i \in 1 .. n : \A o \in 1 .. g[n + 1] :
           g[i] < o /\ o <= g[i + 1] => text[o].at = es[i].at /\ text[o].cue = es[i].cue
  <2>1. \A i \in 1 .. n : LengthOf(es, cs, ms, i) \in Nat \ {0}
    BY DEF Entries
  <2>2. /\ Grows(g, n) /\ Len(text) = g[n + 1]
        /\ \A i \in 1 .. n : \A o \in 1 .. g[n + 1] :
             g[i] < o /\ o <= g[i + 1] =>
               text[o] = [at |-> es[i].at, cue |-> es[i].cue, says |-> SaysOf(es, cs, ms, i)]
    BY <1>1, <2>1, TextOfEntries
  <2> HIDE DEF g, text, n
  <2>3. ASSUME NEW i \in 1 .. n, NEW o \in 1 .. g[n + 1], g[i] < o, o <= g[i + 1]
        PROVE  text[o].at = es[i].at /\ text[o].cue = es[i].cue
    <3>1. text[o] = [at |-> es[i].at, cue |-> es[i].cue, says |-> SaysOf(es, cs, ms, i)]
      BY <2>2, <2>3
    <3>2. QED
      BY <3>1
  <2>4. QED
    BY <2>2, <2>3
<1> HIDE DEF n, g, text, bs
<1>5. CutAt(r, text, g, bs, m, size)
  BY DEF text, g, bs
<1>6. m \in 1 .. n /\ m \in Nat
  BY DEF n
<1>7. IsRendered(r)
  BY <1>1, <1>4, <1>5, <1>6, CutIsRendered
<1>8. /\ DOMAIN r.segments = 1 .. m /\ Len(r.segments) = m
      /\ \A k \in 1 .. m : r.segments[k].start = g[k] /\ r.segments[k].locator = bs[k]
      /\ DOMAIN r.text = 1 .. size /\ Len(r.text) = size
      /\ \A o \in 1 .. size : r.text[o] = text[o]
      /\ g[m] < size /\ size <= g[m + 1]
      /\ Breaks(r.barriers, g, m)
  BY <1>5 DEF CutAt
<1>9. /\ DOMAIN spans = 1 .. m /\ Len(spans) = m
      /\ \A k \in 1 .. m : spans[k] = bs[k]
      /\ DOMAIN places = 1 .. m
      /\ \A k \in 1 .. m : places[k] = PlaceOf(at, FrameDuration, k)
  <2>1. DOMAIN spans = 1 .. m /\ \A k \in 1 .. m : spans[k] = bs[k]
    BY <1>8
  <2>2. Len(spans) = m
    BY <1>6, <1>8
  <2>3. \A k \in 1 .. m : PlaceIn(es, k) = PlaceOf(at, FrameDuration, k)
    <3>1. \A k \in 1 .. m : k \in 1 .. Len(es)
      BY <1>1, <1>6 DEF n
    <3>2. QED
      BY <1>1, <3>1, PlacesOfEntries
  <2> HIDE DEF spans, at
  <2>4. QED
    BY <2>1, <2>2, <2>3
<1> HIDE DEF spans, places
<1>10. spans[1].start = 0
  BY <1>3, <1>6, <1>9
<1>11. ASSUME NEW k \in 1 .. m
       PROVE  /\ spans[k].start < spans[k].end
              /\ spans[k].end <= duration + FrameDuration
              /\ k < Len(spans) => spans[k].end = spans[k + 1].start
              /\ spans[k].start =
                   IF places[k] < duration THEN places[k]
                   ELSE duration
                          + Epsilon * Cardinality({j \in 1 .. k - 1 : places[j] >= duration})
  <2>1. k \in 1 .. n /\ (k < m => k < n /\ k + 1 \in 1 .. m)
    BY <1>1, <1>6
  <2>2. /\ spans[k].start < spans[k].end
        /\ spans[k].end <= duration + FrameDuration
        /\ k < Len(spans) => spans[k].end = spans[k + 1].start
    BY <1>3, <1>9, <2>1
  <2>3. spans[k].start = StartOf(at, FrameDuration, duration, k)
    BY <1>3, <1>9, <2>1
  <2>4. LateOf(at, FrameDuration, duration, k) = {j \in 1 .. k - 1 : places[j] >= duration}
    <3>1. \A j \in 1 .. k - 1 : j \in 1 .. m
      BY <1>6
    <3>2. QED
      BY <1>9, <3>1 DEF LateOf
  <2>5. QED
    BY <1>9, <2>2, <2>3, <2>4 DEF StartOf
<1>12. Len(r.text) = g[n + 1] => spans[Len(spans)].end >= duration
  <2> SUFFICES ASSUME size = g[n + 1] PROVE bs[m].end >= duration
    BY <1>6, <1>8, <1>9
  <2>1. m = n
    <3> SUFFICES ASSUME m # n PROVE FALSE
      OBVIOUS
    <3>1. m + 1 \in 1 .. n + 1 /\ n + 1 \in 1 .. n + 1 /\ m + 1 < n + 1 /\ n \in Nat
      BY <1>1, <1>6
    <3>2. g[m + 1] < g[n + 1] /\ g[m + 1] \in Nat /\ g[n + 1] \in Nat
      BY <1>4, <3>1, GrowsFurther DEF Grows
    <3>3. QED
      BY <1>8, <3>2
  <2>2. QED
    BY <1>3, <2>1
<1>13. ASSUME NEW o \in 1 .. size
       PROVE  /\ es[SegmentAt(r.segments, o - 1)].at = r.text[o].at
              /\ es[SegmentAt(r.segments, o - 1)].cue = r.text[o].cue
  <2>1. /\ m \in 1 .. n + 1 /\ m + 1 \in 1 .. n + 1 /\ n + 1 \in 1 .. n + 1
        /\ (m + 1 = n + 1 \/ m + 1 < n + 1)
    BY <1>1, <1>6
  <2>2. g[m + 1] \in Nat /\ g[n + 1] \in Nat /\ g[m + 1] <= g[n + 1]
    <3>1. m + 1 < n + 1 => g[m + 1] < g[n + 1]
      BY <1>1, <1>4, <2>1, GrowsFurther
    <3>2. g[m + 1] \in Nat /\ g[n + 1] \in Nat
      BY <1>4, <2>1 DEF Grows
    <3>3. QED
      BY <2>1, <3>1, <3>2
  <2>3. o \in 1 .. g[n + 1] /\ o \in Nat
    BY <1>8, <2>2
  <2>4. PICK i \in 1 .. n : g[i] < o /\ o <= g[i + 1]
    BY <1>1, <1>4, <2>3, GrowsPast
  <2>5. i \in 1 .. m
    <3> SUFFICES ASSUME m < i PROVE FALSE
      BY <1>6
    <3>1. i \in 1 .. n + 1 /\ (m + 1 = i \/ m + 1 < i)
      BY <1>1, <1>6
    <3>2. m + 1 < i => g[m + 1] < g[i]
      BY <1>1, <1>4, <2>1, <3>1, GrowsFurther
    <3>3. g[i] \in Nat
      BY <1>4, <3>1 DEF Grows
    <3>4. QED
      BY <1>8, <2>2, <2>4, <3>1, <3>2, <3>3
  <2>6. SegmentAt(r.segments, o - 1) = i
    <3> DEFINE segments == r.segments
    <3>1. Len(segments) = m /\ \A k \in 1 .. m : segments[k].start = g[k]
      BY <1>8
    <3> HIDE DEF segments
    <3>2. n \in Nat /\ Grows(g, n) /\ (i < m => o <= g[i + 1])
      BY <1>1, <1>4, <2>4
    <3>3. SegmentAt(segments, o - 1) = i
      BY <1>6, <2>3, <2>4, <2>5, <3>1, <3>2, SegmentOfCharacter, SMTT(20)
    <3>4. QED
      BY <3>3 DEF segments
  <2>7. QED
    BY <1>4, <1>8, <2>3, <2>4, <2>6, SMTT(20)
<1>14. Range(r.barriers) \subseteq {r.segments[k].start : k \in 2 .. Len(spans)}
  <2>1. \A k \in DOMAIN r.barriers : \E i \in 2 .. m : r.barriers[k] = g[i]
    BY <1>8 DEF Breaks
  <2>2. \A i \in 2 .. m : r.segments[i].start = g[i]
    BY <1>6, <1>8
  <2>3. QED
    BY <1>9, <2>1, <2>2 DEF Range
<1>15. QED
  BY <1>7, <1>8, <1>9, <1>10, <1>11, <1>12, <1>13, <1>14 DEF LocatedIn, n, g, spans, places

----------------------------------------------------------------------------
(* How a timeline is laid out                                              *)

LEMMA SampledTimes ==
  ASSUME NEW duration \in Nat, NEW interval \in Nat \ {0}
  PROVE  LET times == SampleTimes(duration, interval)
         IN  times \in Seq(Nat) /\ Len(times) \in Nat \ {0} /\ times[1] = 0
<1> DEFINE q == (duration + interval - 1) \div interval
           n == Greater(1, q)
<1>1. q \in Int
  OBVIOUS
<1> HIDE DEF q
<1>2. n \in Nat \ {0}
  BY <1>1 DEF Greater
<1>3. SampleTimes(duration, interval) = [i \in 1 .. n |-> (i - 1) * interval]
  BY DEF SampleTimes, q
<1> HIDE DEF n
<1>4. \A i \in 1 .. n : (i - 1) * interval \in Nat
  BY <1>2
<1>5. (1 - 1) * interval = 0
  OBVIOUS
<1>6. [i \in 1 .. n |-> (i - 1) * interval] \in [1 .. n -> Nat]
  BY <1>4
<1>7. QED
  BY <1>2, <1>3, <1>5, <1>6

LEMMA MergeProperties ==
  ASSUME NEW times \in Seq(Nat), Len(times) \in Nat \ {0}, times[1] = 0,
         NEW cs, Len(cs) \in Nat, DOMAIN cs = 1 .. Len(cs),
         \A j \in 1 .. Len(cs) : cs[j].start \in Nat
  PROVE  LET es == Merge(times, cs)
         IN  /\ es \in Seq([at : Nat, cue : 0 .. Len(cs)]) /\ es # <<>> /\ es[1].at = 0
             /\ Len(es) <= Len(times) + Len(cs)
<1> DEFINE n == Len(times)
           m == Len(cs)
           E == [at : Nat, cue : 0 .. m]
           moments == {[at |-> times[i], cue |-> 0] : i \in DOMAIN times}
           said == {[at |-> cs[j].start, cue |-> j] : j \in DOMAIN cs}
           S == moments \cup said
           R == {p \in S \X S : \/ p[1].at < p[2].at
                                \/ p[1].at = p[2].at /\ p[1].cue < p[2].cue}
           z == [at |-> 0, cue |-> 0]
<1>1. /\ n \in Nat \ {0} /\ m \in Nat /\ DOMAIN times = 1 .. n /\ DOMAIN cs = 1 .. m
      /\ 1 \in 1 .. n /\ \A i \in 1 .. n : times[i] \in Nat
  OBVIOUS
<1>2. \A j \in 1 .. m : cs[j].start \in Nat
  OBVIOUS
<1>3. times[1] = 0
  OBVIOUS
<1>4. Merge(times, cs) =
        InOrder(S, LAMBDA a, b : a.at < b.at \/ (a.at = b.at /\ a.cue < b.cue))
  BY DEF Merge
<1> HIDE DEF n, m
<1>5. S \in SUBSET E
  <2>1. ASSUME NEW i \in 1 .. n PROVE [at |-> times[i], cue |-> 0] \in E
    BY <1>1
  <2>2. ASSUME NEW j \in 1 .. m PROVE [at |-> cs[j].start, cue |-> j] \in E
    BY <1>1, <1>2
  <2> HIDE DEF E
  <2>3. QED
    BY <1>1, <2>1, <2>2
<1>6. z \in S
  BY <1>1, <1>3
<1>7. IsFiniteSet(S) /\ Cardinality(S) <= n + m
  <2> DEFINE f == [k \in 1 .. n + m |->
                    IF k <= n THEN [at |-> times[k], cue |-> 0]
                    ELSE [at |-> cs[k - n].start, cue |-> k - n]]
  <2>1. ASSUME NEW k \in 1 .. n + m PROVE f[k] \in S
    <3>1. CASE k <= n
      BY <1>1, <3>1
    <3>2. CASE ~(k <= n)
      <4>1. k - n \in 1 .. m
        BY <1>1, <3>2
      <4>2. f[k] = [at |-> cs[k - n].start, cue |-> k - n]
        BY <3>2
      <4>3. QED
        BY <1>1, <4>1, <4>2
    <3>3. QED
      BY <3>1, <3>2
  <2>2. ASSUME NEW x \in S PROVE \E k \in 1 .. n + m : f[k] = x
    <3>1. ASSUME NEW i \in 1 .. n, x = [at |-> times[i], cue |-> 0]
          PROVE  \E k \in 1 .. n + m : f[k] = x
      <4>1. i \in 1 .. n + m /\ i <= n
        BY <1>1
      <4>2. f[i] = x
        BY <3>1, <4>1
      <4>3. QED
        BY <4>1, <4>2
    <3>2. ASSUME NEW j \in 1 .. m, x = [at |-> cs[j].start, cue |-> j]
          PROVE  \E k \in 1 .. n + m : f[k] = x
      <4>1. n + j \in 1 .. n + m /\ ~(n + j <= n) /\ (n + j) - n = j
        BY <1>1
      <4>2. f[n + j] = x
        BY <3>2, <4>1
      <4>3. QED
        BY <4>1, <4>2
    <3>3. QED
      BY <1>1, <3>1, <3>2
  <2>3. f \in [1 .. n + m -> S]
    <3> HIDE DEF S
    <3>1. QED
      BY <2>1
  <2> HIDE DEF f, S
  <2>4. f \in Surjection(1 .. n + m, S)
    BY <2>2, <2>3 DEF Surjection
  <2>5. n + m \in Nat \ {0}
    BY <1>1
  <2>6. IsFiniteSet(1 .. n + m) /\ Cardinality(1 .. n + m) = n + m
    <3> DEFINE l == n + m
    <3> HIDE DEF l
    <3>1. l \in Int /\ 1 \in Int /\ ~(1 > l) /\ l - 1 + 1 = l
      BY <2>5 DEF l
    <3>2. IsFiniteSet(1 .. l) /\ Cardinality(1 .. l) = l
      BY <3>1, FS_Interval
    <3>3. QED
      BY <3>2 DEF l
  <2>7. QED
    BY <2>4, <2>6, FS_Surjection
<1>8. \A x, y \in S : <<x, y>> \in R <=> (x.at < y.at \/ (x.at = y.at /\ x.cue < y.cue))
  <2> HIDE DEF S
  <2>1. QED
    OBVIOUS
<1>9. \A x \in S : x.at \in Nat /\ x.cue \in Nat
  <2> TAKE x \in S
  <2>1. x \in E
    BY <1>5
  <2>2. QED
    BY <1>1, <2>1
<1>10. \A x, y \in S : x.at = y.at /\ x.cue = y.cue => x = y
  <2> TAKE x, y \in S
  <2>1. x \in E /\ y \in E
    BY <1>5
  <2>2. QED
    BY <2>1
<1> HIDE DEF R, S, z
<1>11. StrictlyOrders(R, S)
  <2>1. \A x \in S : <<x, x>> \notin R
    BY <1>8, <1>9
  <2>2. ASSUME NEW x \in S, NEW y \in S, NEW w \in S, <<x, y>> \in R, <<y, w>> \in R
        PROVE  <<x, w>> \in R
    BY <1>8, <1>9, <2>2
  <2>3. ASSUME NEW x \in S, NEW y \in S, x # y PROVE <<x, y>> \in R \/ <<y, x>> \in R
    <3>1. x.at # y.at \/ x.cue # y.cue
      BY <1>10, <2>3
    <3>2. x.at \in Nat /\ x.cue \in Nat /\ y.at \in Nat /\ y.cue \in Nat
      BY <1>9
    <3>3. x.at < y.at \/ y.at < x.at \/ (x.at = y.at /\ (x.cue < y.cue \/ y.cue < x.cue))
      BY <3>1, <3>2
    <3>4. QED
      BY <1>8, <3>3
  <2>4. QED
    BY <2>1, <2>2, <2>3 DEF StrictlyOrders
<1>12. Merge(times, cs) = Sorted(R, S)
  <2> DEFINE C(k) == CHOOSE x \in S :
               Cardinality({y \in S : y.at < x.at \/ (y.at = x.at /\ y.cue < x.cue)}) = k - 1
             D(k) == CHOOSE x \in S : Rank(R, S, x) = k - 1
  <2>1. Merge(times, cs) = [k \in 1 .. Cardinality(S) |-> C(k)]
    BY <1>4 DEF InOrder
  <2>2. Sorted(R, S) = [k \in 1 .. Cardinality(S) |-> D(k)]
    BY DEF Sorted
  <2>3. ASSUME NEW x \in S
        PROVE  Rank(R, S, x) =
                 Cardinality({y \in S : y.at < x.at \/ (y.at = x.at /\ y.cue < x.cue)})
    <3>1. {y \in S : <<y, x>> \in R} = {y \in S : y.at < x.at \/ (y.at = x.at /\ y.cue < x.cue)}
      BY <1>8
    <3>2. QED
      BY <3>1 DEF Rank
  <2>4. \A k \in 1 .. Cardinality(S) : C(k) = D(k)
    BY <2>3
  <2> HIDE DEF C, D
  <2>5. QED
    BY <2>1, <2>2, <2>4, Zenon
<1> DEFINE es == Sorted(R, S)
<1>13. /\ es \in Seq(S) /\ Len(es) = Cardinality(S)
       /\ \A x \in S : \E k \in DOMAIN es : es[k] = x
       /\ \A j, k \in DOMAIN es : j < k => <<es[j], es[k]>> \in R
  BY <1>7, <1>11, SortedProperties
<1> HIDE DEF es
<1>14. es # <<>> /\ es[1].at = 0
  <2>1. PICK k \in DOMAIN es : es[k] = z
    BY <1>6, <1>13
  <2>2. DOMAIN es = 1 .. Len(es) /\ Len(es) \in Nat
    BY <1>13
  <2>3. k \in Nat /\ 1 <= k /\ 1 \in DOMAIN es
    BY <2>1, <2>2
  <2>4. es[1] \in S
    BY <1>13, <2>2, <2>3
  <2>5. z.at = 0 /\ z.cue = 0
    BY DEF z
  <2>6. es[1].at = 0
    <3>1. CASE k = 1
      BY <2>1, <2>5, <3>1
    <3>2. CASE k # 1
      <4>1. <<es[1], es[k]>> \in R
        <5>1. 1 < k
          BY <2>3, <3>2
        <5>2. QED
          BY <1>13, <2>1, <2>3, <5>1
      <4>2. es[1].at < 0 \/ (es[1].at = 0 /\ es[1].cue < 0)
        BY <1>6, <1>8, <2>1, <2>4, <2>5, <4>1
      <4>3. QED
        BY <1>9, <2>4, <4>2
    <3>3. QED
      BY <3>1, <3>2
  <2>7. QED
    BY <2>2, <2>3, <2>6
<1>15. es \in Seq(E)
  <2>1. \A k \in 1 .. Len(es) : es[k] \in S
    BY <1>13
  <2>2. es \in [1 .. Len(es) -> E] /\ Len(es) \in Nat
    <3> HIDE DEF E
    <3>1. QED
      BY <1>5, <1>13, <2>1
  <2> HIDE DEF E
  <2>3. QED
    BY <2>2
<1>16. QED
  BY <1>7, <1>12, <1>13, <1>14, <1>15 DEF es, n, m

(* The words of a file, as they are laid out with its moments.             *)
Words(video, said) ==
  /\ Len(said) \in Nat /\ DOMAIN said = 1 .. Len(said)
  /\ \A j \in 1 .. Len(said) : said[j].start \in Nat /\ said[j].source \in {"said", "captioned"}
  /\ Len(SampleTimes(video.duration, Interval)) + Len(said) <= FrameDuration

(* A layout for a file, in which the entries in places are moments.        *)
LaidOut(video, cs, es, bs, places) ==
  /\ video \in Videos /\ HasTimeline(video)
  /\ Words(video, cs)
  /\ es \in Seq([at : Nat, cue : 0 .. Len(cs)]) /\ es # <<>> /\ es[1].at = 0
  /\ Len(es) <= FrameDuration
  /\ bs = Tile(Starts(es), video.duration, FrameDuration)
  /\ places = {i \in DOMAIN es : es[i].cue = 0}

(* What a read knows of the file, from phase to phase.                     *)
LayoutInv ==
  /\ budget \in Nat \cup {Unlimited}
  /\ pc \in {"locating", "probing"} => facts = None
  /\ pc \in {"captioning", "extracting", "transcribing"} => facts \in Videos /\ HasTimeline(facts)
  /\ pc \in {"fetching", "cutting"} => LaidOut(facts, cues, entries, bounds, DOMAIN moment)
  /\ TimelineLocated

LEMMA NoWords ==
  ASSUME NEW video \in Videos
  PROVE  Words(video, <<>>)
<1>1. Len(SampleTimes(video.duration, Interval)) + Len(<<>>) <= FrameDuration
  BY EntriesFit
<1>2. Len(<<>>) = 0 /\ DOMAIN <<>> = 1 .. 0
  OBVIOUS
<1>3. QED
  BY <1>1, <1>2 DEF Words

LEMMA WordsOfCues ==
  ASSUME facts \in Videos, NEW given \in CueLists, NEW source \in {"said", "captioned"}
  PROVE  Words(facts, Heard(given, source))
<1> DEFINE C == [start : Nat, end : Nat]
           d == facts.duration
           kept == Those(given, {i \in DOMAIN given : given[i].start < d})
           clamped == Clamped(given, d)
           said == Heard(given, source)
           n == Len(kept)
<1>1. given \in Seq(C) /\ {i \in DOMAIN given : given[i].start < d} \in SUBSET (DOMAIN given)
  BY VideoAssumption
<1>2. kept \in Seq(C) /\ Len(kept) <= Len(given)
  BY <1>1, ThosePlaces
<1>3. clamped = [k \in DOMAIN kept |-> [kept[k] EXCEPT !.end = Lesser(@, d)]]
  BY DEF Clamped
<1>4. said = [i \in DOMAIN clamped |->
               [start |-> clamped[i].start, end |-> clamped[i].end, source |-> source]]
  BY DEF Heard
<1> HIDE DEF kept, clamped, said, d
<1>5. n \in Nat /\ DOMAIN kept = 1 .. n /\ Len(given) \in Nat /\ n <= Len(given)
  BY <1>1, <1>2
<1>6. \A k \in 1 .. n : kept[k].start \in Nat /\ DOMAIN kept[k] = {"start", "end"}
  <2> TAKE k \in 1 .. n
  <2>1. kept[k] \in C
    BY <1>2, ElementOfSeq
  <2>2. QED
    BY <2>1
<1> HIDE DEF n
<1>7. DOMAIN clamped = 1 .. n /\ \A k \in 1 .. n : clamped[k].start = kept[k].start
  BY <1>3, <1>5, <1>6
<1>8. DOMAIN said = 1 .. n /\ Len(said) = n
  BY <1>4, <1>5, <1>7
<1>9. \A k \in 1 .. n : said[k].start = kept[k].start /\ said[k].source = source
  BY <1>4, <1>7
<1>10. Len(SampleTimes(facts.duration, Interval)) + Len(given) <= FrameDuration
  BY EntriesFit
<1>11. Len(SampleTimes(facts.duration, Interval)) + n <= FrameDuration
  <2> DEFINE l == Len(SampleTimes(facts.duration, Interval))
  <2>1. l \in Nat
    BY SampledTimes, VideoAssumption
  <2>2. FrameDuration \in Nat
    BY VideoAssumption
  <2> HIDE DEF l
  <2>3. l + Len(given) <= FrameDuration
    BY <1>10 DEF l
  <2>4. l + n <= FrameDuration
    BY <1>5, <2>1, <2>2, <2>3
  <2>5. QED
    BY <2>4 DEF l
<1>12. QED
  BY <1>5, <1>6, <1>8, <1>9, <1>11 DEF Words, said

(* A fetch lays out the timeline it has words for.                         *)
LEMMA FetchLaysOut ==
  ASSUME NEW video \in Videos, HasTimeline(video), NEW said, Words(video, said),
         Fetch(video, said)
  PROVE  LaidOut(video, cues', entries', bounds', DOMAIN moment')
<1> DEFINE times == SampleTimes(video.duration, Interval)
           es == Merge(times, said)
<1>1. cues' = said /\ entries' = es
  BY DEF Fetch
<1>2. bounds' = Tile(Starts(entries'), video.duration, FrameDuration)
  BY DEF Fetch, Starts
<1>3. DOMAIN moment' = {i \in DOMAIN entries' : entries'[i].cue = 0}
  BY DEF Fetch
<1>4. times \in Seq(Nat) /\ Len(times) \in Nat \ {0} /\ times[1] = 0
  <2>1. video.duration \in Nat /\ Interval \in Nat \ {0}
    BY VideoAssumption
  <2>2. QED
    BY <2>1, SampledTimes
<1> HIDE DEF times
<1>5. /\ Len(said) \in Nat /\ DOMAIN said = 1 .. Len(said)
      /\ \A j \in 1 .. Len(said) : said[j].start \in Nat
      /\ Len(times) + Len(said) <= FrameDuration
  BY DEF Words, times
<1>6. /\ es \in Seq([at : Nat, cue : 0 .. Len(said)]) /\ es # <<>> /\ es[1].at = 0
      /\ Len(es) <= Len(times) + Len(said)
  BY <1>4, <1>5, MergeProperties
<1>7. FrameDuration \in Nat
  BY VideoAssumption
<1> HIDE DEF es
<1>8. Len(es) <= FrameDuration
  <2>1. Len(es) \in Nat /\ Len(times) \in Nat /\ Len(said) \in Nat
    BY <1>4, <1>5, <1>6
  <2>2. QED
    BY <1>5, <1>6, <1>7, <2>1
<1>9. QED
  BY <1>1, <1>2, <1>3, <1>6, <1>8 DEF LaidOut

(* Once its moments are all there, it has something to say of each entry.  *)
LEMMA LaidOutSays ==
  ASSUME LaidOut(facts, cues, entries, bounds, DOMAIN moment),
         \A i \in DOMAIN moment : moment[i] \in Outcomes
  PROVE  Entries(entries, cues, moment)
<1>1. /\ entries \in Seq([at : Nat, cue : 0 .. Len(cues)]) /\ entries # <<>> /\ entries[1].at = 0
      /\ Len(entries) <= FrameDuration /\ Len(cues) \in Nat
      /\ DOMAIN moment = {i \in DOMAIN entries : entries[i].cue = 0}
      /\ \A j \in 1 .. Len(cues) : cues[j].source \in {"said", "captioned"}
  BY DEF LaidOut, Words
<1>2. DOMAIN entries = 1 .. Len(entries) /\ Len(entries) \in Nat
  BY <1>1
<1>3. ASSUME NEW i \in 1 .. Len(entries)
      PROVE  entries[i] \in [at : Nat, cue : 0 .. Len(cues)]
  BY <1>1, ElementOfSeq
<1>4. ASSUME NEW i \in 1 .. Len(entries)
      PROVE  LengthOf(entries, cues, moment, i) \in Nat \ {0}
  <2>1. SaysOf(entries, cues, moment, i) \in Outcomes \cup {"said", "captioned"}
    <3>1. CASE entries[i].cue = 0
      <4>1. i \in DOMAIN moment
        BY <1>1, <1>2, <3>1
      <4>2. QED
        BY <3>1, <4>1 DEF SaysOf
    <3>2. CASE entries[i].cue # 0
      <4>1. entries[i].cue \in 1 .. Len(cues)
        BY <1>1, <1>3, <3>2
      <4>2. QED
        BY <1>1, <3>2, <4>1 DEF SaysOf
    <3>3. QED
      BY <3>1, <3>2
  <2>2. QED
    BY <2>1, VideoAssumption DEF LengthOf, Outcomes
<1>5. entries \in Seq([at : Nat, cue : Nat])
  <2> DEFINE D == [at : Nat, cue : 0 .. Len(cues)]
             F == [at : Nat, cue : Nat]
  <2>1. D \subseteq F
    BY <1>1
  <2>2. \A i \in 1 .. Len(entries) : entries[i] \in F
    BY <1>3, <2>1
  <2>3. entries = [i \in 1 .. Len(entries) |-> entries[i]]
    BY <1>1
  <2> HIDE DEF F
  <2>4. entries \in [1 .. Len(entries) -> F]
    BY <2>2, <2>3
  <2>5. entries \in Seq(F)
    BY <1>2, <2>4
  <2>6. QED
    BY <2>5 DEF F
<1>6. QED
  BY <1>1, <1>4, <1>5 DEF Entries

LEMMA EntryBarriersAreBreaks ==
  ASSUME Grows(Offsets, Len(entries)), Len(entries) \in Nat \ {0}
  PROVE  Breaks(EntryBarriers, Offsets, Len(entries))
<1> DEFINE n == Len(entries)
           g == Offsets
           b == EntryBarriers
<1>1. n \in Nat \ {0} /\ Grows(g, n)
  OBVIOUS
<1>2. b = [i \in 1 .. n - 1 |-> g[i + 1]]
  BY DEF EntryBarriers
<1> HIDE DEF n, g, b
<1>3. \A i \in 1 .. n - 1 : i + 1 \in 1 .. n + 1 /\ i + 1 \in 2 .. n
  BY <1>1
<1>4. \A i \in 1 .. n - 1 : g[i + 1] \in Nat
  BY <1>1, <1>3 DEF Grows
<1>5. b \in Seq(Nat) /\ DOMAIN b = 1 .. n - 1
  <2>1. b \in [1 .. n - 1 -> Nat] /\ n - 1 \in Nat
    BY <1>1, <1>2, <1>4
  <2>2. QED
    BY <2>1
<1>6. ASSUME NEW j \in 1 .. n - 1, NEW k \in 1 .. n - 1, j < k PROVE b[j] < b[k]
  <2>1. j + 1 \in 1 .. n + 1 /\ k + 1 \in 1 .. n + 1 /\ j + 1 < k + 1 /\ n \in Nat
    BY <1>1, <1>6
  <2>2. g[j + 1] < g[k + 1]
    BY <1>1, <2>1, GrowsFurther
  <2>3. QED
    BY <1>2, <2>2
<1>7. \A k \in 1 .. n - 1 : \E i \in 2 .. n : b[k] = g[i]
  BY <1>2, <1>3
<1>8. QED
  BY <1>5, <1>6, <1>7 DEF Breaks, n, g, b

LEMMA BarriersAreBreaks ==
  ASSUME Grows(Offsets, Len(entries)), Len(entries) \in Nat \ {0},
         Len(bounds) = Len(entries), NEW cuts
  PROVE  Breaks(Barriers(cuts), Offsets, Len(entries))
<1> DEFINE n == Len(entries)
           g == Offsets
           into == {Bucket(cut, bounds) : cut \in cuts} \ {1}
           S == {g[i] : i \in into}
           b == InOrder(S, <)
<1>1. Barriers(cuts) = IF into = {} THEN EntryBarriers ELSE b
  BY DEF Barriers
<1>2. Breaks(EntryBarriers, g, n)
  BY EntryBarriersAreBreaks
<1>3. n \in Nat \ {0} /\ Grows(g, n)
  OBVIOUS
<1>4. into \in SUBSET (2 .. n)
  <2>1. \A cut \in cuts : Bucket(cut, bounds) \in 1 .. n
    BY BucketIsPlace
  <2> HIDE DEF n
  <2>2. QED
    BY <1>3, <2>1
<1> HIDE DEF n, g, into
<1>5. S \in SUBSET Nat /\ IsFiniteSet(S) /\ \A x \in S : \E i \in 2 .. n : x = g[i]
  <2>1. \A i \in into : i \in 2 .. n /\ i \in 1 .. n + 1
    BY <1>3, <1>4
  <2>2. \A i \in into : g[i] \in Nat
    BY <1>3, <2>1 DEF Grows
  <2>3. ASSUME NEW x \in S PROVE x \in Nat /\ x <= g[n + 1] /\ \E i \in 2 .. n : x = g[i]
    <3>1. PICK i \in into : x = g[i]
      OBVIOUS
    <3>2. i \in 2 .. n /\ i \in 1 .. n + 1 /\ n + 1 \in 1 .. n + 1 /\ i < n + 1 /\ n \in Nat
      BY <1>3, <2>1
    <3>3. g[i] < g[n + 1] /\ g[i] \in Nat /\ g[n + 1] \in Nat
      BY <1>3, <3>2, GrowsFurther DEF Grows
    <3>4. QED
      BY <3>1, <3>2, <3>3
  <2>4. g[n + 1] \in Nat
    <3>1. n + 1 \in 1 .. n + 1
      BY <1>3
    <3>2. QED
      BY <1>3, <3>1 DEF Grows
  <2> HIDE DEF S
  <2>5. S \in SUBSET Nat
    BY <2>3
  <2>6. IsFiniteSet(S)
    BY <2>3, <2>4, <2>5, FS_BoundedSetOfNaturals
  <2>7. QED
    BY <2>3, <2>5, <2>6
<1> HIDE DEF S
<1>6. /\ b \in Seq(S)
      /\ \A j, k \in DOMAIN b : j < k => b[j] < b[k]
  <2>1. S \in SUBSET Int
    BY <1>5
  <2>2. QED
    BY <1>5, <2>1, NumbersInOrder
<1> HIDE DEF b
<1>7. \A k \in DOMAIN b : b[k] \in S
  BY <1>6
<1>8. b \in Seq(Nat)
  BY <1>5, <1>6, SeqOfMore
<1>9. Breaks(b, g, n)
  BY <1>5, <1>6, <1>7, <1>8 DEF Breaks
<1>10. QED
  BY <1>1, <1>2, <1>9 DEF g, n

(* What is put together of a timeline, with any breaks between its entries *)
(* and at any budget, leads back to it.                                    *)
LEMMA AssembledIsLocated ==
  ASSUME LaidOut(facts, cues, entries, bounds, DOMAIN moment),
         \A i \in DOMAIN moment : moment[i] \in Outcomes,
         budget \in Nat \cup {Unlimited}, NEW barriers, NEW told,
         Breaks(barriers, Offsets, Len(entries))
  PROVE  LocatedIn(entries, cues, moment, facts.duration, Assembled(barriers, told))
<1> DEFINE n == Len(entries)
           g == Offsets
           text == Text
           segments == [i \in 1 .. n |-> [start |-> g[i], end |-> g[i + 1], locator |-> bounds[i]]]
           reported == TimelineReports \o reports \o told
           r == Assembled(barriers, told)
<1>1. Entries(entries, cues, moment)
  BY LaidOutSays
<1>2. /\ n \in Nat \ {0} /\ DOMAIN entries = 1 .. n
      /\ \A i \in 1 .. n : LengthOf(entries, cues, moment, i) \in Nat \ {0}
  BY <1>1 DEF Entries
<1>3. g = OffsetsOf(entries, cues, moment) /\ text = TextOf(entries, cues, moment)
  BY DEF Offsets, OffsetsOf, Says, SaysOf, Text, TextOf
<1>4. /\ Grows(g, n) /\ Len(text) = g[n + 1]
      /\ \E T : text \in Seq(T)
  BY <1>2, <1>3, TextOfEntries
<1>5. r = Fit(text, segments, barriers, budget, reported)
  <2>1. Segments = segments
    BY <1>2 DEF Segments
  <2>2. r = Fit(text, Segments, barriers, budget, reported)
    BY DEF Assembled
  <2> HIDE DEF segments, r, text, reported
  <2>3. QED
    BY <2>1, <2>2
<1> HIDE DEF r, reported, g, text, n
<1>6. PICK T : text \in Seq(T)
  BY <1>4
<1>7. Breaks(barriers, g, n)
  BY DEF g, n
<1>8. \E m \in 1 .. n : \E size \in Nat : CutAt(r, text, g, bounds, m, size)
  BY <1>2, <1>4, <1>5, <1>6, <1>7, FitCuts
<1>9. PICK m \in 1 .. n, size \in Nat : CutAt(r, text, g, bounds, m, size)
  BY <1>8
<1>10. bounds = Tile(Starts(entries), facts.duration, FrameDuration) /\ facts.duration \in Nat \ {0}
  BY VideoAssumption DEF LaidOut, HasTimeline
<1>11. CutAt(r, TextOf(entries, cues, moment), OffsetsOf(entries, cues, moment),
             Tile(Starts(entries), facts.duration, FrameDuration), m, size)
  BY <1>3, <1>9, <1>10
<1>12. m \in 1 .. Len(entries)
  BY DEF n
<1>13. LocatedIn(entries, cues, moment, facts.duration, r)
  BY <1>1, <1>10, <1>11, <1>12, CutIsLocated
<1>14. QED
  BY <1>13 DEF r

LEMMA LocatedHere ==
  TimelineLocated <=> (HasRead => LocatedIn(entries, cues, moment, facts.duration, result))
  BY DEF TimelineLocated, LocatedIn, PlaceIn, Place, Offsets, OffsetsOf, Says, SaysOf

LEMMA LocatedThere ==
  TimelineLocated' <=> (HasRead' => LocatedIn(entries', cues', moment', facts'.duration, result'))
  BY DEF TimelineLocated, LocatedIn, PlaceIn, Place, Offsets, OffsetsOf, Says, SaysOf

LEMMA NotRead == ~HasRead' => TimelineLocated'
  BY LocatedThere

LEMMA InitLayout == Init => LayoutInv
<1> SUFFICES ASSUME Init PROVE LayoutInv
  OBVIOUS
<1>1. pc = "idle" /\ budget = Unlimited /\ result = None
  BY DEF Init
<1>2. TimelineLocated
  BY <1>1, LocatedHere DEF HasRead, Rendering
<1>3. QED
  BY <1>1, <1>2 DEF LayoutInv

(* A step on the way to the words, that may find them.                     *)
LEMMA WaysToWords ==
  ASSUME NEW video \in Videos, HasTimeline(video), facts' = video, budget' = budget,
         budget \in Nat \cup {Unlimited},
         \/ pc' \in {"captioning", "extracting", "transcribing"}
         \/ \E said : Words(video, said) /\ Fetch(video, said)
  PROVE  LayoutInv'
<1>1. CASE pc' \in {"captioning", "extracting", "transcribing"}
  BY <1>1, NotRead DEF LayoutInv, HasRead, Rendering
<1>2. ASSUME NEW said, Words(video, said), Fetch(video, said) PROVE LayoutInv'
  <2>1. pc' = "fetching"
    BY <1>2 DEF Fetch, GoOn
  <2>2. LaidOut(video, cues', entries', bounds', DOMAIN moment')
    BY <1>2, FetchLaysOut
  <2>3. QED
    BY <2>1, <2>2, NotRead DEF LayoutInv, HasRead, Rendering
<1>3. QED
  BY <1>1, <1>2

LEMMA ListeningFinds ==
  ASSUME NEW video \in Videos, NEW told, NEW failed, Listen(video, told, failed)
  PROVE  \/ pc' \in {"captioning", "extracting", "transcribing"}
         \/ \E said : Words(video, said) /\ Fetch(video, said)
<1>1. CASE GoOn("extracting")
  BY <1>1 DEF GoOn
<1>2. CASE Fetch(video, <<>>)
  BY <1>2, NoWords
<1>3. QED
  BY <1>1, <1>2 DEF Listen

(* The end of a read puts the timeline together.                           *)
LEMMA AssemblyIsLocated ==
  ASSUME ReadInv, LayoutInv, pc = "cutting", NEW barriers, NEW told,
         Breaks(barriers, Offsets, Len(entries)), Over(Assembled(barriers, told)),
         UNCHANGED <<facts, cues, entries, bounds, moment, budget>>
  PROVE  LayoutInv'
<1>1. \A i \in DOMAIN moment : moment[i] \in Outcomes
  BY DEF ReadInv, Ended, Stopping
<1>2. LaidOut(facts, cues, entries, bounds, DOMAIN moment) /\ budget \in Nat \cup {Unlimited}
  BY DEF LayoutInv
<1>3. LocatedIn(entries, cues, moment, facts.duration, Assembled(barriers, told))
  BY <1>1, <1>2, AssembledIsLocated
<1>4. LocatedIn(entries', cues', moment', facts'.duration, result')
  BY <1>3, Zenon DEF Over
<1>5. TimelineLocated'
  BY <1>4, LocatedThere
<1>6. pc' = "idle"
  BY DEF Over
<1>7. QED
  BY <1>2, <1>5, <1>6 DEF LayoutInv

LEMMA CuttingGrows ==
  ASSUME ReadInv, LayoutInv, pc = "cutting"
  PROVE  Grows(Offsets, Len(entries)) /\ Len(entries) \in Nat \ {0} /\ Len(bounds) = Len(entries)
<1>1. \A i \in DOMAIN moment : moment[i] \in Outcomes
  BY DEF ReadInv, Ended, Stopping
<1>2. LaidOut(facts, cues, entries, bounds, DOMAIN moment)
  BY DEF LayoutInv
<1>3. Entries(entries, cues, moment)
  BY <1>1, <1>2, LaidOutSays
<1>4. /\ Len(entries) \in Nat \ {0} /\ DOMAIN entries = 1 .. Len(entries)
      /\ \A i \in 1 .. Len(entries) : LengthOf(entries, cues, moment, i) \in Nat \ {0}
  BY <1>3 DEF Entries
<1>5. Offsets = OffsetsOf(entries, cues, moment)
  BY DEF Offsets, OffsetsOf, Says, SaysOf
<1>6. Grows(Offsets, Len(entries))
  BY <1>4, <1>5, TextOfEntries
<1>7. bounds = Tile(Starts(entries), facts.duration, FrameDuration)
  BY <1>2 DEF LaidOut
<1>8. DOMAIN Starts(entries) = 1 .. Len(entries)
  BY <1>4 DEF Starts
<1>9. Len(bounds) = Len(entries)
  <2>1. DOMAIN bounds = 1 .. Len(entries)
    BY <1>7, <1>8 DEF Tile
  <2>2. QED
    BY <1>4, <1>7, <1>8, <2>1 DEF Tile
<1>10. QED
  BY <1>4, <1>6, <1>9

LEMMA NextLayout == ReadInv /\ LayoutInv /\ [Next]_vars => LayoutInv'
<1> SUFFICES ASSUME ReadInv, LayoutInv, [Next]_vars PROVE LayoutInv'
  OBVIOUS
<1>0. budget \in Nat \cup {Unlimited}
  BY DEF LayoutInv
<1>1. ASSUME NEW b \in Budgets, Represent(b) PROVE LayoutInv'
  <2>1. pc' = "locating" /\ facts' = None /\ budget' \in Nat \cup {Unlimited}
    BY <1>1, VideoAssumption DEF Represent
  <2>2. QED
    BY <2>1, NotRead DEF LayoutInv, HasRead, Rendering
<1>2. ASSUME Locate PROVE LayoutInv'
  <2>1. pc = "locating" /\ pc' = "probing" /\ facts' = facts /\ budget' = budget
    BY <1>2 DEF Locate, GoOn, words
  <2>2. QED
    BY <2>1, NotRead DEF LayoutInv, HasRead, Rendering
<1>3. ASSUME Unreadable PROVE LayoutInv'
  <2>1. pc \in {"locating", "probing"} /\ pc' = "idle" /\ facts' = facts /\ budget' = budget
    BY <1>3 DEF Unreadable, Over
  <2>2. facts' = None
    BY <2>1 DEF LayoutInv
  <2>3. QED
    BY <1>0, <2>1, <2>2, NotRead DEF LayoutInv, HasRead
<1>4. ASSUME NEW v \in Videos, ProbeTimeline(v) PROVE LayoutInv'
  <2>1. HasTimeline(v) /\ facts' = v /\ budget' = budget
    BY <1>4 DEF ProbeTimeline
  <2>2. GoOn("captioning") \/ \E told, failed : Listen(v, told, failed)
    BY <1>4 DEF ProbeTimeline
  <2>3. GoOn("captioning") => pc' = "captioning"
    BY DEF GoOn
  <2>4. QED
    BY <1>0, <2>1, <2>2, <2>3, ListeningFinds, WaysToWords
<1>5. ASSUME NEW v \in Videos, ProbeNoTimeline(v) PROVE LayoutInv'
  <2>1. ~HasTimeline(v) /\ facts' = v /\ budget' = budget /\ pc' = "idle"
    BY <1>5 DEF ProbeNoTimeline, Over
  <2>2. ~HasRead'
    BY <2>1 DEF HasRead, HasTimeline
  <2>3. QED
    BY <1>0, <2>1, <2>2, NotRead DEF LayoutInv
<1>6. ASSUME NEW l \in CueLists, Captions(l) PROVE LayoutInv'
  <2>1. facts \in Videos /\ HasTimeline(facts) /\ facts' = facts /\ budget' = budget
    BY <1>6 DEF Captions, LayoutInv
  <2>2. Fetch(facts, Heard(l, "captioned")) \/ \E told, failed : Listen(facts, told, failed)
    BY <1>6 DEF Captions
  <2>3. Words(facts, Heard(l, "captioned"))
    BY <2>1, WordsOfCues
  <2>4. QED
    BY <1>0, <2>1, <2>2, <2>3, ListeningFinds, WaysToWords
<1>7. ASSUME CaptionsFail PROVE LayoutInv'
  <2>1. facts \in Videos /\ HasTimeline(facts) /\ facts' = facts /\ budget' = budget
    BY <1>7 DEF CaptionsFail, LayoutInv
  <2>2. \E told, failed : Listen(facts, told, failed)
    BY <1>7 DEF CaptionsFail
  <2>3. QED
    BY <1>0, <2>1, <2>2, ListeningFinds, WaysToWords
<1>8. ASSUME ExtractAudio PROVE LayoutInv'
  <2>1. /\ facts \in Videos /\ HasTimeline(facts) /\ facts' = facts /\ budget' = budget
        /\ pc' = "transcribing"
    BY <1>8 DEF ExtractAudio, GoOn, words, LayoutInv
  <2>2. QED
    BY <1>0, <2>1, WaysToWords
<1>9. ASSUME NEW at \in {"extracting", "transcribing"}, NEW what, NoSpeech(at, what)
      PROVE  LayoutInv'
  <2>1. facts \in Videos /\ HasTimeline(facts) /\ facts' = facts /\ budget' = budget
    BY <1>9 DEF NoSpeech, LayoutInv
  <2>2. Fetch(facts, <<>>)
    BY <1>9 DEF NoSpeech
  <2>3. Words(facts, <<>>)
    BY <2>1, NoWords
  <2>4. QED
    BY <1>0, <2>1, <2>2, <2>3, WaysToWords
<1>10. ASSUME NEW l \in CueLists, Transcribe(l) PROVE LayoutInv'
  <2>1. facts \in Videos /\ HasTimeline(facts) /\ facts' = facts /\ budget' = budget
    BY <1>10 DEF Transcribe, LayoutInv
  <2>2. Fetch(facts, Heard(l, "said"))
    BY <1>10 DEF Transcribe
  <2>3. Words(facts, Heard(l, "said"))
    BY <2>1, WordsOfCues
  <2>4. QED
    BY <1>0, <2>1, <2>2, <2>3, WaysToWords
<1>11. ASSUME NEW cuts \in CutSets, Detect(cuts) PROVE LayoutInv'
  <2>1. /\ pc = "cutting" /\ Over(Assembled(Barriers(cuts), <<>>))
        /\ UNCHANGED <<facts, cues, entries, bounds, moment, budget>>
    BY <1>11 DEF Detect, words
  <2>2. Breaks(Barriers(cuts), Offsets, Len(entries))
    BY <2>1, CuttingGrows, BarriersAreBreaks
  <2>3. QED
    BY <2>1, <2>2, AssemblyIsLocated
<1>12. ASSUME DetectFails PROVE LayoutInv'
  <2>1. /\ pc = "cutting" /\ \E told : Over(Assembled(EntryBarriers, told))
        /\ UNCHANGED <<facts, cues, entries, bounds, moment, budget>>
    BY <1>12 DEF DetectFails, laidOut
  <2>2. Breaks(EntryBarriers, Offsets, Len(entries))
    BY <2>1, CuttingGrows, EntryBarriersAreBreaks
  <2>3. QED
    BY <2>1, <2>2, AssemblyIsLocated
<1>13. ASSUME Gather \/ Cancel PROVE LayoutInv'
  <2>1. UNCHANGED <<facts, cues, entries, bounds, moment, budget>>
    BY <1>13 DEF Gather, Cancel, words
  <2>2. \/ pc' = "idle" /\ result' = Raised
        \/ pc = "fetching" /\ pc' \in {"fetching", "cutting"}
    BY <1>13 DEF Gather, Cancel, Over, GoOn
  <2>3. ~HasRead'
    BY <2>2 DEF HasRead, Rendering
  <2>4. pc' \in {"fetching", "cutting"} =>
          LaidOut(facts', cues', entries', bounds', DOMAIN moment')
    BY <2>1, <2>2 DEF LayoutInv
  <2>5. QED
    BY <1>0, <2>1, <2>2, <2>3, <2>4, NotRead DEF LayoutInv
<1>14. ASSUME NEW i \in DOMAIN moment, Goes(i) PROVE LayoutInv'
  <2>1. pc = "fetching" /\ UNCHANGED <<pc, facts, cues, entries, bounds, budget>>
    BY <1>14 DEF Goes, words
  <2>2. DOMAIN moment' = DOMAIN moment
    BY <1>14 DEF Goes
  <2>3. LaidOut(facts', cues', entries', bounds', DOMAIN moment')
    BY <2>1, <2>2 DEF LayoutInv
  <2>4. QED
    BY <1>0, <2>1, <2>3, NotRead DEF LayoutInv, HasRead, Rendering
<1>15. ASSUME UNCHANGED read PROVE LayoutInv'
  <2>1. UNCHANGED <<pc, budget, facts, cues, entries, bounds, moment, result>>
    BY <1>15 DEF read, words
  <2>2. HasRead' => HasRead
    BY <2>1 DEF HasRead, Rendering
  <2>3. HasRead => LocatedIn(entries, cues, moment, facts.duration, result)
    BY LocatedHere DEF LayoutInv
  <2>4. TimelineLocated'
    BY <2>1, <2>2, <2>3, LocatedThere, Zenon
  <2>5. QED
    BY <2>1, <2>4 DEF LayoutInv
<1>16. QED
  BY <1>1, <1>2, <1>3, <1>4, <1>5, <1>6, <1>7, <1>8, <1>9, <1>10, <1>11, <1>12, <1>13,
     <1>14, <1>15, MomentSteps, Asks DEF Next, Port, vars

(* Every character of every video that is read leads to the time its entry *)
(* is of, in spans that tile the file, however its words and its moments   *)
(* coincide, wherever its cuts fall and whatever the budget leaves of it.  *)
THEOREM TimelineIsLocated == Spec => []TimelineLocated
<1>1. LayoutInv => TimelineLocated
  BY DEF LayoutInv
<1>2. QED
  BY <1>1, InitRead, NextRead, InitLayout, NextLayout, PTL DEF Spec

=============================================================================
